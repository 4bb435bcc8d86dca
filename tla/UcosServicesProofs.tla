------------------------- MODULE UcosServicesProofs -------------------------
(***************************************************************************)
(* Theorems about UcosServices, for every number of tasks, priorities,     *)
(* event control blocks, queues, flag groups, memory partitions and        *)
(* blocks.  First its pools: no control block and no memory block is lost. *)
(* Then lemmas on values: what a TCB says of its task, and how ready list, *)
(* wait lists, priority table and the owners of mutexes stay exact when    *)
(* one task, or the tasks that a call answers, change.  Last the steps:    *)
(* the wait lists, the ready list, the priority table, the owners of       *)
(* mutexes and the nodes of event flags are exact, if OS_Sched returns to  *)
(* the pend that called it and the tasks make none of the calls that       *)
(* Hazards names.                                                          *)
(***************************************************************************)
EXTENDS UcosServices, FiniteSetTheorems, WellFoundedInduction, TLAPS

-----------------------------------------------------------------------------
(* Recursive functions over 1..n *)

LEMMA LeastNatural ==
  ASSUME NEW T \in SUBSET Nat, T # {}
  PROVE  \E n \in T : \A m \in T : n <= m
<1>1. PICK n \in T : \A m \in T : ~(<<m, n>> \in OpToRel(<, Nat))
  BY NatLessThanWellFounded, WFMin
<1>2. ASSUME NEW m \in T
      PROVE  n <= m
  <2>1. ~(m < n)
    BY <1>1 DEF OpToRel
  <2> QED
    BY <2>1
<1> QED
  BY <1>2

\* Link by link from first on, n times.
IsPath(f, first, l, n) == f = [i \in 1..n |-> IF i = 1 THEN first ELSE l[f[i - 1]]]

LEMMA PathExists ==
  ASSUME NEW first, NEW l, NEW n \in Nat
  PROVE  \E f : IsPath(f, first, l, n)
<1> SUFFICES ASSUME ~ \E f : IsPath(f, first, l, n)
             PROVE  FALSE
  OBVIOUS
<1> DEFINE Bad == {k \in Nat : ~ \E f : IsPath(f, first, l, k)}
<1>1. n \in Bad
  OBVIOUS
<1>2. PICK k \in Bad : \A j \in Bad : k <= j
  <2>1. Bad \in SUBSET Nat /\ Bad # {}
    BY <1>1
  <2> QED
    BY <2>1, LeastNatural
<1>3. k \in Nat /\ ~ \E f : IsPath(f, first, l, k)
  OBVIOUS
<1>4. CASE k = 0
  <2> DEFINE g == [i \in 1..0 |-> first]
  <2>1. IsPath(g, first, l, 0)
    BY DEF IsPath
  <2> QED
    BY <1>3, <1>4, <2>1
<1>5. CASE k # 0
  <2>1. k - 1 \in Nat /\ ~(k <= k - 1)
    BY <1>3, <1>5
  <2>2. k - 1 \notin Bad
    BY <1>2, <2>1
  <2>3. PICK f : IsPath(f, first, l, k - 1)
    BY <2>1, <2>2
  <2> DEFINE g == [i \in 1..k |-> IF i = 1 THEN first ELSE l[f[i - 1]]]
  <2>4. \A i \in 1..(k - 1) : g[i] = f[i]
    BY <1>3, <1>5, <2>3 DEF IsPath
  <2>5. \A i \in 1..k : i # 1 => g[i - 1] = f[i - 1]
    BY <1>3, <2>4
  <2>6. g = [i \in 1..k |-> IF i = 1 THEN first ELSE l[g[i - 1]]]
    <3> HIDE DEF g
    <3>1. g = [i \in 1..k |-> IF i = 1 THEN first ELSE l[f[i - 1]]]
      BY DEF g
    <3> QED
      BY <2>5, <3>1
  <2> QED
    BY <1>3, <2>6 DEF IsPath
<1> QED
  BY <1>4, <1>5

-----------------------------------------------------------------------------
(* Lists without repetitions, as the pools of free control blocks are *)

\* s has every element of S once and nothing else.
Lists(s, S) ==
  /\ \A i \in 1..Len(s) : s[i] \in S
  /\ \A i, j \in 1..Len(s) : s[i] = s[j] => i = j
  /\ \A x \in S : \E i \in 1..Len(s) : s[i] = x

LEMMA TailLists ==
  ASSUME NEW T, NEW s \in Seq(T), s # <<>>, NEW S, Lists(s, S)
  PROVE  Head(s) \in S /\ Head(s) \in T /\ Tail(s) \in Seq(T) /\ Lists(Tail(s), S \ {Head(s)})
<1>1. /\ Len(s) \in Nat /\ Len(s) # 0 /\ Head(s) = s[1]
      /\ Tail(s) \in Seq(T) /\ Len(Tail(s)) = Len(s) - 1
      /\ \A i \in 1..Len(Tail(s)) : Tail(s)[i] = s[i + 1]
  OBVIOUS
<1> DEFINE r == Tail(s)
<1> HIDE DEF r
<1>2. /\ r \in Seq(T) /\ Len(r) = Len(s) - 1 /\ \A i \in 1..Len(r) : r[i] = s[i + 1]
  BY <1>1 DEF r
<1>3. 1 \in 1..Len(s) /\ s[1] \in S /\ s[1] \in T
  BY <1>1 DEF Lists
<1>4. \A i \in 1..Len(r) : i + 1 \in 1..Len(s) /\ i + 1 # 1
  BY <1>1, <1>2
<1>5. \A i \in 1..Len(r) : r[i] \in S \ {s[1]}
  BY <1>2, <1>3, <1>4 DEF Lists
<1>6. ASSUME NEW i \in 1..Len(r), NEW j \in 1..Len(r), r[i] = r[j]
      PROVE  i = j
  <2>1. i + 1 = j + 1
    BY <1>2, <1>4, <1>6 DEF Lists
  <2> QED
    BY <2>1
<1>7. ASSUME NEW x \in S, x # s[1]
      PROVE  \E i \in 1..Len(r) : r[i] = x
  <2>1. PICK i \in 1..Len(s) : s[i] = x
    BY DEF Lists
  <2>2. i - 1 \in 1..Len(r) /\ i - 1 + 1 = i
    BY <1>1, <1>2, <1>7, <2>1
  <2> QED
    BY <1>2, <2>1, <2>2
<1>8. Lists(r, S \ {s[1]})
  BY <1>5, <1>6, <1>7 DEF Lists
<1> QED
  BY <1>1, <1>3, <1>8 DEF r

LEMMA ConsLists ==
  ASSUME NEW T, NEW s \in Seq(T), NEW x \in T, NEW S, Lists(s, S), x \notin S
  PROVE  <<x>> \o s \in Seq(T) /\ Lists(<<x>> \o s, S \cup {x})
<1> DEFINE r == <<x>> \o s
<1>1. /\ Len(s) \in Nat /\ r \in Seq(T) /\ Len(r) = Len(s) + 1
      /\ r[1] = x /\ \A i \in 2..Len(r) : r[i] = s[i - 1]
  OBVIOUS
<1> HIDE DEF r
<1>2. \A i \in 1..Len(r) : i # 1 => i \in 2..Len(r) /\ i - 1 \in 1..Len(s) /\ r[i] = s[i - 1]
  BY <1>1
<1>3. \A i \in 1..Len(r) : r[i] \in S \cup {x}
  BY <1>1, <1>2 DEF Lists
<1>4. ASSUME NEW i \in 1..Len(r), NEW j \in 1..Len(r), r[i] = r[j]
      PROVE  i = j
  <2>1. \A k \in 1..Len(r) : k # 1 => r[k] # x
    BY <1>2 DEF Lists
  <2>2. CASE i = 1 \/ j = 1
    BY <1>1, <1>4, <2>1, <2>2
  <2>3. CASE i # 1 /\ j # 1
    <3>1. i - 1 = j - 1
      BY <1>2, <1>4, <2>3 DEF Lists
    <3> QED
      BY <3>1
  <2> QED
    BY <2>2, <2>3
<1>5. ASSUME NEW y \in S
      PROVE  \E i \in 1..Len(r) : r[i] = y
  <2>1. PICK i \in 1..Len(s) : s[i] = y
    BY DEF Lists
  <2>2. i + 1 \in 1..Len(r) /\ i + 1 # 1 /\ i + 1 - 1 = i
    BY <1>1, <2>1
  <2> QED
    BY <1>2, <2>1, <2>2
<1>6. 1 \in 1..Len(r)
  BY <1>1
<1>7. Lists(r, S \cup {x})
  BY <1>1, <1>3, <1>4, <1>5, <1>6 DEF Lists
<1> QED
  BY <1>1, <1>7 DEF r

LEMMA ListsCardinality ==
  ASSUME NEW T, NEW s \in Seq(T), NEW S, Lists(s, S)
  PROVE  Len(s) = Cardinality(S)
<1> DEFINE g == [i \in 1..Len(s) |-> s[i]]
<1>1. g \in [1..Len(s) -> S]
  BY DEF Lists
<1>2. \A i, j \in 1..Len(s) : g[i] = g[j] => i = j
  BY DEF Lists
<1>3. \A x \in S : \E i \in 1..Len(s) : g[i] = x
  BY DEF Lists
<1>4. g \in Bijection(1..Len(s), S)
  BY <1>1, <1>2, <1>3 DEF Bijection, Injection, Surjection, IsInjective
<1>5. ExistsBijection(1..Len(s), S)
  BY <1>4 DEF ExistsBijection
<1>6. Len(s) \in Nat
  OBVIOUS
<1> DEFINE n == Len(s)
<1> HIDE DEF n, g
<1>7. IsFiniteSet(1..n) /\ Cardinality(1..n) = n
  <2>1. 1 \in Int /\ n \in Nat /\ n \in Int
    BY <1>6 DEF n
  <2>2. IsFiniteSet(1..n) /\ Cardinality(1..n) = IF 1 > n THEN 0 ELSE n - 1 + 1
    BY <2>1, FS_Interval
  <2> QED
    BY <2>1, <2>2
<1>8. Cardinality(S) = Cardinality(1..n)
  BY <1>5, <1>7, FS_Bijection DEF n
<1> QED
  BY <1>7, <1>8 DEF n

\* A list of the whole of a finite set, as the kernel chains its control
\* blocks when it starts.
LEMMA ChosenLists ==
  ASSUME NEW S, IsFiniteSet(S), NEW s,
         s = CHOOSE f \in [1..Cardinality(S) -> S] : \A x \in S : \E i \in DOMAIN f : f[i] = x
  PROVE  s \in Seq(S) /\ Lists(s, S)
<1> DEFINE N == Cardinality(S)
           Onto(f) == \A x \in S : \E i \in DOMAIN f : f[i] = x
<1>1. N \in Nat /\ ExistsBijection(1..N, S)
  BY FS_CardinalityType
<1>2. IsFiniteSet(1..N) /\ Cardinality(1..N) = N
  <2> HIDE DEF N
  <2>1. 1 \in Int /\ N \in Int
    BY <1>1
  <2>2. IsFiniteSet(1..N) /\ Cardinality(1..N) = IF 1 > N THEN 0 ELSE N - 1 + 1
    BY <2>1, FS_Interval
  <2> QED
    BY <1>1, <2>2
<1>3. s = CHOOSE f \in [1..N -> S] : Onto(f)
  OBVIOUS
<1> HIDE DEF N
<1>4. \E f \in [1..N -> S] : Onto(f)
  <2>1. PICK f : f \in Bijection(1..N, S)
    BY <1>1 DEF ExistsBijection
  <2> QED
    BY <2>1 DEF Bijection, Surjection, Injection
<1>5. s \in [1..N -> S] /\ Onto(s)
  BY <1>3, <1>4
<1>6. s \in Surjection(1..N, S)
  BY <1>5 DEF Surjection
<1>7. s \in Injection(1..N, S)
  <2>1. Cardinality(1..N) = Cardinality(S)
    BY <1>2 DEF N
  <2> QED
    BY <1>2, <1>6, <2>1, FS_SurjSameCardinalityImpliesInj
<1>8. s \in Seq(S) /\ Len(s) = N
  BY <1>1, <1>5
<1>9. \A i, j \in 1..N : s[i] = s[j] => i = j
  BY <1>7 DEF Injection, IsInjective
<1> QED
  BY <1>5, <1>8, <1>9 DEF Lists

-----------------------------------------------------------------------------
(* Memory partitions *)

\* The free blocks of m in the order they are handed out, and the end of it.
ChainOf(m, c) ==
  LET n == OSMemTbl[m].nfree
  IN  /\ c \in [1..(n + 1) -> Addresses]
      /\ c[1] = OSMemTbl[m].free /\ c[n + 1] = NoBlock
      /\ \A i \in 1..n : c[i] \in BlocksOf(m) \ taken /\ link[c[i]] = c[i + 1]
      /\ \A i, j \in 1..n : c[i] = c[j] => i = j
      /\ \A b \in BlocksOf(m) \ taken : \E i \in 1..n : c[i] = b

MemTyped ==
  /\ OSMemTbl \in [MemParts -> OS_MEM]
  /\ OSMemFreeList \in Seq(MemParts)
  /\ link \in [Blocks -> Addresses \cup {Payload}]
  /\ taken \subseteq Blocks

MemListExact ==
  /\ \A i, j \in 1..Len(OSMemFreeList) : OSMemFreeList[i] = OSMemFreeList[j] => i = j
  /\ \A i \in 1..Len(OSMemFreeList) : OSMemTbl[OSMemFreeList[i]].nblks = 0

UnusedPart(m) ==
  OSMemTbl[m].nblks = 0 => OSMemTbl[m].nfree = 0 /\ taken \cap BlocksOf(m) = {}

UsedPart(m) == OSMemTbl[m].nblks # 0 => \E c : ChainOf(m, c)

MemInv ==
  /\ MemTyped
  /\ MemListExact
  /\ \A m \in MemParts : UnusedPart(m) /\ UsedPart(m)

LEMMA MemInitial == Init => MemInv
<1> SUFFICES ASSUME Init
             PROVE  MemInv
  OBVIOUS
<1>1. MemInit
  BY DEF Init
<1>2. OSMemFreeList \in Seq(MemParts) /\ Lists(OSMemFreeList, MemParts)
  BY <1>1, ChosenLists, MemAssumption DEF MemInit
<1>3. \A m \in MemParts : OSMemTbl[m] = [free |-> NoBlock, nblks |-> 0, nfree |-> 0]
  BY <1>1 DEF MemInit
<1>4. MemTyped
  BY <1>1, <1>2, MemAssumption DEF MemInit, MemTyped, OS_MEM, Addresses, NoBlock
<1>5. MemListExact
  BY <1>2, <1>3 DEF MemListExact, Lists
<1>6. ASSUME NEW m \in MemParts
      PROVE  UnusedPart(m) /\ UsedPart(m)
  BY <1>1, <1>3 DEF MemInit, UnusedPart, UsedPart
<1> QED
  BY <1>4, <1>5, <1>6 DEF MemInv

LEMMA OSMemCreateStep ==
  ASSUME MemInv, OSMemCreate
  PROVE  MemInv'
<1> DEFINE m0 == Head(OSMemFreeList)
<1>1. OSMemFreeList \in Seq(MemParts) /\ OSMemFreeList # <<>>
  BY DEF MemInv, MemTyped, OSMemCreate
<1>2. /\ m0 \in MemParts /\ m0 = OSMemFreeList[1] /\ 1 \in 1..Len(OSMemFreeList)
      /\ OSMemFreeList' = Tail(OSMemFreeList)
  BY <1>1 DEF OSMemCreate
<1>3. OSMemTbl[m0].nblks = 0
  BY <1>2 DEF MemInv, MemListExact
<1> HIDE DEF m0
<1>4. NBlks \in Nat /\ NBlks # 0
  BY MemAssumption
<1>5. OSMemTbl' = [OSMemTbl EXCEPT ![m0] = [free |-> <<m0, 1>>, nblks |-> NBlks, nfree |-> NBlks]]
  BY DEF OSMemCreate, m0
<1>6. link' = [b \in Blocks |-> IF b \notin BlocksOf(m0) THEN link[b]
                                ELSE IF b[2] < NBlks THEN <<m0, b[2] + 1>> ELSE NoBlock]
  BY DEF OSMemCreate, m0
<1>7. taken' = taken
  BY DEF OSMemCreate
<1>8. OSMemTbl \in [MemParts -> OS_MEM] /\ taken \subseteq Blocks
  BY DEF MemInv, MemTyped
<1>9. \A b \in BlocksOf(m0) : b \in Blocks /\ b = <<m0, b[2]>> /\ b[2] \in 1..NBlks
  BY <1>2 DEF BlocksOf, Blocks
<1>10. \A i \in 1..NBlks : <<m0, i>> \in BlocksOf(m0) /\ <<m0, i>> \in Blocks
  BY <1>2 DEF BlocksOf, Blocks
<1>11. link' \in [Blocks -> Addresses \cup {Payload}]
  <2>1. link \in [Blocks -> Addresses \cup {Payload}]
    BY DEF MemInv, MemTyped
  <2>2. ASSUME NEW b \in BlocksOf(m0), b[2] < NBlks
        PROVE  <<m0, b[2] + 1>> \in Blocks
    <3>1. b[2] + 1 \in 1..NBlks
      BY <1>4, <1>9, <2>2
    <3> QED
      BY <1>10, <3>1
  <2> QED
    BY <1>6, <2>1, <2>2 DEF Addresses, NoBlock
<1>12. OSMemTbl' \in [MemParts -> OS_MEM]
  <2>1. [free |-> <<m0, 1>>, nblks |-> NBlks, nfree |-> NBlks] \in OS_MEM
    <3>1. <<m0, 1>> \in Addresses
      BY <1>4, <1>10 DEF Addresses
    <3> QED
      BY <1>4, <3>1 DEF OS_MEM
  <2> QED
    BY <1>5, <1>8, <2>1
<1>13. OSMemFreeList' \in Seq(MemParts)
       /\ Len(OSMemFreeList') = Len(OSMemFreeList) - 1
       /\ \A i \in 1..Len(OSMemFreeList') : OSMemFreeList'[i] = OSMemFreeList[i + 1]
  BY <1>1, <1>2
<1>14. MemTyped'
  BY <1>7, <1>8, <1>11, <1>12, <1>13 DEF MemTyped, Blocks, Addresses, NoBlock, Payload
<1>15. /\ OSMemTbl'[m0] = [free |-> <<m0, 1>>, nblks |-> NBlks, nfree |-> NBlks]
       /\ \A m \in MemParts \ {m0} : OSMemTbl'[m] = OSMemTbl[m]
  BY <1>2, <1>5, <1>8
<1>16. MemListExact'
  <2>1. \A i \in 1..Len(OSMemFreeList') : i + 1 \in 1..Len(OSMemFreeList) /\ i + 1 # 1
    BY <1>1, <1>13
  <2>2. \A i, j \in 1..Len(OSMemFreeList) : OSMemFreeList[i] = OSMemFreeList[j] => i = j
    BY DEF MemInv, MemListExact
  <2>3. ASSUME NEW i \in 1..Len(OSMemFreeList')
        PROVE  OSMemTbl'[OSMemFreeList'[i]].nblks = 0
    <3>1. OSMemFreeList'[i] = OSMemFreeList[i + 1] /\ i + 1 \in 1..Len(OSMemFreeList) /\ i + 1 # 1
      BY <1>13, <2>1
    <3>2. OSMemFreeList[i + 1] # m0 /\ OSMemFreeList[i + 1] \in MemParts
      BY <1>1, <1>2, <2>2, <3>1
    <3>3. OSMemTbl[OSMemFreeList[i + 1]].nblks = 0
      BY <3>1 DEF MemInv, MemListExact
    <3> QED
      BY <1>15, <3>1, <3>2, <3>3
  <2>4. ASSUME NEW i \in 1..Len(OSMemFreeList'), NEW j \in 1..Len(OSMemFreeList'),
               OSMemFreeList'[i] = OSMemFreeList'[j]
        PROVE  i = j
    <3>1. i + 1 = j + 1
      BY <1>13, <2>1, <2>2, <2>4
    <3> QED
      BY <3>1
  <2> QED
    BY <2>3, <2>4 DEF MemListExact
<1>17. ASSUME NEW m \in MemParts
       PROVE  UnusedPart(m)' /\ UsedPart(m)'
  <2>1. CASE m = m0
    <3> DEFINE c == [i \in 1..(NBlks + 1) |-> IF i = NBlks + 1 THEN NoBlock ELSE <<m0, i>>]
    <3>1. OSMemTbl'[m].nfree = NBlks /\ OSMemTbl'[m].free = <<m0, 1>> /\ OSMemTbl'[m].nblks = NBlks
      BY <1>15, <2>1
    <3>2. c \in [1..(NBlks + 1) -> Addresses]
      BY <1>4, <1>10 DEF Addresses, NoBlock
    <3>3. \A i \in 1..NBlks : i \in 1..(NBlks + 1) /\ i # NBlks + 1 /\ c[i] = <<m0, i>>
      BY <1>4
    <3>4. 1 \in 1..NBlks /\ c[1] = <<m0, 1>> /\ c[NBlks + 1] = NoBlock
      BY <1>4
    <3>5. \A i \in 1..NBlks : c[i + 1] = IF i < NBlks THEN <<m0, i + 1>> ELSE NoBlock
      BY <1>4
    <3> HIDE DEF c
    <3>6. taken \cap BlocksOf(m0) = {}
      BY <1>2, <1>3 DEF MemInv, UnusedPart
    <3>7. ASSUME NEW i \in 1..NBlks
          PROVE  link'[c[i]] = c[i + 1]
      <4>1. c[i] = <<m0, i>> /\ c[i] \in BlocksOf(m0) /\ c[i] \in Blocks
        BY <1>10, <3>3
      <4>2. c[i][2] = i
        BY <4>1
      <4> QED
        BY <1>6, <3>5, <4>1, <4>2
    <3>8. \A i \in 1..NBlks : c[i] \in BlocksOf(m0) \ taken
      BY <1>10, <3>3, <3>6
    <3>9. \A i, j \in 1..NBlks : c[i] = c[j] => i = j
      BY <3>3
    <3>10. ASSUME NEW b \in BlocksOf(m0)
           PROVE  \E i \in 1..NBlks : c[i] = b
      BY <1>9, <3>3
    <3>11. ASSUME NEW d, d = c
           PROVE  ChainOf(m, d)'
      <4>1. d \in [1..(OSMemTbl'[m].nfree + 1) -> Addresses]
        BY <3>11, <3>1, <3>2
      <4>2. /\ d[1] = OSMemTbl'[m].free
            /\ d[OSMemTbl'[m].nfree + 1] = NoBlock
        BY <3>11, <3>1, <3>4
      <4>3. \A i \in 1..OSMemTbl'[m].nfree : d[i] \in BlocksOf(m) \ taken' /\ link'[d[i]] = d[i + 1]
        BY <3>11, <1>7, <2>1, <3>1, <3>7, <3>8
      <4>4. \A i, j \in 1..OSMemTbl'[m].nfree : d[i] = d[j] => i = j
        BY <3>11, <3>1, <3>9
      <4>5. \A b \in BlocksOf(m) \ taken' : \E i \in 1..OSMemTbl'[m].nfree : d[i] = b
        BY <3>11, <1>7, <2>1, <3>1, <3>10
      <4> QED
        BY <4>1, <4>2, <4>3, <4>4, <4>5 DEF ChainOf
    <3> QED
      BY <1>4, <3>1, <3>11 DEF UnusedPart, UsedPart
  <2>2. CASE m # m0
    <3>1. OSMemTbl'[m] = OSMemTbl[m]
      BY <1>15, <2>2
    <3>2. UnusedPart(m)'
      BY <1>7, <3>1 DEF MemInv, UnusedPart, BlocksOf
    <3>3. ASSUME NEW c, ChainOf(m, c)
          PROVE  ChainOf(m, c)'
      <4>1. \A b \in BlocksOf(m) : b \in Blocks /\ b \notin BlocksOf(m0)
        BY <2>2 DEF BlocksOf, Blocks
      <4>2. \A b \in BlocksOf(m) : link'[b] = link[b]
        BY <1>6, <4>1
      <4> QED
        BY <1>7, <3>1, <3>3, <4>2 DEF ChainOf, BlocksOf, Addresses, Blocks, NoBlock
    <3>4. UsedPart(m)'
      BY <3>1, <3>3 DEF MemInv, UsedPart
    <3> QED
      BY <3>2, <3>4
  <2> QED
    BY <2>1, <2>2
<1> QED
  BY <1>14, <1>16, <1>17 DEF MemInv

\* What a get or a put of partition m leaves as it is.
OtherParts(m, tbl, l, tk) ==
  /\ tbl \in [MemParts -> OS_MEM]
  /\ l \in [Blocks -> Addresses \cup {Payload}]
  /\ tk \subseteq Blocks
  /\ tbl[m].nblks = OSMemTbl[m].nblks
  /\ \A p \in MemParts : p # m => tbl[p] = OSMemTbl[p]
  /\ \A b \in Blocks : b \notin BlocksOf(m) => l[b] = link[b] /\ (b \in tk <=> b \in taken)

LEMMA OtherPartsStep ==
  ASSUME MemInv, NEW m \in MemParts, OtherParts(m, OSMemTbl', link', taken'),
         OSMemTbl[m].nblks # 0, UNCHANGED OSMemFreeList,
         \E c : ChainOf(m, c)'
  PROVE  MemInv'
<1>1. MemTyped'
  BY DEF MemInv, MemTyped, OtherParts, Blocks, Addresses, NoBlock, Payload
<1>2. \A p \in MemParts : OSMemTbl'[p].nblks = OSMemTbl[p].nblks
  BY DEF OtherParts
<1>3. MemListExact'
  BY <1>2 DEF MemInv, MemTyped, MemListExact
<1>4. ASSUME NEW p \in MemParts
      PROVE  UnusedPart(p)' /\ UsedPart(p)'
  <2>1. CASE p = m
    BY <1>2, <2>1 DEF UnusedPart, UsedPart
  <2>2. CASE p # m
    <3>1. OSMemTbl'[p] = OSMemTbl[p]
      BY <2>2 DEF OtherParts
    <3>2. \A b \in BlocksOf(p) : b \in Blocks /\ b \notin BlocksOf(m)
      BY <2>2 DEF BlocksOf, Blocks
    <3>3. \A b \in BlocksOf(p) : link'[b] = link[b] /\ (b \in taken' <=> b \in taken)
      BY <3>2 DEF OtherParts
    <3>4. taken' \cap BlocksOf(p) = taken \cap BlocksOf(p) /\ BlocksOf(p) \ taken' = BlocksOf(p) \ taken
      BY <3>3
    <3>5. UnusedPart(p)'
      BY <3>1, <3>4 DEF MemInv, UnusedPart
    <3>6. ASSUME NEW c, ChainOf(p, c)
          PROVE  ChainOf(p, c)'
      BY <3>1, <3>3, <3>4, <3>6 DEF ChainOf
    <3> QED
      BY <3>1, <3>5, <3>6 DEF MemInv, UsedPart
  <2> QED
    BY <2>1, <2>2
<1> QED
  BY <1>1, <1>3, <1>4 DEF MemInv

LEMMA OSMemGetStep ==
  ASSUME MemInv, NEW m \in MemParts, OSMemGet(m)
  PROVE  MemInv'
<1> DEFINE n == OSMemTbl[m].nfree
           b0 == OSMemTbl[m].free
<1>1. OSMemTbl \in [MemParts -> OS_MEM] /\ link \in [Blocks -> Addresses \cup {Payload}]
      /\ taken \subseteq Blocks
  BY DEF MemInv, MemTyped
<1>2. /\ n > 0 /\ taken' = taken \cup {b0}
      /\ link' = [link EXCEPT ![b0] = Payload]
      /\ OSMemTbl' = [OSMemTbl EXCEPT ![m].free = link[b0], ![m].nfree = @ - 1]
  BY DEF OSMemGet
<1>3. n \in 0..NBlks /\ NBlks \in Nat
  BY <1>1, MemAssumption DEF OS_MEM
<1>4. OSMemTbl[m].nblks # 0
  BY <1>2 DEF MemInv, UnusedPart
<1>5. PICK c : ChainOf(m, c)
  BY <1>4 DEF MemInv, UsedPart
<1>6. /\ c \in [1..(n + 1) -> Addresses]
      /\ c[1] = b0 /\ c[n + 1] = NoBlock
      /\ \A i \in 1..n : c[i] \in BlocksOf(m) \ taken /\ link[c[i]] = c[i + 1]
      /\ \A i, j \in 1..n : c[i] = c[j] => i = j
      /\ \A b \in BlocksOf(m) \ taken : \E i \in 1..n : c[i] = b
  BY <1>5 DEF ChainOf
<1>7. 1 \in 1..n /\ 2 \in 1..(n + 1) /\ b0 \in BlocksOf(m) \ taken /\ link[b0] = c[2]
  <2>1. 1 \in 1..n /\ 2 \in 1..(n + 1)
    BY <1>2, <1>3
  <2>2. c[1] \in BlocksOf(m) \ taken /\ link[c[1]] = c[1 + 1]
    BY <1>6, <2>1
  <2> QED
    BY <1>6, <2>1, <2>2
<1>8. b0 \in Blocks
  BY <1>7 DEF BlocksOf, Blocks
<1>9. OSMemTbl'[m].free = c[2] /\ OSMemTbl'[m].nfree = n - 1 /\ OSMemTbl'[m].nblks = OSMemTbl[m].nblks
  BY <1>1, <1>2, <1>7 DEF OS_MEM
<1>10. OSMemTbl' \in [MemParts -> OS_MEM]
  <2>1. link[b0] \in Addresses /\ n - 1 \in 0..NBlks
    BY <1>2, <1>3, <1>6, <1>7
  <2> QED
    BY <1>1, <1>2, <2>1 DEF OS_MEM
<1> HIDE DEF n, b0
<1>11. OtherParts(m, OSMemTbl', link', taken')
  BY <1>1, <1>2, <1>7, <1>8, <1>9, <1>10 DEF OtherParts
<1>12. ASSUME NEW d, d = [i \in 1..n |-> c[i + 1]]
       PROVE  ChainOf(m, d)'
  <2>1. n - 1 + 1 = n /\ n - 1 \in Nat
    BY <1>2, <1>3
  <2>2. \A i \in 1..n : i + 1 \in 1..(n + 1)
    BY <1>3
  <2>3. d \in [1..n -> Addresses] /\ d[1] = c[2] /\ d[n] = NoBlock
    BY <1>6, <1>7, <1>12, <2>1, <2>2
  <2>4. \A i \in 1..(n - 1) : i \in 1..n /\ i + 1 \in 1..n /\ i + 1 # 1 /\ d[i] = c[i + 1] /\ d[i + 1] = c[i + 2]
    BY <1>3, <1>12
  <2>5. ASSUME NEW i \in 1..(n - 1)
        PROVE  d[i] \in BlocksOf(m) \ taken' /\ link'[d[i]] = d[i + 1]
    <3>1. c[i + 1] \in BlocksOf(m) \ taken /\ link[c[i + 1]] = c[i + 1 + 1] /\ c[i + 1] # c[1]
      BY <1>6, <1>7, <2>4
    <3>2. c[i + 1] \in Blocks /\ c[i + 1] # b0
      BY <1>6, <3>1 DEF BlocksOf, Blocks
    <3> QED
      BY <1>1, <1>2, <2>4, <3>1, <3>2
  <2>6. \A i, j \in 1..(n - 1) : d[i] = d[j] => i = j
    <3>1. ASSUME NEW i \in 1..(n - 1), NEW j \in 1..(n - 1), d[i] = d[j]
          PROVE  i = j
      <4>1. i + 1 = j + 1
        BY <1>6, <2>4, <3>1
      <4> QED
        BY <4>1
    <3> QED
      BY <3>1
  <2>7. ASSUME NEW b \in BlocksOf(m) \ taken'
        PROVE  \E i \in 1..(n - 1) : d[i] = b
    <3>1. b \in BlocksOf(m) \ taken /\ b # b0
      BY <1>2, <2>7
    <3>2. PICK i \in 1..n : c[i] = b
      BY <1>6, <3>1
    <3>3. i # 1
      BY <1>6, <3>1, <3>2
    <3>4. i - 1 \in 1..(n - 1) /\ i - 1 + 1 = i
      BY <1>3, <3>3
    <3> QED
      BY <2>4, <3>2, <3>4
  <2>8. \A i \in 1..OSMemTbl'[m].nfree : d[i] \in BlocksOf(m) \ taken' /\ link'[d[i]] = d[i + 1]
    BY <1>9, <2>5
  <2>9. d \in [1..(OSMemTbl'[m].nfree + 1) -> Addresses]
        /\ d[1] = OSMemTbl'[m].free /\ d[OSMemTbl'[m].nfree + 1] = NoBlock
    BY <1>9, <2>1, <2>3
  <2>10. \A b \in BlocksOf(m) \ taken' : \E i \in 1..OSMemTbl'[m].nfree : d[i] = b
    BY <1>9, <2>7
  <2>11. \A i, j \in 1..OSMemTbl'[m].nfree : d[i] = d[j] => i = j
    BY <1>9, <2>6
  <2> QED
    BY <2>8, <2>9, <2>10, <2>11 DEF ChainOf
<1>13. \E d : ChainOf(m, d)'
  <2>1. PICK d : d = [i \in 1..n |-> c[i + 1]]
    OBVIOUS
  <2> QED
    BY <1>12, <2>1
<1>14. UNCHANGED OSMemFreeList
  BY DEF OSMemGet
<1> QED
  BY <1>4, <1>11, <1>13, <1>14, OtherPartsStep

LEMMA OSMemPutStep ==
  ASSUME MemInv, NEW m \in MemParts, NEW b0 \in BlocksOf(m), OSMemPut(m, b0)
  PROVE  MemInv'
<1> DEFINE n == OSMemTbl[m].nfree
<1>1. OSMemTbl \in [MemParts -> OS_MEM] /\ link \in [Blocks -> Addresses \cup {Payload}]
      /\ taken \subseteq Blocks
  BY DEF MemInv, MemTyped
<1>2. /\ b0 \in taken /\ n < OSMemTbl[m].nblks /\ taken' = taken \ {b0}
      /\ link' = [link EXCEPT ![b0] = OSMemTbl[m].free]
      /\ OSMemTbl' = [OSMemTbl EXCEPT ![m].free = b0, ![m].nfree = @ + 1]
  BY DEF OSMemPut
<1>3. n \in 0..NBlks /\ NBlks \in Nat /\ OSMemTbl[m].nblks \in 0..NBlks /\ OSMemTbl[m].free \in Addresses
  BY <1>1, MemAssumption DEF OS_MEM
<1>4. OSMemTbl[m].nblks # 0
  BY <1>2, <1>3
<1>5. PICK c : ChainOf(m, c)
  BY <1>4 DEF MemInv, UsedPart
<1>6. /\ c \in [1..(n + 1) -> Addresses]
      /\ c[1] = OSMemTbl[m].free /\ c[n + 1] = NoBlock
      /\ \A i \in 1..n : c[i] \in BlocksOf(m) \ taken /\ link[c[i]] = c[i + 1]
      /\ \A i, j \in 1..n : c[i] = c[j] => i = j
      /\ \A b \in BlocksOf(m) \ taken : \E i \in 1..n : c[i] = b
  BY <1>5 DEF ChainOf
<1>7. b0 \in Blocks /\ b0 \in Addresses
  BY DEF BlocksOf, Blocks, Addresses
<1>8. OSMemTbl'[m].free = b0 /\ OSMemTbl'[m].nfree = n + 1 /\ OSMemTbl'[m].nblks = OSMemTbl[m].nblks
  BY <1>1, <1>2 DEF OS_MEM
<1>9. OSMemTbl' \in [MemParts -> OS_MEM]
  <2>1. n + 1 \in 0..NBlks
    BY <1>2, <1>3
  <2> QED
    BY <1>1, <1>2, <1>7, <2>1 DEF OS_MEM
<1> HIDE DEF n
<1>10. OtherParts(m, OSMemTbl', link', taken')
  BY <1>1, <1>2, <1>3, <1>7, <1>8, <1>9 DEF OtherParts
<1>11. ASSUME NEW d, d = [i \in 1..(n + 2) |-> IF i = 1 THEN b0 ELSE c[i - 1]]
       PROVE  ChainOf(m, d)'
  <2>1. n + 1 + 1 = n + 2 /\ n + 1 \in Nat /\ n + 2 # 1 /\ n + 2 - 1 = n + 1 /\ 1 \in 1..(n + 2)
    BY <1>3
  <2>2. d[1] = b0 /\ d[n + 2] = NoBlock
    BY <1>3, <1>6, <1>11, <2>1
  <2>3. \A i \in 1..(n + 2) : i # 1 => i - 1 \in 1..(n + 1) /\ d[i] = c[i - 1]
    BY <1>3, <1>11
  <2>4. d \in [1..(n + 2) -> Addresses]
    BY <1>6, <1>7, <1>11, <2>3
  <2>5. \A i \in 1..(n + 1) : i \in 1..(n + 2) /\ i + 1 \in 1..(n + 2) /\ i + 1 # 1 /\ i + 1 - 1 = i
                              /\ (i # 1 => i - 1 \in 1..n /\ i - 1 + 1 = i)
    BY <1>3
  <2>6. ASSUME NEW i \in 1..(n + 1)
        PROVE  d[i] \in BlocksOf(m) \ taken' /\ link'[d[i]] = d[i + 1]
    <3>1. d[i + 1] = c[i]
      BY <2>3, <2>5
    <3>2. CASE i = 1
      BY <1>1, <1>2, <1>6, <1>7, <2>2, <3>1, <3>2
    <3>3. CASE i # 1
      <4>1. d[i] = c[i - 1] /\ i - 1 \in 1..n /\ i - 1 + 1 = i
        BY <2>3, <2>5, <3>3
      <4>2. c[i - 1] \in BlocksOf(m) \ taken /\ link[c[i - 1]] = c[i - 1 + 1]
        BY <1>6, <4>1
      <4>3. link[c[i - 1]] = c[i]
        BY <4>1, <4>2
      <4>4. c[i - 1] \in Blocks /\ c[i - 1] # b0
        BY <1>2, <4>2 DEF BlocksOf, Blocks
      <4> QED
        BY <1>1, <1>2, <3>1, <4>1, <4>2, <4>3, <4>4
    <3> QED
      BY <3>2, <3>3
  <2>7. ASSUME NEW i \in 1..(n + 1), NEW j \in 1..(n + 1), d[i] = d[j]
        PROVE  i = j
    <3>1. \A k \in 1..(n + 1) : k # 1 => k - 1 \in 1..n /\ d[k] = c[k - 1] /\ d[k] # b0
      <4>1. ASSUME NEW k \in 1..(n + 1), k # 1
            PROVE  k - 1 \in 1..n /\ d[k] = c[k - 1] /\ d[k] # b0
        <5>1. k - 1 \in 1..n /\ d[k] = c[k - 1]
          BY <2>3, <2>5, <4>1
        <5> QED
          BY <1>2, <1>6, <5>1
      <4> QED
        BY <4>1
    <3>2. CASE i = 1 \/ j = 1
      BY <2>2, <2>7, <3>1, <3>2
    <3>3. CASE i # 1 /\ j # 1
      <4>1. i - 1 = j - 1
        BY <1>6, <2>7, <3>1, <3>3
      <4> QED
        BY <4>1
    <3> QED
      BY <3>2, <3>3
  <2>8. ASSUME NEW b \in BlocksOf(m) \ taken'
        PROVE  \E i \in 1..(n + 1) : d[i] = b
    <3>1. CASE b = b0
      <4>1. 1 \in 1..(n + 1)
        BY <1>3
      <4> QED
        BY <2>2, <3>1, <4>1
    <3>2. CASE b # b0
      <4>1. b \in BlocksOf(m) \ taken
        BY <1>2, <3>2
      <4>2. PICK i \in 1..n : c[i] = b
        BY <1>6, <4>1
      <4>3. i + 1 \in 1..(n + 1) /\ i + 1 \in 1..(n + 2) /\ i + 1 # 1 /\ i + 1 - 1 = i
        BY <1>3
      <4>4. d[i + 1] = b
        BY <2>3, <4>2, <4>3
      <4> QED
        BY <4>3, <4>4
    <3> QED
      BY <3>1, <3>2
  <2>9. \A i \in 1..OSMemTbl'[m].nfree : d[i] \in BlocksOf(m) \ taken' /\ link'[d[i]] = d[i + 1]
    BY <1>8, <2>6
  <2>10. d \in [1..(OSMemTbl'[m].nfree + 1) -> Addresses]
        /\ d[1] = OSMemTbl'[m].free /\ d[OSMemTbl'[m].nfree + 1] = NoBlock
    BY <1>8, <2>1, <2>2, <2>4
  <2>11. \A b \in BlocksOf(m) \ taken' : \E i \in 1..OSMemTbl'[m].nfree : d[i] = b
    BY <1>8, <2>8
  <2>12. \A i, j \in 1..OSMemTbl'[m].nfree : d[i] = d[j] => i = j
    BY <1>8, <2>7
  <2> QED
    BY <2>9, <2>10, <2>11, <2>12 DEF ChainOf
<1>12. \E d : ChainOf(m, d)'
  <2>1. PICK d : d = [i \in 1..(n + 2) |-> IF i = 1 THEN b0 ELSE c[i - 1]]
    OBVIOUS
  <2> QED
    BY <1>11, <2>1
<1>13. UNCHANGED OSMemFreeList
  BY DEF OSMemPut
<1> QED
  BY <1>4, <1>10, <1>12, <1>13, OtherPartsStep

LEMMA MemStutter ==
  ASSUME MemInv, UNCHANGED memVars
  PROVE  MemInv'
<1>1. MemTyped' /\ MemListExact'
  BY DEF MemInv, MemTyped, MemListExact, memVars
<1>2. ASSUME NEW m \in MemParts
      PROVE  UnusedPart(m)' /\ UsedPart(m)'
  BY DEF MemInv, UnusedPart, UsedPart, ChainOf, memVars
<1> QED
  BY <1>1, <1>2 DEF MemInv

LEMMA MemStep == MemInv /\ [Next]_vars => MemInv'
<1> SUFFICES ASSUME MemInv, [Next]_vars
             PROVE  MemInv'
  OBVIOUS
<1>1. CASE MemNext
  <2>1. CASE OSMemCreate
    BY <2>1, OSMemCreateStep
  <2>2. ASSUME NEW m \in MemParts, OSMemGet(m)
        PROVE  MemInv'
    BY <2>2, OSMemGetStep
  <2>3. ASSUME NEW m \in MemParts, NEW b \in BlocksOf(m), OSMemPut(m, b)
        PROVE  MemInv'
    BY <2>3, OSMemPutStep
  <2> QED
    BY <1>1, <2>1, <2>2, <2>3 DEF MemNext
<1>2. CASE UNCHANGED memVars
  BY <1>2, MemStutter
<1>3. MemNext \/ UNCHANGED memVars
  BY DEF Next, vars, DeleteTask, CreateTask, memVars
<1> QED
  BY <1>1, <1>2, <1>3

LEMMA MemSafe == MemInv => MemTypeOK /\ BlocksConserved
<1> SUFFICES ASSUME MemInv
             PROVE  MemTypeOK /\ BlocksConserved
  OBVIOUS
<1>1. MemTypeOK
  BY DEF MemInv, MemTyped, MemTypeOK
<1>2. ASSUME NEW m \in MemParts, OSMemTbl[m].nblks > 0
      PROVE  /\ Chain(m) = BlocksOf(m) \ taken
             /\ OSMemTbl[m].nfree = Cardinality(BlocksOf(m) \ taken)
  <2> DEFINE n == OSMemTbl[m].nfree
             b0 == OSMemTbl[m].free
  <2>1. n \in 0..NBlks /\ NBlks \in Nat /\ OSMemTbl[m].nblks \in 0..NBlks
    BY MemAssumption DEF MemInv, MemTyped, OS_MEM
  <2>2. PICK c : ChainOf(m, c)
    BY <1>2, <2>1 DEF MemInv, UsedPart
  <2>3. /\ c \in [1..(n + 1) -> Addresses]
        /\ c[1] = b0 /\ c[n + 1] = NoBlock
        /\ \A i \in 1..n : c[i] \in BlocksOf(m) \ taken /\ link[c[i]] = c[i + 1]
        /\ \A i, j \in 1..n : c[i] = c[j] => i = j
        /\ \A b \in BlocksOf(m) \ taken : \E i \in 1..n : c[i] = b
    BY <2>2 DEF ChainOf
  <2> DEFINE chain == CHOOSE f : f = [i \in 1..NBlks |-> IF i = 1 THEN b0 ELSE link[f[i - 1]]]
  <2>4. chain = [i \in 1..NBlks |-> IF i = 1 THEN b0 ELSE link[chain[i - 1]]]
    <3>1. \E f : IsPath(f, b0, link, NBlks)
      BY <2>1, PathExists
    <3>2. PICK f : f = [i \in 1..NBlks |-> IF i = 1 THEN b0 ELSE link[f[i - 1]]]
      BY <3>1 DEF IsPath
    <3> QED
      BY <3>2
  <2>5. Chain(m) = {chain[i] : i \in 1..n}
    BY DEF Chain
  <2> HIDE DEF chain
  <2>6. \A i \in 1..n : chain[i] = c[i]
    <3> DEFINE Bad == {i \in 1..n : chain[i] # c[i]}
    <3> SUFFICES ASSUME Bad # {}
                 PROVE  FALSE
      OBVIOUS
    <3>1. Bad \in SUBSET Nat
      BY <2>1
    <3>2. PICK i \in Bad : \A j \in Bad : i <= j
      BY <3>1, LeastNatural
    <3>3. i \in 1..n /\ i \in 1..NBlks /\ chain[i] # c[i]
      BY <2>1
    <3>4. i # 1
      BY <2>1, <2>3, <2>4, <3>3
    <3>5. i - 1 \in 1..n /\ i - 1 + 1 = i /\ ~(i <= i - 1)
      BY <2>1, <3>3, <3>4
    <3>6. chain[i - 1] = c[i - 1]
      BY <3>2, <3>5
    <3>7. link[c[i - 1]] = c[i]
      BY <2>3, <3>5
    <3> QED
      BY <2>4, <3>3, <3>4, <3>6, <3>7
  <2>7. Chain(m) = BlocksOf(m) \ taken
    BY <2>3, <2>5, <2>6
  <2>8. n = Cardinality(BlocksOf(m) \ taken)
    <3> DEFINE g == [i \in 1..n |-> c[i]]
               Free == BlocksOf(m) \ taken
    <3>1. g \in Bijection(1..n, Free)
      <4>1. g \in [1..n -> Free]
        BY <2>3
      <4>2. \A i, j \in 1..n : g[i] = g[j] => i = j
        BY <2>3
      <4>3. \A b \in Free : \E i \in 1..n : g[i] = b
        BY <2>3
      <4> QED
        BY <4>1, <4>2, <4>3 DEF Bijection, Injection, Surjection, IsInjective
    <3>2. ExistsBijection(1..n, Free)
      BY <3>1 DEF ExistsBijection
    <3>3. IsFiniteSet(1..n) /\ Cardinality(1..n) = n
      <4>1. 1 \in Int /\ n \in Int
        BY <2>1
      <4>2. IsFiniteSet(1..n) /\ Cardinality(1..n) = IF 1 > n THEN 0 ELSE n - 1 + 1
        BY <4>1, FS_Interval
      <4> QED
        BY <2>1, <4>2
    <3> HIDE DEF n, Free, g
    <3>4. Cardinality(Free) = Cardinality(1..n)
      BY <3>2, <3>3, FS_Bijection
    <3> QED
      BY <3>3, <3>4 DEF Free
  <2> QED
    BY <2>7, <2>8
<1>3. BlocksConserved
  BY <1>2 DEF BlocksConserved
<1> QED
  BY <1>1, <1>3

\* No block of a memory partition is lost and none handed out twice, whatever
\* the tasks and interrupt handlers get and put: the links that OSMemGet and
\* OSMemPut keep in the free blocks themselves lead to exactly those.
THEOREM NoBlockIsLost == Spec => []BlocksConserved
<1>1. Spec => []MemInv
  BY MemInitial, MemStep, PTL DEF Spec
<1> QED
  BY <1>1, MemSafe, PTL

-----------------------------------------------------------------------------
(* The pools of event control blocks and queue control blocks *)

UnusedEvents == {e \in Events : ecb[e].type = "UNUSED"}
QueueEvents == {e \in Events : ecb[e].type = "Q"}
FreeQueues == {q \in Queues : ~ \E e \in QueueEvents : ecb[e].ptr = q}

EcbShape(f) ==
  DOMAIN f = Events /\ \A e \in Events : DOMAIN f[e] = {"type", "cnt", "ptr"}

PoolsInv ==
  /\ EcbShape(ecb)
  /\ OSEventFreeList \in Seq(Events) /\ Lists(OSEventFreeList, UnusedEvents)
  /\ OSQFreeList \in Seq(Queues) /\ Lists(OSQFreeList, FreeQueues)
  /\ \A e \in QueueEvents : ecb[e].ptr \in Queues
  /\ \A e, f \in QueueEvents : ecb[e].ptr = ecb[f].ptr => e = f

LEMMA PoolsInitial == Init => PoolsInv
<1> SUFFICES ASSUME Init
             PROVE  PoolsInv
  OBVIOUS
<1>1. EventsInit
  BY DEF Init
<1>2. ecb = [e \in Events |-> UnusedECB]
  BY <1>1 DEF EventsInit
<1>3. \A e \in Events : ecb[e].type = "UNUSED" /\ DOMAIN ecb[e] = {"type", "cnt", "ptr"}
  BY <1>2 DEF UnusedECB
<1>4. UnusedEvents = Events /\ QueueEvents = {}
  BY <1>3 DEF UnusedEvents, QueueEvents
<1>5. FreeQueues = Queues
  BY <1>4 DEF FreeQueues
<1>6. OSEventFreeList \in Seq(Events) /\ Lists(OSEventFreeList, Events)
  <2>1. IsFiniteSet(Events)
    BY EventsAssumption
  <2>2. OSEventFreeList = CHOOSE s \in [1..Cardinality(Events) -> Events] :
                            \A e \in Events : \E i \in DOMAIN s : s[i] = e
    BY <1>1 DEF EventsInit
  <2> QED
    BY <2>1, <2>2, ChosenLists
<1>7. OSQFreeList \in Seq(Queues) /\ Lists(OSQFreeList, Queues)
  <2>1. OSQFreeList = [q \in 1..MaxQs |-> q] /\ MaxQs \in Nat
    BY <1>1, EventsAssumption DEF EventsInit, Queues
  <2>2. OSQFreeList \in Seq(Queues) /\ Len(OSQFreeList) = MaxQs
    BY <2>1 DEF Queues
  <2> QED
    BY <2>1, <2>2 DEF Lists, Queues
<1> QED
  BY <1>2, <1>3, <1>4, <1>5, <1>6, <1>7 DEF PoolsInv, EcbShape

-----------------------------------------------------------------------------
(* What a step does to the pools *)

PoolsKept ==
  /\ EcbShape(ecb')
  /\ \A e \in Events : ecb'[e].type = ecb[e].type /\ (ecb[e].type = "Q" => ecb'[e].ptr = ecb[e].ptr)
  /\ UNCHANGED <<OSEventFreeList, OSQFreeList>>

EventCreated ==
  LET e == Head(OSEventFreeList)
  IN  /\ EcbShape(ecb')
      /\ OSEventFreeList # <<>> /\ OSEventFreeList' = Tail(OSEventFreeList)
      /\ \A f \in Events : f # e => ecb'[f] = ecb[f]
      /\ ecb'[e].type # "UNUSED"
      /\ \/ ecb'[e].type # "Q" /\ UNCHANGED OSQFreeList
         \/ /\ ecb'[e].type = "Q" /\ OSQFreeList # <<>>
            /\ ecb'[e].ptr = Head(OSQFreeList)
            /\ OSQFreeList' = Tail(OSQFreeList)

EventDeleted(e) ==
  /\ EcbShape(ecb')
  /\ ecb[e].type # "UNUSED" /\ ecb'[e].type = "UNUSED"
  /\ \A f \in Events : f # e => ecb'[f] = ecb[f]
  /\ OSEventFreeList' = <<e>> \o OSEventFreeList
  /\ OSQFreeList' = IF ecb[e].type = "Q" THEN <<ecb[e].ptr>> \o OSQFreeList ELSE OSQFreeList

LEMMA PoolsKeptStep ==
  ASSUME PoolsInv, PoolsKept
  PROVE  PoolsInv'
<1>1. UnusedEvents' = UnusedEvents /\ QueueEvents' = QueueEvents
  BY DEF PoolsKept, UnusedEvents, QueueEvents
<1>2. \A e \in QueueEvents : ecb'[e].ptr = ecb[e].ptr
  BY DEF PoolsKept, QueueEvents
<1>3. FreeQueues' = FreeQueues
  BY <1>1, <1>2 DEF FreeQueues, Queues
<1>4. OSEventFreeList' = OSEventFreeList /\ OSQFreeList' = OSQFreeList /\ EcbShape(ecb')
  BY DEF PoolsKept
<1>5. /\ OSEventFreeList' \in Seq(Events) /\ Lists(OSEventFreeList', UnusedEvents')
      /\ OSQFreeList' \in Seq(Queues) /\ Lists(OSQFreeList', FreeQueues')
  BY <1>1, <1>3, <1>4 DEF PoolsInv
<1>6. /\ \A e \in QueueEvents' : ecb'[e].ptr \in Queues
      /\ \A e, f \in QueueEvents' : ecb'[e].ptr = ecb'[f].ptr => e = f
  BY <1>1, <1>2 DEF PoolsInv
<1> QED
  BY <1>4, <1>5, <1>6 DEF PoolsInv, EcbShape, Lists, Queues

LEMMA EventCreatedStep ==
  ASSUME PoolsInv, EventCreated
  PROVE  PoolsInv'
<1> DEFINE e == Head(OSEventFreeList)
           el == Tail(OSEventFreeList)
           q == Head(OSQFreeList)
           ql == Tail(OSQFreeList)
<1>1. e \in UnusedEvents /\ el \in Seq(Events) /\ Lists(el, UnusedEvents \ {e})
  <2>1. OSEventFreeList \in Seq(Events) /\ Lists(OSEventFreeList, UnusedEvents) /\ OSEventFreeList # <<>>
    BY DEF PoolsInv, EventCreated
  <2> QED
    BY <2>1, TailLists
<1>2. /\ EcbShape(ecb') /\ OSEventFreeList' = el
      /\ \A f \in Events : f # e => ecb'[f] = ecb[f]
      /\ ecb'[e].type # "UNUSED"
      /\ \/ ecb'[e].type # "Q" /\ UNCHANGED OSQFreeList
         \/ /\ ecb'[e].type = "Q" /\ OSQFreeList # <<>>
            /\ ecb'[e].ptr = q /\ OSQFreeList' = ql
  BY DEF EventCreated
<1> HIDE DEF e, el, ql
<1>3. UnusedEvents' = UnusedEvents \ {e}
  BY <1>1, <1>2 DEF UnusedEvents
<1>4. e \in Events /\ e \notin QueueEvents
  BY <1>1 DEF UnusedEvents, QueueEvents
<1>5. CASE ecb'[e].type # "Q"
  <2>1. QueueEvents' = QueueEvents /\ \A f \in QueueEvents : ecb'[f] = ecb[f]
    BY <1>2, <1>4, <1>5 DEF QueueEvents
  <2>2. FreeQueues' = FreeQueues
    BY <2>1 DEF FreeQueues, Queues
  <2>3. OSQFreeList' = OSQFreeList
    BY <1>2, <1>5
  <2>4. OSQFreeList' \in Seq(Queues) /\ Lists(OSQFreeList', FreeQueues')
    BY <2>2, <2>3 DEF PoolsInv
  <2>5. OSEventFreeList' \in Seq(Events) /\ Lists(OSEventFreeList', UnusedEvents')
    BY <1>1, <1>2, <1>3
  <2>6. /\ \A f \in QueueEvents' : ecb'[f].ptr \in Queues
        /\ \A f, g \in QueueEvents' : ecb'[f].ptr = ecb'[g].ptr => f = g
    BY <2>1 DEF PoolsInv
  <2> QED
    BY <1>2, <2>4, <2>5, <2>6 DEF PoolsInv, EcbShape, Lists, Queues
<1>6. CASE ecb'[e].type = "Q"
  <2>1. q \in FreeQueues /\ q \in Queues /\ ql \in Seq(Queues) /\ Lists(ql, FreeQueues \ {q})
    <3>1. OSQFreeList \in Seq(Queues) /\ Lists(OSQFreeList, FreeQueues) /\ OSQFreeList # <<>>
      BY <1>2, <1>6 DEF PoolsInv
    <3> QED
      BY <3>1, TailLists DEF ql
  <2> HIDE DEF q
  <2>2. /\ QueueEvents' = QueueEvents \cup {e}
        /\ \A f \in QueueEvents : ecb'[f] = ecb[f]
        /\ ecb'[e].ptr = q /\ OSQFreeList' = ql
    BY <1>2, <1>4, <1>6 DEF QueueEvents
  <2>3. FreeQueues' = FreeQueues \ {q}
    BY <2>1, <2>2 DEF FreeQueues, Queues
  <2>4. OSQFreeList' \in Seq(Queues) /\ Lists(OSQFreeList', FreeQueues')
    BY <2>1, <2>2, <2>3
  <2>5. OSEventFreeList' \in Seq(Events) /\ Lists(OSEventFreeList', UnusedEvents')
    BY <1>1, <1>2, <1>3
  <2>6. \A f \in QueueEvents : ecb[f].ptr # q
    BY <2>1 DEF FreeQueues
  <2>7. \A f \in QueueEvents' : ecb'[f].ptr \in Queues
    BY <2>1, <2>2 DEF PoolsInv
  <2>8. \A f, g \in QueueEvents' : ecb'[f].ptr = ecb'[g].ptr => f = g
    BY <2>2, <2>6 DEF PoolsInv
  <2> QED
    BY <1>2, <2>4, <2>5, <2>7, <2>8 DEF PoolsInv, EcbShape, Lists, Queues
<1> QED
  BY <1>5, <1>6

LEMMA EventDeletedStep ==
  ASSUME PoolsInv, NEW e \in Events, EventDeleted(e)
  PROVE  PoolsInv'
<1>1. /\ EcbShape(ecb') /\ OSEventFreeList' = <<e>> \o OSEventFreeList
      /\ ecb[e].type # "UNUSED" /\ ecb'[e].type = "UNUSED"
      /\ \A f \in Events : f # e => ecb'[f] = ecb[f]
      /\ OSQFreeList' = IF ecb[e].type = "Q" THEN <<ecb[e].ptr>> \o OSQFreeList ELSE OSQFreeList
  BY DEF EventDeleted
<1>2. UnusedEvents' = UnusedEvents \cup {e} /\ e \notin UnusedEvents
  BY <1>1 DEF UnusedEvents
<1>3. OSEventFreeList' \in Seq(Events) /\ Lists(OSEventFreeList', UnusedEvents')
  <2>1. OSEventFreeList \in Seq(Events) /\ Lists(OSEventFreeList, UnusedEvents)
    BY DEF PoolsInv
  <2> QED
    BY <1>1, <1>2, <2>1, ConsLists
<1>4. QueueEvents' = QueueEvents \ {e} /\ \A f \in QueueEvents' : ecb'[f] = ecb[f]
  BY <1>1 DEF QueueEvents
<1>5. /\ \A f \in QueueEvents' : ecb'[f].ptr \in Queues
      /\ \A f, g \in QueueEvents' : ecb'[f].ptr = ecb'[g].ptr => f = g
  BY <1>4 DEF PoolsInv
<1>6. OSQFreeList' \in Seq(Queues) /\ Lists(OSQFreeList', FreeQueues')
  <2>1. OSQFreeList \in Seq(Queues) /\ Lists(OSQFreeList, FreeQueues)
    BY DEF PoolsInv
  <2>2. CASE ecb[e].type # "Q"
    <3>1. e \notin QueueEvents
      BY <2>2 DEF QueueEvents
    <3>2. FreeQueues' = FreeQueues
      BY <1>4, <3>1 DEF FreeQueues, Queues
    <3> QED
      BY <1>1, <2>1, <2>2, <3>2
  <2>3. CASE ecb[e].type = "Q"
    <3> DEFINE q == ecb[e].ptr
    <3>1. e \in QueueEvents /\ q \in Queues
      BY <2>3 DEF QueueEvents, PoolsInv
    <3>2. q \notin FreeQueues
      BY <3>1 DEF FreeQueues
    <3>3. \A f \in QueueEvents' : ecb'[f].ptr # q
      BY <1>4, <3>1 DEF PoolsInv
    <3> HIDE DEF q
    <3>4. FreeQueues' = FreeQueues \cup {q}
      <4>1. ASSUME NEW p \in Queues
            PROVE  p \in FreeQueues' <=> p \in FreeQueues \/ p = q
        <5>1. CASE p = q
          BY <3>3, <5>1 DEF FreeQueues
        <5>2. CASE p # q
          BY <1>4, <3>1, <5>2 DEF FreeQueues, q
        <5> QED
          BY <5>1, <5>2
      <4> QED
        BY <3>1, <4>1 DEF FreeQueues, Queues
    <3>5. OSQFreeList' = <<q>> \o OSQFreeList
      BY <1>1, <2>3 DEF q
    <3> QED
      BY <2>1, <3>1, <3>2, <3>4, <3>5, ConsLists
  <2> QED
    BY <2>2, <2>3
<1> QED
  BY <1>1, <1>3, <1>5, <1>6 DEF PoolsInv, EcbShape, Lists, Queues

-----------------------------------------------------------------------------
(* Every operation is one of these three *)

LEMMA UnchangedKeepsPools ==
  ASSUME PoolsInv, UNCHANGED <<ecb, OSEventFreeList, OSQFreeList>>
  PROVE  PoolsKept
BY DEF PoolsInv, PoolsKept, EcbShape

LEMMA TakeKeepsPools ==
  ASSUME PoolsInv, NEW S, Take(S), \A e \in S : ecb[e].type # "UNUSED"
  PROVE  PoolsKept
<1>1. DOMAIN ecb = Events /\ \A e \in Events : DOMAIN ecb[e] = {"type", "cnt", "ptr"}
  BY DEF PoolsInv, EcbShape
<1>2. ecb' = [e \in Events |->
       IF e \notin S THEN ecb[e]
       ELSE IF ecb[e].type = "SEM" THEN [ecb[e] EXCEPT !.cnt = @ - 1]
       ELSE IF ecb[e].type = "MBOX" THEN [ecb[e] EXCEPT !.ptr = NULL] ELSE ecb[e]]
  BY DEF Take
<1>3. EcbShape(ecb')
  BY <1>1, <1>2 DEF EcbShape
<1>4. \A e \in Events : ecb'[e].type = ecb[e].type
  BY <1>1, <1>2
<1>5. \A e \in Events : ecb[e].type = "Q" => ecb'[e].ptr = ecb[e].ptr
  BY <1>1, <1>2
<1>6. UNCHANGED <<OSEventFreeList, OSQFreeList>>
  BY DEF Take
<1> QED
  BY <1>3, <1>4, <1>5, <1>6 DEF PoolsKept

\* A new count or, but in a queue, a new pointer.
LEMMA UpdateKeepsPools ==
  ASSUME PoolsInv, NEW e \in Events, NEW cnt, NEW ptr,
         ecb[e].type = "Q" => ptr = ecb[e].ptr,
         \/ ecb' = [ecb EXCEPT ![e].cnt = cnt]
         \/ ecb' = [ecb EXCEPT ![e].ptr = ptr]
         \/ ecb' = [ecb EXCEPT ![e].cnt = cnt, ![e].ptr = ptr],
         UNCHANGED <<OSEventFreeList, OSQFreeList>>
  PROVE  PoolsKept
<1>1. DOMAIN ecb = Events /\ \A f \in Events : DOMAIN ecb[f] = {"type", "cnt", "ptr"}
  BY DEF PoolsInv, EcbShape
<1>2. /\ EcbShape(ecb')
      /\ \A f \in Events : ecb'[f].type = ecb[f].type
      /\ \A f \in Events : ecb[f].type = "Q" => ecb'[f].ptr = ecb[f].ptr
  <2>1. CASE ecb' = [ecb EXCEPT ![e].cnt = cnt]
    BY <1>1, <2>1 DEF EcbShape
  <2>2. CASE ecb' = [ecb EXCEPT ![e].ptr = ptr]
    BY <1>1, <2>2 DEF EcbShape
  <2>3. CASE ecb' = [ecb EXCEPT ![e].cnt = cnt, ![e].ptr = ptr]
    BY <1>1, <2>3 DEF EcbShape
  <2> QED
    BY <2>1, <2>2, <2>3
<1> QED
  BY <1>2 DEF PoolsKept

LEMMA CreationOfEvent ==
  ASSUME PoolsInv, NEW type, NEW cnt, NEW ptr, type # "UNUSED",
         OSEventFreeList # <<>>, OSEventFreeList' = Tail(OSEventFreeList),
         ecb' = [ecb EXCEPT ![Head(OSEventFreeList)] = [type |-> type, cnt |-> cnt, ptr |-> ptr]],
         \/ type # "Q" /\ UNCHANGED OSQFreeList
         \/ type = "Q" /\ OSQFreeList # <<>> /\ ptr = Head(OSQFreeList) /\ OSQFreeList' = Tail(OSQFreeList)
  PROVE  EventCreated
<1>1. DOMAIN ecb = Events /\ \A f \in Events : DOMAIN ecb[f] = {"type", "cnt", "ptr"}
  BY DEF PoolsInv, EcbShape
<1>2. Head(OSEventFreeList) \in Events
  BY DEF PoolsInv
<1>3. PICK e : e = Head(OSEventFreeList)
  OBVIOUS
<1>4. ecb' = [ecb EXCEPT ![e] = [type |-> type, cnt |-> cnt, ptr |-> ptr]] /\ e \in Events
  BY <1>2, <1>3
<1>5. EcbShape(ecb')
  BY <1>1, <1>4 DEF EcbShape
<1>6. ecb'[e].type = type /\ ecb'[e].ptr = ptr /\ \A f \in Events : f # e => ecb'[f] = ecb[f]
  BY <1>1, <1>4
<1> QED
  BY <1>3, <1>5, <1>6 DEF EventCreated

LEMMA DeletionOfEvent ==
  ASSUME PoolsInv, NEW e \in Events, ecb[e].type # "UNUSED",
         OSEventFreeList' = <<e>> \o OSEventFreeList, ecb' = [ecb EXCEPT ![e] = UnusedECB],
         OSQFreeList' = IF ecb[e].type = "Q" THEN <<ecb[e].ptr>> \o OSQFreeList ELSE OSQFreeList
  PROVE  EventDeleted(e)
<1>1. DOMAIN ecb = Events /\ \A f \in Events : DOMAIN ecb[f] = {"type", "cnt", "ptr"}
  BY DEF PoolsInv, EcbShape
<1>2. EcbShape(ecb')
  BY <1>1 DEF EcbShape, UnusedECB
<1>3. ecb'[e].type = "UNUSED" /\ \A f \in Events : f # e => ecb'[f] = ecb[f]
  BY <1>1 DEF UnusedECB
<1> QED
  BY <1>2, <1>3 DEF EventDeleted

LEMMA PendOnKeepsPools ==
  ASSUME PoolsInv, NEW svc, NEW e \in Events, NEW timeout, ecb[e].type # "UNUSED",
         PendOn(svc, e, timeout)
  PROVE  PoolsKept
<1>1. CASE TakeNow({e})
  BY <1>1, TakeKeepsPools DEF TakeNow
<1>2. CASE UNCHANGED eventVars
  BY <1>2, UnchangedKeepsPools DEF eventVars
<1> QED
  BY <1>1, <1>2 DEF PendOn

LEMMA AcceptKeepsPools ==
  ASSUME PoolsInv, NEW name, NEW e \in Events, NEW type, type # "UNUSED", Accept(name, e, type)
  PROVE  PoolsKept
<1>1. ecb[e].type # "UNUSED" /\ Take({e})
  BY DEF Accept, TakeNow
<1> QED
  BY <1>1, TakeKeepsPools

LEMMA SemPools ==
  ASSUME PoolsInv, NEW e \in Events, SemCall(e)
  PROVE  PoolsKept \/ EventDeleted(e)
<1>1. ASSUME NEW timeout \in 0..MaxDly, OSSemPend(e, timeout)
      PROVE  PoolsKept
  BY <1>1, PendOnKeepsPools DEF OSSemPend, CanPend
<1>2. CASE OSSemAccept(e)
  BY <1>2, AcceptKeepsPools DEF OSSemAccept
<1>3. CASE OSSemPost(e)
  <2>1. CASE PostToWaiters(e, NULL, FALSE, TRUE)
    BY <2>1, UnchangedKeepsPools DEF PostToWaiters, eventVars
  <2>2. CASE ecb' = [ecb EXCEPT ![e].cnt = @ + 1] /\ UNCHANGED <<OSEventFreeList, OSQTbl, OSQFreeList>>
    BY <2>2, UpdateKeepsPools
  <2> QED
    BY <1>3, <2>1, <2>2 DEF OSSemPost
<1>4. ASSUME NEW cnt \in 0..SemMax, OSSemSet(e, cnt)
      PROVE  PoolsKept
  BY <1>4, UpdateKeepsPools DEF OSSemSet
<1>5. ASSUME NEW all \in BOOLEAN, OSSemPendAbort(e, all)
      PROVE  PoolsKept
  BY <1>5, UnchangedKeepsPools DEF OSSemPendAbort, AbortWaiters, eventVars
<1>6. ASSUME NEW all \in BOOLEAN, OSSemDel(e, all)
      PROVE  EventDeleted(e)
  BY <1>6, DeletionOfEvent DEF OSSemDel, DeleteEvent
<1> QED
  BY <1>1, <1>2, <1>3, <1>4, <1>5, <1>6 DEF SemCall

LEMMA MboxPostPools ==
  ASSUME PoolsInv, NEW e \in Events, NEW msg, NEW all, NEW sched, OSMboxPostOpt(e, msg, all, sched)
  PROVE  PoolsKept
<1>1. CASE PostToWaiters(e, msg, all, sched)
  BY <1>1, UnchangedKeepsPools DEF PostToWaiters, eventVars
<1>2. CASE ecb' = [ecb EXCEPT ![e].ptr = msg] /\ UNCHANGED <<OSEventFreeList, OSQTbl, OSQFreeList>>
  <2>1. ecb[e].type = "MBOX"
    BY DEF OSMboxPostOpt
  <2> QED
    BY <1>2, <2>1, UpdateKeepsPools
<1> QED
  BY <1>1, <1>2 DEF OSMboxPostOpt

LEMMA MboxPools ==
  ASSUME PoolsInv, NEW e \in Events, MboxCall(e)
  PROVE  PoolsKept \/ EventDeleted(e)
<1>1. ASSUME NEW timeout \in 0..MaxDly, OSMboxPend(e, timeout)
      PROVE  PoolsKept
  BY <1>1, PendOnKeepsPools DEF OSMboxPend, CanPend
<1>2. CASE OSMboxAccept(e)
  BY <1>2, AcceptKeepsPools DEF OSMboxAccept
<1>3. ASSUME NEW msg \in Msgs, OSMboxPost(e, msg)
      PROVE  PoolsKept
  BY <1>3, MboxPostPools DEF OSMboxPost
<1>4. ASSUME NEW msg \in Msgs, NEW all \in BOOLEAN, NEW sched \in BOOLEAN, OSMboxPostOpt(e, msg, all, sched)
      PROVE  PoolsKept
  BY <1>4, MboxPostPools
<1>5. ASSUME NEW all \in BOOLEAN, OSMboxPendAbort(e, all)
      PROVE  PoolsKept
  BY <1>5, UnchangedKeepsPools DEF OSMboxPendAbort, AbortWaiters, eventVars
<1>6. ASSUME NEW all \in BOOLEAN, OSMboxDel(e, all)
      PROVE  EventDeleted(e)
  BY <1>6, DeletionOfEvent DEF OSMboxDel, DeleteEvent
<1> QED
  BY <1>1, <1>2, <1>3, <1>4, <1>5, <1>6 DEF MboxCall

LEMMA QPostPools ==
  ASSUME PoolsInv, NEW e \in Events, NEW msg, NEW front, NEW all, NEW sched,
         OSQPostOpt(e, msg, front, all, sched)
  PROVE  PoolsKept
<1>1. UNCHANGED <<ecb, OSEventFreeList, OSQFreeList>>
  BY DEF OSQPostOpt, PostToWaiters, eventVars
<1> QED
  BY <1>1, UnchangedKeepsPools

LEMMA QPools ==
  ASSUME PoolsInv, NEW e \in Events, QCall(e)
  PROVE  PoolsKept \/ EventDeleted(e)
<1>1. ASSUME NEW timeout \in 0..MaxDly, OSQPend(e, timeout)
      PROVE  PoolsKept
  BY <1>1, PendOnKeepsPools DEF OSQPend, CanPend
<1>2. CASE OSQAccept(e)
  BY <1>2, AcceptKeepsPools DEF OSQAccept
<1>3. CASE OSQFlush(e)
  BY <1>3, UnchangedKeepsPools DEF OSQFlush
<1>4. ASSUME NEW msg \in Msgs \cup {NULL}, OSQPost(e, msg) \/ OSQPostFront(e, msg)
      PROVE  PoolsKept
  BY <1>4, QPostPools DEF OSQPost, OSQPostFront
<1>5. ASSUME NEW msg \in Msgs \cup {NULL}, NEW front \in BOOLEAN, NEW all \in BOOLEAN,
             NEW sched \in BOOLEAN,
             OSQPostOpt(e, msg, front, all, sched)
      PROVE  PoolsKept
  BY <1>5, QPostPools
<1>6. ASSUME NEW all \in BOOLEAN, OSQPendAbort(e, all)
      PROVE  PoolsKept
  BY <1>6, UnchangedKeepsPools DEF OSQPendAbort, AbortWaiters, eventVars
<1>7. ASSUME NEW all \in BOOLEAN, OSQDel(e, all)
      PROVE  EventDeleted(e)
  BY <1>7, DeletionOfEvent DEF OSQDel, DeleteEvent
<1> QED
  BY <1>1, <1>2, <1>3, <1>4, <1>5, <1>6, <1>7 DEF QCall

LEMMA EventsPools ==
  ASSUME PoolsInv, EventsNext
  PROVE  PoolsKept \/ EventCreated \/ \E e \in Events : EventDeleted(e)
<1>1. ASSUME NEW cnt \in 0..SemMax, OSSemCreate(cnt)
      PROVE  EventCreated
  BY <1>1, CreationOfEvent DEF OSSemCreate, CreateEvent
<1>2. ASSUME NEW msg \in Msgs \cup {NULL}, OSMboxCreate(msg)
      PROVE  EventCreated
  BY <1>2, CreationOfEvent DEF OSMboxCreate, CreateEvent
<1>3. CASE OSQCreate
  BY <1>3, CreationOfEvent DEF OSQCreate, CreateEvent
<1>4. ASSUME NEW e \in Events, SemCall(e) \/ MboxCall(e) \/ QCall(e)
      PROVE  PoolsKept \/ EventDeleted(e)
  BY <1>4, SemPools, MboxPools, QPools
<1>5. ASSUME NEW S \in (SUBSET Events) \ {{}}, NEW timeout \in 0..MaxDly, OSEventPendMulti(S, timeout)
      PROVE  PoolsKept
  <2> DEFINE ready == {e \in S : Available(e)}
  <2>1. \A e \in ready : ecb[e].type # "UNUSED"
    BY <1>5 DEF OSEventPendMulti
  <2>2. TakeNow(ready) \/ UNCHANGED eventVars
    BY <1>5 DEF OSEventPendMulti
  <2> HIDE DEF ready
  <2>3. CASE TakeNow(ready)
    BY <2>1, <2>3, TakeKeepsPools DEF TakeNow
  <2>4. CASE UNCHANGED eventVars
    BY <2>4, UnchangedKeepsPools DEF eventVars
  <2> QED
    BY <2>2, <2>3, <2>4
<1> QED
  BY <1>1, <1>2, <1>3, <1>4, <1>5 DEF EventsNext

LEMMA TakeMutexPools ==
  ASSUME PoolsInv, NEW e \in Events, IsMutex(e), TakeMutex(e)
  PROVE  PoolsKept
BY UpdateKeepsPools DEF TakeMutex, GiveMutex, IsMutex

LEMMA MutexPools ==
  ASSUME PoolsInv, MutexNext
  PROVE  PoolsKept \/ EventCreated \/ \E e \in Events : EventDeleted(e)
<1>1. ASSUME NEW pcp \in PCPs, OSMutexCreate(pcp)
      PROVE  EventCreated
  BY <1>1, CreationOfEvent DEF OSMutexCreate
<1>2. ASSUME NEW e \in Events, OSMutexAccept(e)
      PROVE  PoolsKept
  BY <1>2, TakeMutexPools DEF OSMutexAccept
<1>3. ASSUME NEW e \in Events, OSMutexPost(e)
      PROVE  PoolsKept
  <2>1. IsMutex(e) /\ UNCHANGED <<OSEventFreeList, OSQTbl, OSQFreeList>>
    BY <1>3 DEF OSMutexPost
  <2>2. CASE HandOver(e, HighestWaiter(e))
    BY <2>1, <2>2, UpdateKeepsPools DEF HandOver, GiveMutex, IsMutex
  <2>3. CASE ecb' = [ecb EXCEPT ![e].cnt = MutexCnt(PCP(e), OS_MUTEX_AVAILABLE), ![e].ptr = NULL]
    BY <2>1, <2>3, UpdateKeepsPools DEF IsMutex
  <2> QED
    BY <1>3, <2>2, <2>3 DEF OSMutexPost
<1>4. ASSUME NEW e \in Events, NEW timeout \in 0..MaxDly, OSMutexPend(e, timeout)
      PROVE  PoolsKept
  <2>1. CASE TakeMutex(e)
    BY <1>4, <2>1, TakeMutexPools DEF OSMutexPend
  <2>2. CASE UNCHANGED eventVars
    BY <2>2, UnchangedKeepsPools DEF eventVars
  <2> QED
    BY <1>4, <2>1, <2>2 DEF OSMutexPend
<1>5. ASSUME NEW e \in Events, NEW always \in BOOLEAN, OSMutexDel(e, always)
      PROVE  EventDeleted(e)
  <2>1. /\ ecb[e].type = "MUTEX" /\ ecb' = [ecb EXCEPT ![e] = UnusedECB]
        /\ OSEventFreeList' = <<e>> \o OSEventFreeList /\ OSQFreeList' = OSQFreeList
    BY <1>5 DEF OSMutexDel, IsMutex
  <2> QED
    BY <2>1, DeletionOfEvent
<1> QED
  BY <1>1, <1>2, <1>3, <1>4, <1>5 DEF MutexNext

LEMMA PoolsStep == PoolsInv /\ [Next]_vars => PoolsInv'
<1> SUFFICES ASSUME PoolsInv, [Next]_vars
             PROVE  PoolsInv'
  OBVIOUS
<1>1. CASE EventsNext
  BY <1>1, EventsPools, PoolsKeptStep, EventCreatedStep, EventDeletedStep
<1>2. CASE MutexNext
  BY <1>2, MutexPools, PoolsKeptStep, EventCreatedStep, EventDeletedStep
<1>3. CASE UNCHANGED eventVars
  BY <1>3, UnchangedKeepsPools, PoolsKeptStep DEF eventVars
<1>4. EventsNext \/ MutexNext \/ UNCHANGED eventVars
  <2>1. CASE MutexPendReturns
    BY <2>1 DEF MutexPendReturns, PendReturns
  <2>2. CASE MemNext /\ UNCHANGED <<eventVars, holds, flagVars>>
    BY <2>2
  <2> QED
    BY <2>1, <2>2 DEF Next, vars, DeleteTask, CreateTask
<1> QED
  BY <1>1, <1>2, <1>3, <1>4

\* No event control block and no queue control block is lost or in use twice,
\* whatever the tasks create and delete, waiting tasks or not: OSEventFreeList
\* and OSQFreeList have exactly those that no object has.
THEOREM NoControlBlockIsLost == Spec => []PoolsConserved
<1>1. PoolsInv => PoolsConserved
  <2> SUFFICES ASSUME PoolsInv
               PROVE  PoolsConserved
    OBVIOUS
  <2>1. DOMAIN OSEventFreeList = 1..Len(OSEventFreeList) /\ DOMAIN OSQFreeList = 1..Len(OSQFreeList)
    BY DEF PoolsInv
  <2>2. Len(OSEventFreeList) = Cardinality(UnusedEvents)
    BY ListsCardinality DEF PoolsInv
  <2>3. \A e \in Events : ecb[e].type = "UNUSED" <=> \E i \in DOMAIN OSEventFreeList : OSEventFreeList[i] = e
    BY <2>1 DEF PoolsInv, Lists, UnusedEvents
  <2>4. \A q \in Queues : (\E i \in DOMAIN OSQFreeList : OSQFreeList[i] = q)
                            <=> ~ \E e \in Events : ecb[e].type = "Q" /\ ecb[e].ptr = q
    BY <2>1 DEF PoolsInv, Lists, FreeQueues, QueueEvents
  <2> QED
    BY <2>2, <2>3, <2>4 DEF PoolsConserved, UnusedEvents
<1>2. Spec => []PoolsInv
  BY PoolsInitial, PoolsStep, PTL DEF Spec
<1> QED
  BY <1>1, <1>2, PTL

-----------------------------------------------------------------------------
(* A TCB c and a place k of a task, as Unanswered and Runnable see them *)

Live(k) == k.at # "dormant"

PendBits(c) == c.stat \cap OS_STAT_PEND_ANY

Unans(c, k) ==
  /\ k.at = "pend"
  /\ \/ c.statpend = "TO"
     \/ c.multiptr # {} /\ c.eventptr = NULL
     \/ c.multiptr = {} /\ PendBits(c) # {}

Runs(c, k) ==
  /\ Live(k)
  /\ "SUSPEND" \notin c.stat
  /\ IF k.at = "pend" THEN ~Unans(c, k) \/ c.statpend = "TO" ELSE c.dly = 0

\* What is in a TCB outside a pend, and in each kind of pend.  A task that
\* waits on one event waits on one that exists, with the bit of its type.
OutShape(c) ==
  c.stat \subseteq {"SUSPEND"} /\ c.statpend = "OK" /\ c.eventptr = NULL /\ c.multiptr = {}

EventTypes == {"SEM", "MBOX", "Q", "MUTEX"}
PostTypes == {"SEM", "MBOX", "Q"}
SinglePends == {"OSSemPend", "OSMboxPend", "OSQPend", "OSMutexPend"}

SingleShape(c, k, ecbs) ==
  /\ c.eventptr \in Events /\ k.on = {c.eventptr} /\ c.multiptr = {}
  /\ Unans(c, k) => /\ ecbs[c.eventptr].type \in EventTypes
                    /\ k.svc = "OSMutexPend" <=> ecbs[c.eventptr].type = "MUTEX"
                    /\ c.stat \subseteq {"SUSPEND", ecbs[c.eventptr].type}
  /\ ~Unans(c, k) => c.stat \subseteq {"SUSPEND"}
  /\ k.svc = "OSMutexPend" => "SUSPEND" \notin c.stat /\ c.statpend # "ABORT"

MultiShape(c, k, ecbs) ==
  /\ k.on # {} /\ k.on \subseteq Events /\ c.multiptr = k.on
  /\ c.eventptr \in k.on \cup {NULL}
  /\ "SUSPEND" \notin c.stat
  /\ c.statpend = "TO" => c.eventptr = NULL
  /\ \A e \in k.on : ecbs[e].type \in PostTypes

FlagShape(c, k) ==
  /\ k.on = {} /\ c.eventptr = NULL /\ c.multiptr = {}
  /\ c.stat \subseteq {"SUSPEND", "FLAG"} /\ c.statpend # "ABORT"

WaitShape(c, k) ==
  /\ c.statpend = "TO" => PendBits(c) = {} /\ c.dly = 0
  /\ ~Unans(c, k) => c.dly = 0
  /\ Unans(c, k) /\ c.statpend # "TO" => c.statpend = "OK" /\ PendBits(c) # {}

Shape(c, k, ecbs) ==
  /\ k.at \in {"task", "returned", "pend", "dormant"}
  /\ k.at \in {"task", "returned"} => OutShape(c)
  /\ k.at = "pend" =>
       /\ WaitShape(c, k)
       /\ \/ k.svc \in SinglePends /\ SingleShape(c, k, ecbs)
          \/ k.svc = "OSEventPendMulti" /\ MultiShape(c, k, ecbs)
          \/ k.svc = "OSFlagPend" /\ FlagShape(c, k)

\* The priorities of the tasks of S.
PriosOf(tcbs, S) == {tcbs[t].prio : t \in S}

LiveSet(pcs) == {t \in Tasks : Live(pcs[t])}
RunSet(tcbs, pcs) == {t \in Tasks : Runs(tcbs[t], pcs[t])}
WaitSet(tcbs, pcs, e) == {t \in Tasks : Unans(tcbs[t], pcs[t]) /\ e \in pcs[t].on}

Uniq(tcbs, pcs) ==
  \A s, t \in LiveSet(pcs) : tcbs[s].prio = tcbs[t].prio => s = t

\* The data of the tasks agree with ready list and wait lists.
Data(rdy, tbl, tcbs, pcs, ecbs) ==
  /\ tcbs \in [Tasks -> OS_TCB] /\ DOMAIN pcs = Tasks
  /\ Uniq(tcbs, pcs)
  /\ \A t \in Tasks : Shape(tcbs[t], pcs[t], ecbs)
  /\ \A t \in LiveSet(pcs) : tcbs[t].prio \in Prios
  /\ rdy = PriosOf(tcbs, RunSet(tcbs, pcs)) \cup {OS_TASK_IDLE_PRIO}
  /\ DOMAIN tbl = Events
  /\ \A e \in Events : tbl[e] = PriosOf(tcbs, WaitSet(tcbs, pcs, e))

-----------------------------------------------------------------------------
LEMMA PriosWithout ==
  ASSUME NEW tcbs, NEW pcs, Uniq(tcbs, pcs),
         NEW S \in SUBSET LiveSet(pcs), NEW T \in SUBSET LiveSet(pcs)
  PROVE  PriosOf(tcbs, S \ T) = PriosOf(tcbs, S) \ PriosOf(tcbs, T)
BY DEF Uniq, PriosOf

LEMMA PriosWith ==
  ASSUME NEW tcbs, NEW S, NEW T
  PROVE  PriosOf(tcbs, S \cup T) = PriosOf(tcbs, S) \cup PriosOf(tcbs, T)
BY DEF PriosOf

LEMMA PriosSame ==
  ASSUME NEW tcbs, NEW tcbs2, NEW S, \A t \in S : tcbs2[t].prio = tcbs[t].prio
  PROVE  PriosOf(tcbs2, S) = PriosOf(tcbs, S)
BY DEF PriosOf

LEMMA PriosOfOne ==
  ASSUME NEW tcbs, NEW t
  PROVE  PriosOf(tcbs, {t}) = {tcbs[t].prio}
BY DEF PriosOf

LEMMA HighestIsMember ==
  ASSUME NEW S \in SUBSET Nat, S # {}
  PROVE  Highest(S) \in S /\ \A q \in S : Highest(S) <= q
<1>1. \E p \in S : \A q \in S : p <= q
  BY LeastNatural
<1> QED
  BY <1>1 DEF Highest

\* A task that waits exists, and so does one that may run; one that waits
\* does not run unless its pend has timed out.
LEMMA SetsAreLive ==
  ASSUME NEW tcbs, NEW pcs, NEW e
  PROVE  /\ RunSet(tcbs, pcs) \subseteq LiveSet(pcs)
         /\ WaitSet(tcbs, pcs, e) \subseteq LiveSet(pcs)
         /\ LiveSet(pcs) \subseteq Tasks
BY DEF RunSet, WaitSet, LiveSet, Runs, Unans, Live

-----------------------------------------------------------------------------
(* How the changes of a TCB change what is said of its task *)

\* The events that a task in a pend goes by keep their type.
TypesFor(c, k, ecbs, ecbs2) ==
  k.at = "pend" /\ (c.multiptr # {} \/ Unans(c, k)) =>
    \A e \in k.on : ecbs2[e].type = ecbs[e].type

\* Only the fields named matter.
LEMMA ShapeOfSame ==
  ASSUME NEW c, NEW c2, NEW k, NEW ecbs, NEW ecbs2, Shape(c, k, ecbs),
         c2.stat = c.stat, c2.statpend = c.statpend, c2.eventptr = c.eventptr,
         c2.multiptr = c.multiptr, c2.dly = c.dly,
         TypesFor(c, k, ecbs, ecbs2)
  PROVE  Shape(c2, k, ecbs2) /\ (Unans(c2, k) <=> Unans(c, k)) /\ (Runs(c2, k) <=> Runs(c, k))
<1>1. Unans(c2, k) <=> Unans(c, k)
  BY DEF Unans, PendBits
<1>2. Runs(c2, k) <=> Runs(c, k)
  BY <1>1 DEF Runs
<1>3. ASSUME k.at = "pend"
      PROVE  WaitShape(c2, k)
  BY <1>1, <1>3 DEF Shape, WaitShape, PendBits
<1>4. ASSUME k.at = "pend", k.svc \in SinglePends, SingleShape(c, k, ecbs)
      PROVE  SingleShape(c2, k, ecbs2)
  BY <1>1, <1>4 DEF SingleShape, TypesFor
<1>5. ASSUME k.at = "pend", MultiShape(c, k, ecbs)
      PROVE  MultiShape(c2, k, ecbs2)
  BY <1>5 DEF MultiShape, TypesFor
<1>6. ASSUME k.at = "pend", FlagShape(c, k)
      PROVE  FlagShape(c2, k)
  BY <1>6 DEF FlagShape
<1> QED
  BY <1>1, <1>2, <1>3, <1>4, <1>5, <1>6 DEF Shape, OutShape

\* OS_EventTaskRdy on a task that waits for e.
AnsweredTCB(c, c2, e, bit, pend) ==
  /\ c2.dly = 0 /\ c2.stat = c.stat \ {bit} /\ c2.statpend = pend
  /\ c2.multiptr = c.multiptr
  /\ c2.eventptr = IF c.multiptr = {} THEN c.eventptr ELSE e

LEMMA ShapeOfAnswered ==
  ASSUME NEW c, NEW c2, NEW k, NEW ecbs, NEW ecbs2, NEW e \in Events, NEW pend,
         Shape(c, k, ecbs), Unans(c, k), e \in k.on, pend \in {"OK", "ABORT"},
         AnsweredTCB(c, c2, e, ecbs[e].type, pend),
         ecbs[e].type = "MUTEX" => pend = "OK",
         \A f \in k.on : c.multiptr # {} => ecbs2[f].type = ecbs[f].type
  PROVE  Shape(c2, k, ecbs2) /\ ~Unans(c2, k) /\ (Runs(c2, k) <=> "SUSPEND" \notin c.stat)
<1>1. k.at = "pend" /\ WaitShape(c, k)
  BY DEF Unans, Shape
<1>2. NULL \notin Events /\ pend # "TO"
  BY TasksAssumption
<1>3. "SUSPEND" \notin c2.stat <=> "SUSPEND" \notin c.stat
  <2>1. ecbs[e].type \in EventTypes
    BY <1>1 DEF Shape, SingleShape, MultiShape, FlagShape, EventTypes, PostTypes
  <2> QED
    BY <2>1 DEF AnsweredTCB, EventTypes
<1>4. CASE k.svc \in SinglePends /\ SingleShape(c, k, ecbs)
  <2>1. c.multiptr = {} /\ k.on = {e} /\ c.eventptr = e /\ c2.eventptr = e /\ c2.multiptr = {}
    BY <1>4 DEF SingleShape, AnsweredTCB
  <2>2. c2.stat \subseteq {"SUSPEND"}
    BY <1>4, <2>1 DEF SingleShape, AnsweredTCB
  <2>3. PendBits(c2) = {}
    BY <2>2 DEF PendBits, OS_STAT_PEND_ANY
  <2>4. ~Unans(c2, k)
    BY <1>2, <2>1, <2>3 DEF Unans, AnsweredTCB
  <2>5. SingleShape(c2, k, ecbs2)
    <3>1. k.svc = "OSMutexPend" => "SUSPEND" \notin c2.stat /\ c2.statpend # "ABORT"
      BY <1>2, <1>3, <1>4, <2>1 DEF SingleShape, AnsweredTCB
    <3> QED
      BY <2>1, <2>2, <2>4, <3>1 DEF SingleShape
  <2>6. WaitShape(c2, k)
    BY <1>2, <2>4, <2>3 DEF WaitShape, AnsweredTCB
  <2> QED
    BY <1>1, <1>3, <1>4, <2>4, <2>5, <2>6 DEF Shape, Runs, Live
<1>5. CASE k.svc = "OSEventPendMulti" /\ MultiShape(c, k, ecbs)
  <2>1. c.multiptr = k.on /\ c.multiptr # {} /\ c2.eventptr = e /\ c2.multiptr = k.on
    BY <1>5 DEF MultiShape, AnsweredTCB
  <2>2. ~Unans(c2, k)
    BY <1>2, <2>1 DEF Unans, AnsweredTCB
  <2>3. MultiShape(c2, k, ecbs2)
    BY <1>2, <1>3, <1>5, <2>1 DEF MultiShape, AnsweredTCB
  <2>4. WaitShape(c2, k)
    BY <1>2, <2>2 DEF WaitShape, AnsweredTCB
  <2> QED
    BY <1>1, <1>3, <1>5, <2>2, <2>3, <2>4 DEF Shape, Runs, Live
<1>6. CASE k.svc = "OSFlagPend" /\ FlagShape(c, k)
  BY <1>6 DEF FlagShape
<1> QED
  BY <1>1, <1>4, <1>5, <1>6 DEF Shape

\* A tick or OSTimeDlyResume ends a delay or a pend.
TimedOutTCB(c, c2) ==
  /\ c2.dly = 0 /\ c2.stat = c.stat \ OS_STAT_PEND_ANY
  /\ c2.statpend = (IF PendBits(c) # {} THEN "TO" ELSE "OK")
  /\ c2.eventptr = c.eventptr /\ c2.multiptr = c.multiptr

LEMMA ShapeOfTimedOut ==
  ASSUME NEW c, NEW c2, NEW k, NEW ecbs,
         Shape(c, k, ecbs), Live(k), c.dly # 0, TimedOutTCB(c, c2)
  PROVE  /\ Shape(c2, k, ecbs) /\ (Unans(c2, k) <=> Unans(c, k))
         /\ Runs(c2, k) <=> "SUSPEND" \notin c.stat
         /\ ~Runs(c, k)
<1>1. "SUSPEND" \notin c2.stat <=> "SUSPEND" \notin c.stat
  BY DEF TimedOutTCB, OS_STAT_PEND_ANY
<1>2. PendBits(c2) = {}
  BY DEF TimedOutTCB, PendBits
<1>3. CASE k.at \in {"task", "returned"}
  <2>1. OutShape(c) /\ PendBits(c) = {} /\ c2.stat = c.stat /\ c2.statpend = "OK"
    BY <1>3 DEF Shape, OutShape, PendBits, OS_STAT_PEND_ANY, TimedOutTCB
  <2>2. ~Unans(c2, k) /\ ~Unans(c, k)
    BY <1>3 DEF Unans
  <2>3. OutShape(c2)
    BY <2>1 DEF OutShape, TimedOutTCB
  <2>4. Runs(c2, k) <=> "SUSPEND" \notin c.stat
    BY <1>1, <1>3 DEF Runs, TimedOutTCB, Live
  <2>5. ~Runs(c, k)
    BY <1>3 DEF Runs
  <2> QED
    BY <1>3, <2>2, <2>3, <2>4, <2>5 DEF Shape
<1>4. CASE k.at = "pend"
  <2>1. WaitShape(c, k) /\ c.statpend # "TO" /\ Unans(c, k) /\ PendBits(c) # {}
    BY <1>4 DEF Shape, WaitShape
  <2>2. c2.statpend = "TO"
    BY <2>1 DEF TimedOutTCB
  <2>3. Unans(c2, k)
    BY <1>4, <2>2 DEF Unans
  <2>4. WaitShape(c2, k)
    BY <1>2, <2>2, <2>3 DEF WaitShape, TimedOutTCB
  <2>5. ASSUME SingleShape(c, k, ecbs)
        PROVE  SingleShape(c2, k, ecbs)
    <3>1. c2.stat \subseteq c.stat /\ c2.statpend # "ABORT"
      BY <2>2 DEF TimedOutTCB
    <3> QED
      BY <2>1, <2>3, <2>5, <3>1 DEF SingleShape, TimedOutTCB
  <2>6. ASSUME MultiShape(c, k, ecbs)
        PROVE  MultiShape(c2, k, ecbs)
    <3>1. c.eventptr = NULL
      BY <2>1, <2>6 DEF MultiShape, Unans
    <3> QED
      BY <1>1, <2>6, <3>1 DEF MultiShape, TimedOutTCB
  <2>7. ASSUME FlagShape(c, k)
        PROVE  FlagShape(c2, k)
    BY <2>2, <2>7 DEF FlagShape, TimedOutTCB
  <2>8. Runs(c2, k) <=> "SUSPEND" \notin c.stat
    BY <1>1, <1>4, <2>2 DEF Runs, Live
  <2>9. ~Runs(c, k)
    BY <1>4, <2>1 DEF Runs
  <2> QED
    BY <1>4, <2>1, <2>3, <2>4, <2>5, <2>6, <2>7, <2>8, <2>9 DEF Shape
<1> QED
  BY <1>3, <1>4 DEF Shape, Live

\* OSTaskSuspend, but not inside OSEventPendMulti or OSMutexPend.
LEMMA ShapeOfSuspended ==
  ASSUME NEW c, NEW c2, NEW k, NEW ecbs,
         Shape(c, k, ecbs), Live(k), c.multiptr = {}, k.at = "pend" => k.svc # "OSMutexPend",
         c2.stat = c.stat \cup {"SUSPEND"}, c2.dly = c.dly, c2.statpend = c.statpend,
         c2.eventptr = c.eventptr, c2.multiptr = c.multiptr
  PROVE  Shape(c2, k, ecbs) /\ (Unans(c2, k) <=> Unans(c, k)) /\ ~Runs(c2, k)
<1>1. PendBits(c2) = PendBits(c)
  BY DEF PendBits, OS_STAT_PEND_ANY
<1>2. Unans(c2, k) <=> Unans(c, k)
  BY <1>1 DEF Unans
<1>3. ~Runs(c2, k)
  BY DEF Runs
<1>4. ASSUME OutShape(c)
      PROVE  OutShape(c2)
  BY <1>4 DEF OutShape
<1>5. ASSUME k.at = "pend"
      PROVE  WaitShape(c2, k)
  BY <1>1, <1>2, <1>5 DEF Shape, WaitShape
<1>6. ASSUME k.at = "pend", SingleShape(c, k, ecbs)
      PROVE  SingleShape(c2, k, ecbs)
  BY <1>2, <1>6 DEF SingleShape
<1>7. ASSUME FlagShape(c, k)
      PROVE  FlagShape(c2, k)
  BY <1>7 DEF FlagShape
<1> QED
  BY <1>2, <1>3, <1>4, <1>5, <1>6, <1>7 DEF Shape, MultiShape

LEMMA ShapeOfResumed ==
  ASSUME NEW c, NEW c2, NEW k, NEW ecbs,
         Shape(c, k, ecbs), Live(k), "SUSPEND" \in c.stat,
         c2.stat = c.stat \ {"SUSPEND"}, c2.dly = c.dly, c2.statpend = c.statpend,
         c2.eventptr = c.eventptr, c2.multiptr = c.multiptr
  PROVE  /\ Shape(c2, k, ecbs) /\ (Unans(c2, k) <=> Unans(c, k)) /\ ~Runs(c, k)
         /\ Runs(c2, k) <=> c2.stat = {} /\ c.dly = 0
<1>1. PendBits(c2) = PendBits(c) /\ PendBits(c2) \subseteq c2.stat
  BY DEF PendBits, OS_STAT_PEND_ANY
<1>2. Unans(c2, k) <=> Unans(c, k)
  BY <1>1 DEF Unans
<1>3. ~Runs(c, k) /\ "SUSPEND" \notin c2.stat
  BY DEF Runs
<1>4. ASSUME OutShape(c)
      PROVE  OutShape(c2) /\ c2.stat = {}
  BY <1>4 DEF OutShape
<1>5. CASE k.at \in {"task", "returned"}
  BY <1>2, <1>3, <1>4, <1>5 DEF Shape, Runs
<1>6. CASE k.at = "pend"
  <2>1. WaitShape(c, k)
    BY <1>6 DEF Shape
  <2>2. WaitShape(c2, k)
    BY <1>1, <1>2, <2>1 DEF WaitShape
  <2>3. ~MultiShape(c, k, ecbs)
    BY DEF MultiShape
  <2>4. ASSUME SingleShape(c, k, ecbs)
        PROVE  SingleShape(c2, k, ecbs) /\ (PendBits(c2) = {} => c2.stat = {}) /\ c.multiptr = {}
    <3>1. c2.stat \subseteq c.stat
      OBVIOUS
    <3>2. SingleShape(c2, k, ecbs)
      BY <1>2, <1>3, <2>4, <3>1 DEF SingleShape
    <3>3. c2.stat \subseteq EventTypes
      BY <1>3, <2>4 DEF SingleShape
    <3> QED
      BY <2>4, <3>2, <3>3 DEF SingleShape, PendBits, OS_STAT_PEND_ANY, EventTypes
  <2>5. ASSUME FlagShape(c, k)
        PROVE  FlagShape(c2, k) /\ (PendBits(c2) = {} => c2.stat = {}) /\ c.multiptr = {}
    BY <2>5 DEF FlagShape, PendBits, OS_STAT_PEND_ANY
  <2>6. (PendBits(c2) = {} => c2.stat = {}) /\ c.multiptr = {}
    BY <1>6, <2>3, <2>4, <2>5 DEF Shape
  <2>7. Runs(c2, k) <=> ~Unans(c2, k) \/ c2.statpend = "TO"
    BY <1>3, <1>6 DEF Runs, Live
  <2>8. ASSUME Runs(c2, k)
        PROVE  c2.stat = {} /\ c.dly = 0
    <3>1. PendBits(c2) = {} /\ c2.dly = 0
      BY <1>6, <2>2, <2>6, <2>7, <2>8 DEF WaitShape, Unans
    <3> QED
      BY <2>6, <3>1
  <2>9. ASSUME c2.stat = {}
        PROVE  Runs(c2, k)
    <3>1. PendBits(c2) = {}
      BY <2>9, <1>1
    <3> QED
      BY <2>2, <2>7, <3>1 DEF WaitShape
  <2>10. Shape(c2, k, ecbs)
    BY <1>6, <2>2, <2>3, <2>4, <2>5 DEF Shape
  <2> QED
    BY <1>2, <1>3, <2>8, <2>9, <2>10
<1> QED
  BY <1>5, <1>6 DEF Shape, Live

\* A task that runs, outside a pend or on its way out of one.
LEMMA ShapeOfRunning ==
  ASSUME NEW c, NEW k, NEW ecbs, Shape(c, k, ecbs), Runs(c, k)
  PROVE  /\ c.dly = 0 /\ "SUSPEND" \notin c.stat
         /\ k.at \in {"task", "returned"} => c.stat = {}
<1>1. "SUSPEND" \notin c.stat /\ Live(k)
  BY DEF Runs
<1>2. CASE k.at = "pend"
  BY <1>1, <1>2 DEF Runs, Shape, WaitShape
<1>3. CASE k.at \in {"task", "returned"}
  BY <1>1, <1>3 DEF Runs, Shape, OutShape
<1> QED
  BY <1>1, <1>2, <1>3 DEF Shape, Live

LEMMA ShapeOfOut ==
  ASSUME NEW c, NEW k, NEW ecbs, OutShape(c), k.at \in {"task", "returned"}
  PROVE  Shape(c, k, ecbs) /\ ~Unans(c, k) /\ (Runs(c, k) <=> c.stat = {} /\ c.dly = 0)
BY DEF OutShape, Shape, Unans, Runs, Live

\* The three ways to start to wait.
WaitingSingle(c, k, e, bit) ==
  /\ c.stat = {bit} /\ c.statpend = "OK" /\ c.eventptr = e /\ c.multiptr = {}
  /\ k.at = "pend" /\ k.svc \in SinglePends /\ k.on = {e}
  /\ k.svc = "OSMutexPend" <=> bit = "MUTEX"

WaitingMulti(c, k, S, bits) ==
  /\ c.stat = bits \cup {"MULTI"} /\ c.statpend = "OK" /\ c.eventptr = NULL /\ c.multiptr = S
  /\ k.at = "pend" /\ k.svc = "OSEventPendMulti" /\ k.on = S

WaitingFlag(c, k) ==
  /\ c.stat = {"FLAG"} /\ c.statpend = "OK" /\ c.eventptr = NULL /\ c.multiptr = {}
  /\ k.at = "pend" /\ k.svc = "OSFlagPend" /\ k.on = {}

LEMMA ShapeOfWaiting ==
  ASSUME NEW c, NEW k, NEW ecbs,
         \/ \E e \in Events : ecbs[e].type \in EventTypes /\ WaitingSingle(c, k, e, ecbs[e].type)
         \/ \E S \in SUBSET Events : /\ S # {} /\ \A e \in S : ecbs[e].type \in PostTypes
                                     /\ WaitingMulti(c, k, S, {ecbs[e].type : e \in S})
         \/ WaitingFlag(c, k)
  PROVE  Shape(c, k, ecbs) /\ Unans(c, k) /\ ~Runs(c, k)
<1>1. ASSUME NEW e \in Events, ecbs[e].type \in EventTypes, WaitingSingle(c, k, e, ecbs[e].type)
      PROVE  Shape(c, k, ecbs) /\ Unans(c, k)
  <2>1. PendBits(c) # {} /\ "SUSPEND" \notin c.stat
    BY <1>1 DEF PendBits, OS_STAT_PEND_ANY, WaitingSingle, EventTypes
  <2>2. Unans(c, k)
    BY <1>1, <2>1 DEF Unans, WaitingSingle
  <2>3. WaitShape(c, k)
    BY <1>1, <2>1, <2>2 DEF WaitShape, WaitingSingle
  <2>4. SingleShape(c, k, ecbs)
    BY <1>1, <2>1, <2>2 DEF SingleShape, WaitingSingle
  <2> QED
    BY <1>1, <2>2, <2>3, <2>4 DEF Shape, WaitingSingle
<1>2. ASSUME NEW S \in SUBSET Events, S # {}, \A e \in S : ecbs[e].type \in PostTypes,
             WaitingMulti(c, k, S, {ecbs[e].type : e \in S})
      PROVE  Shape(c, k, ecbs) /\ Unans(c, k)
  <2>1. PICK e \in S : TRUE
    BY <1>2
  <2>2. ecbs[e].type \in PendBits(c)
    BY <1>2, <2>1 DEF PendBits, OS_STAT_PEND_ANY, WaitingMulti, PostTypes
  <2>3. "SUSPEND" \notin c.stat
    BY <1>2 DEF WaitingMulti, PostTypes
  <2>4. Unans(c, k)
    BY <1>2 DEF Unans, WaitingMulti
  <2>5. WaitShape(c, k)
    BY <1>2, <2>2, <2>4 DEF WaitShape, WaitingMulti
  <2>6. MultiShape(c, k, ecbs)
    BY <1>2, <2>3 DEF MultiShape, WaitingMulti
  <2> QED
    BY <1>2, <2>4, <2>5, <2>6 DEF Shape, WaitingMulti
<1>3. ASSUME WaitingFlag(c, k)
      PROVE  Shape(c, k, ecbs) /\ Unans(c, k)
  <2>1. PendBits(c) # {}
    BY <1>3 DEF PendBits, OS_STAT_PEND_ANY, WaitingFlag
  <2> QED
    BY <1>3, <2>1 DEF Shape, Unans, WaitShape, FlagShape, WaitingFlag
<1>4. Shape(c, k, ecbs) /\ Unans(c, k) /\ k.at = "pend" /\ c.statpend = "OK"
  BY <1>1, <1>2, <1>3 DEF WaitingSingle, WaitingMulti, WaitingFlag
<1> QED
  BY <1>4 DEF Runs

-----------------------------------------------------------------------------
(* How changes of the tasks keep ready list and wait lists exact *)

LEMMA IdleIsApart == OS_TASK_IDLE_PRIO \notin Prios /\ AllPrios \subseteq Nat
BY TasksAssumption DEF OS_TASK_IDLE_PRIO, AllPrios

\* Every task keeps its priority, and exists as before.
Kept(tcbs, pcs, tcbs2, pcs2) ==
  \A t \in Tasks : tcbs2[t].prio = tcbs[t].prio /\ (Live(pcs2[t]) <=> Live(pcs[t]))

\* Ready list and wait lists hold the priorities, as of tcbs, of the tasks
\* that run and that wait by tcbs2 and pcs2.
Exact(rdy2, tbl2, tcbs, tcbs2, pcs2, ecbs2) ==
  /\ tcbs2 \in [Tasks -> OS_TCB] /\ DOMAIN pcs2 = Tasks
  /\ \A t \in Tasks : Shape(tcbs2[t], pcs2[t], ecbs2)
  /\ rdy2 = PriosOf(tcbs, RunSet(tcbs2, pcs2)) \cup {OS_TASK_IDLE_PRIO}
  /\ DOMAIN tbl2 = Events
  /\ \A e \in Events : tbl2[e] = PriosOf(tcbs, WaitSet(tcbs2, pcs2, e))

LEMMA KeptData ==
  ASSUME NEW rdy, NEW tbl, NEW tcbs, NEW pcs, NEW ecbs, Data(rdy, tbl, tcbs, pcs, ecbs),
         NEW rdy2, NEW tbl2, NEW tcbs2, NEW pcs2, NEW ecbs2, Kept(tcbs, pcs, tcbs2, pcs2),
         Exact(rdy2, tbl2, tcbs, tcbs2, pcs2, ecbs2)
  PROVE  Data(rdy2, tbl2, tcbs2, pcs2, ecbs2)
<1>1. LiveSet(pcs2) = LiveSet(pcs)
  BY DEF Kept, LiveSet
<1>2. Uniq(tcbs2, pcs2) /\ \A t \in LiveSet(pcs2) : tcbs2[t].prio \in Prios
  BY <1>1, SetsAreLive DEF Kept, Data, Uniq
<1>3. \A S \in SUBSET Tasks : PriosOf(tcbs2, S) = PriosOf(tcbs, S)
  BY PriosSame DEF Kept
<1>4. RunSet(tcbs2, pcs2) \subseteq Tasks /\ \A e : WaitSet(tcbs2, pcs2, e) \subseteq Tasks
  BY DEF RunSet, WaitSet
<1> QED
  BY <1>2, <1>3, <1>4 DEF Data, Exact

\* Task x changes, in a TCB that has the shape of its new place, and ready
\* list and wait lists with it.
OneChanges(x, tcbs, pcs, tcbs2, pcs2, ecbs) ==
  /\ tcbs2 \in [Tasks -> OS_TCB] /\ DOMAIN pcs2 = Tasks
  /\ \A t \in Tasks \ {x} : tcbs2[t] = tcbs[t] /\ pcs2[t] = pcs[t]
  /\ tcbs2[x].prio = tcbs[x].prio /\ Live(pcs2[x]) /\ Shape(tcbs2[x], pcs2[x], ecbs)

OneListed(x, p, rdy, tbl, rdy2, tbl2, tcbs2, pcs2) ==
  /\ rdy2 = IF Runs(tcbs2[x], pcs2[x]) THEN rdy \cup {p} ELSE rdy \ {p}
  /\ DOMAIN tbl2 = Events
  /\ \A e \in Events : tbl2[e] = IF Unans(tcbs2[x], pcs2[x]) /\ e \in pcs2[x].on
                                 THEN tbl[e] \cup {p} ELSE tbl[e] \ {p}

LEMMA OneData ==
  ASSUME NEW rdy, NEW tbl, NEW tcbs, NEW pcs, NEW ecbs, Data(rdy, tbl, tcbs, pcs, ecbs),
         NEW x \in LiveSet(pcs), NEW rdy2, NEW tbl2, NEW tcbs2, NEW pcs2,
         OneChanges(x, tcbs, pcs, tcbs2, pcs2, ecbs),
         OneListed(x, tcbs[x].prio, rdy, tbl, rdy2, tbl2, tcbs2, pcs2)
  PROVE  Data(rdy2, tbl2, tcbs2, pcs2, ecbs) /\ Kept(tcbs, pcs, tcbs2, pcs2)
<1>1. x \in Tasks /\ Uniq(tcbs, pcs) /\ tcbs[x].prio \in Prios
  BY DEF LiveSet, Data
<1>2. Kept(tcbs, pcs, tcbs2, pcs2)
  BY <1>1 DEF Kept, LiveSet, OneChanges
<1>3. \A t \in Tasks : Shape(tcbs2[t], pcs2[t], ecbs)
  BY DEF Data, OneChanges
<1>4. rdy2 = PriosOf(tcbs, RunSet(tcbs2, pcs2)) \cup {OS_TASK_IDLE_PRIO}
  <2> DEFINE S == RunSet(tcbs, pcs)
  <2>1. S \in SUBSET LiveSet(pcs) /\ {x} \in SUBSET LiveSet(pcs)
    BY SetsAreLive
  <2>2. RunSet(tcbs2, pcs2) = IF Runs(tcbs2[x], pcs2[x]) THEN S \cup {x} ELSE S \ {x}
    BY <1>1 DEF RunSet, OneChanges
  <2>5. rdy = PriosOf(tcbs, S) \cup {OS_TASK_IDLE_PRIO}
    BY DEF Data
  <2> HIDE DEF S
  <2>6. PriosOf(tcbs, {x}) = {tcbs[x].prio}
    BY PriosOfOne
  <2>3. PriosOf(tcbs, S \cup {x}) = PriosOf(tcbs, S) \cup {tcbs[x].prio}
    BY <2>6, PriosWith
  <2>4. PriosOf(tcbs, S \ {x}) = PriosOf(tcbs, S) \ {tcbs[x].prio}
    BY <1>1, <2>1, <2>6, PriosWithout
  <2> QED
    BY <1>1, <2>2, <2>3, <2>4, <2>5, IdleIsApart DEF OneListed
<1>5. ASSUME NEW e \in Events
      PROVE  tbl2[e] = PriosOf(tcbs, WaitSet(tcbs2, pcs2, e))
  <2> DEFINE S == WaitSet(tcbs, pcs, e)
  <2>1. S \in SUBSET LiveSet(pcs) /\ {x} \in SUBSET LiveSet(pcs)
    BY SetsAreLive
  <2>2. WaitSet(tcbs2, pcs2, e) = IF Unans(tcbs2[x], pcs2[x]) /\ e \in pcs2[x].on
                                  THEN S \cup {x} ELSE S \ {x}
    BY <1>1 DEF WaitSet, OneChanges
  <2>5. tbl[e] = PriosOf(tcbs, S)
    BY DEF Data
  <2> HIDE DEF S
  <2>6. PriosOf(tcbs, {x}) = {tcbs[x].prio}
    BY PriosOfOne
  <2>3. PriosOf(tcbs, S \cup {x}) = PriosOf(tcbs, S) \cup {tcbs[x].prio}
    BY <2>6, PriosWith
  <2>4. PriosOf(tcbs, S \ {x}) = PriosOf(tcbs, S) \ {tcbs[x].prio}
    BY <1>1, <2>1, <2>6, PriosWithout
  <2> QED
    BY <2>2, <2>3, <2>4, <2>5 DEF OneListed
<1>6. Exact(rdy2, tbl2, tcbs, tcbs2, pcs2, ecbs)
  BY <1>3, <1>4, <1>5 DEF Exact, OneChanges, OneListed
<1> QED
  BY <1>2, <1>6, KeptData

\* The waits or delays of tasks W end.
Ends(W, tcbs, pcs, tcbs2, ecbs2) ==
  /\ tcbs2 \in [Tasks -> OS_TCB]
  /\ \A t \in Tasks : tcbs2[t].prio = tcbs[t].prio /\ Shape(tcbs2[t], pcs[t], ecbs2)
  /\ \A t \in Tasks \ W : /\ Unans(tcbs2[t], pcs[t]) <=> Unans(tcbs[t], pcs[t])
                          /\ Runs(tcbs2[t], pcs[t]) <=> Runs(tcbs[t], pcs[t])
  /\ \A t \in W : /\ Unans(tcbs2[t], pcs[t]) => Unans(tcbs[t], pcs[t])
                  /\ Runs(tcbs[t], pcs[t]) => Runs(tcbs2[t], pcs[t])

EndsListed(W, rdy, tbl, tcbs, pcs, rdy2, tbl2, tcbs2) ==
  /\ rdy2 = rdy \cup PriosOf(tcbs, {t \in W : Runs(tcbs2[t], pcs[t])})
  /\ DOMAIN tbl2 = Events
  /\ \A e \in Events : tbl2[e] = tbl[e] \ PriosOf(tcbs,
       {t \in W : e \in pcs[t].on /\ Unans(tcbs[t], pcs[t]) /\ ~Unans(tcbs2[t], pcs[t])})

LEMMA ManyData ==
  ASSUME NEW rdy, NEW tbl, NEW tcbs, NEW pcs, NEW ecbs, Data(rdy, tbl, tcbs, pcs, ecbs),
         NEW W \in SUBSET LiveSet(pcs), NEW rdy2, NEW tbl2, NEW tcbs2, NEW ecbs2,
         Ends(W, tcbs, pcs, tcbs2, ecbs2), EndsListed(W, rdy, tbl, tcbs, pcs, rdy2, tbl2, tcbs2)
  PROVE  Data(rdy2, tbl2, tcbs2, pcs, ecbs2)
<1>1. W \subseteq Tasks /\ Uniq(tcbs, pcs) /\ Kept(tcbs, pcs, tcbs2, pcs) /\ DOMAIN pcs = Tasks
  BY DEF LiveSet, Data, Kept, Ends
<1>2. rdy2 = PriosOf(tcbs, RunSet(tcbs2, pcs)) \cup {OS_TASK_IDLE_PRIO}
  <2> DEFINE In == {t \in W : Runs(tcbs2[t], pcs[t])}
  <2>1. RunSet(tcbs2, pcs) = RunSet(tcbs, pcs) \cup In
    BY <1>1 DEF RunSet, Ends
  <2> HIDE DEF In
  <2>2. PriosOf(tcbs, RunSet(tcbs, pcs) \cup In) = PriosOf(tcbs, RunSet(tcbs, pcs)) \cup PriosOf(tcbs, In)
    BY PriosWith
  <2> QED
    BY <2>1, <2>2 DEF Data, In, EndsListed
<1>3. ASSUME NEW e \in Events
      PROVE  tbl2[e] = PriosOf(tcbs, WaitSet(tcbs2, pcs, e))
  <2> DEFINE S == WaitSet(tcbs, pcs, e)
             Out == {t \in W : e \in pcs[t].on /\ Unans(tcbs[t], pcs[t]) /\ ~Unans(tcbs2[t], pcs[t])}
  <2>1. WaitSet(tcbs2, pcs, e) = S \ Out
    BY <1>1 DEF WaitSet, Ends
  <2>2. S \in SUBSET LiveSet(pcs) /\ Out \in SUBSET LiveSet(pcs)
    BY SetsAreLive
  <2>3. tbl[e] = PriosOf(tcbs, S) /\ tbl2[e] = tbl[e] \ PriosOf(tcbs, Out)
    BY DEF Data, EndsListed
  <2> HIDE DEF S, Out
  <2> QED
    BY <1>1, <2>1, <2>2, <2>3, PriosWithout
<1>4. \A t \in Tasks : Shape(tcbs2[t], pcs[t], ecbs2)
  BY DEF Ends
<1>5. Exact(rdy2, tbl2, tcbs, tcbs2, pcs, ecbs2)
  BY <1>1, <1>2, <1>3, <1>4 DEF Exact, Ends, EndsListed
<1> QED
  BY <1>1, <1>5, KeptData

\* The priority of a task that exists is in the ready list if it runs, and in
\* the wait list of an event if it waits for it.
LEMMA InLists ==
  ASSUME NEW rdy, NEW tbl, NEW tcbs, NEW pcs, NEW ecbs, Data(rdy, tbl, tcbs, pcs, ecbs),
         NEW x \in LiveSet(pcs)
  PROVE  /\ tcbs[x].prio \in rdy <=> Runs(tcbs[x], pcs[x])
         /\ \A e \in Events : tcbs[x].prio \in tbl[e] <=> x \in WaitSet(tcbs, pcs, e)
<1>1. x \in Tasks /\ Uniq(tcbs, pcs) /\ tcbs[x].prio \in Prios
  BY DEF LiveSet, Data
<1>2. ASSUME NEW S \in SUBSET LiveSet(pcs)
      PROVE  tcbs[x].prio \in PriosOf(tcbs, S) <=> x \in S
  BY <1>1, <1>2 DEF Uniq, PriosOf
<1>3. RunSet(tcbs, pcs) \in SUBSET LiveSet(pcs) /\ \A e : WaitSet(tcbs, pcs, e) \in SUBSET LiveSet(pcs)
  BY SetsAreLive
<1>4. tcbs[x].prio \in PriosOf(tcbs, RunSet(tcbs, pcs)) <=> Runs(tcbs[x], pcs[x])
  BY <1>1, <1>2, <1>3 DEF RunSet
<1>5. \A e \in Events : tcbs[x].prio \in tbl[e] <=> x \in WaitSet(tcbs, pcs, e)
  BY <1>2, <1>3 DEF Data
<1> QED
  BY <1>1, <1>4, <1>5, IdleIsApart DEF Data

LEMMA PriosMoved ==
  ASSUME NEW tcbs, NEW tcbs2, NEW pcs, Uniq(tcbs, pcs), NEW x \in LiveSet(pcs),
         NEW S \in SUBSET LiveSet(pcs), \A t \in LiveSet(pcs) \ {x} : tcbs2[t].prio = tcbs[t].prio
  PROVE  PriosOf(tcbs2, S) = IF x \in S THEN (PriosOf(tcbs, S) \ {tcbs[x].prio}) \cup {tcbs2[x].prio}
                             ELSE PriosOf(tcbs, S)
<1>1. CASE x \notin S
  BY <1>1, PriosSame
<1>2. CASE x \in S
  <2>1. S = (S \ {x}) \cup {x} /\ {x} \in SUBSET LiveSet(pcs)
    BY <1>2
  <2>5. PriosOf(tcbs2, {x}) = {tcbs2[x].prio} /\ PriosOf(tcbs, {x}) = {tcbs[x].prio}
    BY PriosOfOne
  <2>2. PriosOf(tcbs2, S) = PriosOf(tcbs2, S \ {x}) \cup {tcbs2[x].prio}
    BY <2>1, <2>5, PriosWith
  <2>3. PriosOf(tcbs2, S \ {x}) = PriosOf(tcbs, S \ {x})
    BY PriosSame
  <2>4. PriosOf(tcbs, S \ {x}) = PriosOf(tcbs, S) \ {tcbs[x].prio}
    BY <2>1, <2>5, PriosWithout
  <2> QED
    BY <1>2, <2>2, <2>3, <2>4
<1> QED
  BY <1>1, <1>2

\* Task x moves to priority q, which no task has.
SamePlaces(c, c2) ==
  /\ c2.stat = c.stat /\ c2.statpend = c.statpend /\ c2.dly = c.dly
  /\ c2.eventptr = c.eventptr /\ c2.multiptr = c.multiptr

Moved(x, q, tcbs, tcbs2) ==
  /\ tcbs2[x].prio = q /\ SamePlaces(tcbs[x], tcbs2[x])
  /\ \A t \in Tasks \ {x} : tcbs2[t] = tcbs[t]

Fresh(q, tcbs, pcs) == \A t \in LiveSet(pcs) : tcbs[t].prio # q

\* What a task's move from its priority to q leaves in the ready list and in the
\* wait lists it is in.
MovedLists(x, q, rdy, tbl, tcbs, pcs, rdy2, tbl2) ==
  /\ rdy2 = IF tcbs[x].prio \in rdy THEN (rdy \ {tcbs[x].prio}) \cup {q} ELSE rdy
  /\ DOMAIN tbl2 = Events
  /\ \A e \in Events : tbl2[e] = IF x \in WaitSet(tcbs, pcs, e)
                                  THEN (tbl[e] \ {tcbs[x].prio}) \cup {q} ELSE tbl[e]

LEMMA MovedData ==
  ASSUME NEW rdy, NEW tbl, NEW tcbs, NEW pcs, NEW ecbs, Data(rdy, tbl, tcbs, pcs, ecbs),
         NEW x \in LiveSet(pcs), NEW q \in Prios, Fresh(q, tcbs, pcs),
         NEW rdy2, NEW tbl2, NEW tcbs2 \in [Tasks -> OS_TCB], Moved(x, q, tcbs, tcbs2),
         MovedLists(x, q, rdy, tbl, tcbs, pcs, rdy2, tbl2)
  PROVE  Data(rdy2, tbl2, tcbs2, pcs, ecbs)
<1>1. x \in Tasks /\ Uniq(tcbs, pcs) /\ tcbs[x].prio \in Prios
  BY DEF LiveSet, Data
<1>2. \A t \in Tasks : SamePlaces(tcbs[t], tcbs2[t])
  BY DEF Moved, SamePlaces
<1>3. \A t \in Tasks : /\ Shape(tcbs2[t], pcs[t], ecbs)
                       /\ Unans(tcbs2[t], pcs[t]) <=> Unans(tcbs[t], pcs[t])
                       /\ Runs(tcbs2[t], pcs[t]) <=> Runs(tcbs[t], pcs[t])
  <2> TAKE t \in Tasks
  <2>1. Shape(tcbs[t], pcs[t], ecbs)
    BY DEF Data
  <2> QED
    BY <1>2, <2>1, ShapeOfSame DEF SamePlaces, TypesFor
<1>4. RunSet(tcbs2, pcs) = RunSet(tcbs, pcs)
  BY <1>3 DEF RunSet
<1>5. ASSUME NEW e
      PROVE  WaitSet(tcbs2, pcs, e) = WaitSet(tcbs, pcs, e)
  BY <1>3 DEF WaitSet
<1>6. \A t \in LiveSet(pcs) \ {x} : tcbs2[t].prio = tcbs[t].prio /\ tcbs2[t].prio # q
  BY DEF Moved, LiveSet, Fresh
<1>7. Uniq(tcbs2, pcs) /\ \A t \in LiveSet(pcs) : tcbs2[t].prio \in Prios
  BY <1>1, <1>6 DEF Uniq, Data, Moved
<1>8. rdy2 = PriosOf(tcbs2, RunSet(tcbs2, pcs)) \cup {OS_TASK_IDLE_PRIO}
  <2>1. tcbs[x].prio \in rdy <=> x \in RunSet(tcbs, pcs)
    BY <1>1, InLists DEF RunSet
  <2>2. PriosOf(tcbs2, RunSet(tcbs, pcs)) = IF x \in RunSet(tcbs, pcs)
           THEN (PriosOf(tcbs, RunSet(tcbs, pcs)) \ {tcbs[x].prio}) \cup {q}
           ELSE PriosOf(tcbs, RunSet(tcbs, pcs))
    <3>1. RunSet(tcbs, pcs) \in SUBSET LiveSet(pcs)
      BY SetsAreLive
    <3> QED
      BY <1>1, <1>6, <3>1, PriosMoved DEF Moved
  <2>3. rdy = PriosOf(tcbs, RunSet(tcbs, pcs)) \cup {OS_TASK_IDLE_PRIO}
    BY DEF Data
  <2>4. rdy2 = IF tcbs[x].prio \in rdy THEN (rdy \ {tcbs[x].prio}) \cup {q} ELSE rdy
    BY DEF MovedLists
  <2> QED
    BY <1>1, <1>4, <2>1, <2>2, <2>3, <2>4, IdleIsApart
<1>9. ASSUME NEW e \in Events
      PROVE  tbl2[e] = PriosOf(tcbs2, WaitSet(tcbs2, pcs, e))
  <2>1. PriosOf(tcbs2, WaitSet(tcbs, pcs, e)) = IF x \in WaitSet(tcbs, pcs, e)
           THEN (PriosOf(tcbs, WaitSet(tcbs, pcs, e)) \ {tcbs[x].prio}) \cup {q}
           ELSE PriosOf(tcbs, WaitSet(tcbs, pcs, e))
    BY <1>1, <1>6, PriosMoved, SetsAreLive DEF Moved
  <2>2. tbl[e] = PriosOf(tcbs, WaitSet(tcbs, pcs, e))
    BY DEF Data
  <2>3. tbl2[e] = IF x \in WaitSet(tcbs, pcs, e)
                  THEN (tbl[e] \ {tcbs[x].prio}) \cup {q} ELSE tbl[e]
    BY DEF MovedLists
  <2> QED
    BY <1>5, <2>1, <2>2, <2>3
<1>10. DOMAIN tbl2 = Events
  BY DEF MovedLists
<1> QED
  BY <1>3, <1>7, <1>8, <1>9, <1>10 DEF Data

\* Task x is deleted.
LEMMA DeletedData ==
  ASSUME NEW rdy, NEW tbl, NEW tcbs, NEW pcs, NEW ecbs, Data(rdy, tbl, tcbs, pcs, ecbs),
         NEW x \in LiveSet(pcs), NEW tbl2, NEW tcbs2 \in [Tasks -> OS_TCB], NEW pcs2,
         DOMAIN pcs2 = Tasks, pcs2[x] = Dormant,
         \A t \in Tasks \ {x} : tcbs2[t] = tcbs[t] /\ pcs2[t] = pcs[t],
         DOMAIN tbl2 = Events,
         \A e \in Events : tbl2[e] = tbl[e] \ {tcbs[x].prio}
  PROVE  Data(rdy \ {tcbs[x].prio}, tbl2, tcbs2, pcs2, ecbs)
<1>1. x \in Tasks /\ Uniq(tcbs, pcs) /\ tcbs[x].prio \in Prios
  BY DEF LiveSet, Data
<1>2. LiveSet(pcs2) = LiveSet(pcs) \ {x}
  BY <1>1 DEF LiveSet, Live, Dormant
<1>3. Shape(tcbs2[x], pcs2[x], ecbs) /\ ~Unans(tcbs2[x], pcs2[x]) /\ ~Runs(tcbs2[x], pcs2[x])
  BY DEF Shape, Dormant, Unans, Runs, Live
<1>4. \A t \in Tasks : Shape(tcbs2[t], pcs2[t], ecbs)
  BY <1>3 DEF Data
<1>5. RunSet(tcbs2, pcs2) = RunSet(tcbs, pcs) \ {x}
  BY <1>1, <1>3 DEF RunSet
<1>6. ASSUME NEW e
      PROVE  WaitSet(tcbs2, pcs2, e) = WaitSet(tcbs, pcs, e) \ {x}
  BY <1>1, <1>3 DEF WaitSet
<1>7. Uniq(tcbs2, pcs2) /\ \A t \in LiveSet(pcs2) : tcbs2[t].prio \in Prios
  BY <1>1, <1>2 DEF Uniq, Data, LiveSet
<1>8. ASSUME NEW S \in SUBSET LiveSet(pcs)
      PROVE  PriosOf(tcbs2, S \ {x}) = PriosOf(tcbs, S) \ {tcbs[x].prio}
  <2>1. PriosOf(tcbs2, S \ {x}) = PriosOf(tcbs, S \ {x})
    <3>1. \A t \in S \ {x} : tcbs2[t].prio = tcbs[t].prio
      BY DEF LiveSet
    <3> QED
      BY <3>1, PriosSame
  <2>2. {x} \in SUBSET LiveSet(pcs)
    OBVIOUS
  <2>3. PriosOf(tcbs, {x}) = {tcbs[x].prio}
    BY PriosOfOne
  <2> QED
    BY <1>1, <2>1, <2>2, <2>3, PriosWithout
<1>9. rdy \ {tcbs[x].prio} = PriosOf(tcbs2, RunSet(tcbs2, pcs2)) \cup {OS_TASK_IDLE_PRIO}
  <2>1. rdy = PriosOf(tcbs, RunSet(tcbs, pcs)) \cup {OS_TASK_IDLE_PRIO}
    BY DEF Data
  <2>2. PriosOf(tcbs2, RunSet(tcbs, pcs) \ {x}) = PriosOf(tcbs, RunSet(tcbs, pcs)) \ {tcbs[x].prio}
    BY <1>8, SetsAreLive
  <2> QED
    BY <1>1, <1>5, <2>1, <2>2, IdleIsApart
<1>10. ASSUME NEW e \in Events
       PROVE  tbl2[e] = PriosOf(tcbs2, WaitSet(tcbs2, pcs2, e))
  <2>1. PriosOf(tcbs2, WaitSet(tcbs, pcs, e) \ {x}) = PriosOf(tcbs, WaitSet(tcbs, pcs, e)) \ {tcbs[x].prio}
    BY <1>8, SetsAreLive
  <2> QED
    BY <1>6, <2>1 DEF Data
<1> QED
  BY <1>4, <1>7, <1>9, <1>10 DEF Data

\* Task x is created, ready, at priority q.
LEMMA CreatedData ==
  ASSUME NEW rdy, NEW tbl, NEW tcbs, NEW pcs, NEW ecbs, Data(rdy, tbl, tcbs, pcs, ecbs),
         NEW x \in Tasks, x \notin LiveSet(pcs), NEW q \in Prios, Fresh(q, tcbs, pcs),
         NEW tcbs2 \in [Tasks -> OS_TCB], NEW pcs2,
         DOMAIN pcs2 = Tasks, pcs2[x] = InTask, tcbs2[x] = NewTCB(q),
         \A t \in Tasks \ {x} : tcbs2[t] = tcbs[t] /\ pcs2[t] = pcs[t]
  PROVE  Data(rdy \cup {q}, tbl, tcbs2, pcs2, ecbs)
<1>2. LiveSet(pcs2) = LiveSet(pcs) \cup {x}
  BY DEF LiveSet, Live, InTask
<1>3. Shape(tcbs2[x], pcs2[x], ecbs) /\ ~Unans(tcbs2[x], pcs2[x]) /\ Runs(tcbs2[x], pcs2[x])
  <2>1. OutShape(tcbs2[x]) /\ tcbs2[x].stat = {} /\ tcbs2[x].dly = 0 /\ pcs2[x].at = "task"
    BY DEF NewTCB, OutShape, OS_STAT_RDY, InTask
  <2> QED
    BY <2>1, ShapeOfOut
<1>4. \A t \in Tasks : Shape(tcbs2[t], pcs2[t], ecbs)
  BY <1>3 DEF Data
<1>5. RunSet(tcbs2, pcs2) = RunSet(tcbs, pcs) \cup {x}
  BY <1>3 DEF RunSet
<1>6. ASSUME NEW e
      PROVE  WaitSet(tcbs2, pcs2, e) = WaitSet(tcbs, pcs, e)
  <2>1. x \notin WaitSet(tcbs, pcs, e) /\ x \notin WaitSet(tcbs2, pcs2, e)
    BY <1>3, SetsAreLive DEF WaitSet
  <2> QED
    BY <2>1 DEF WaitSet
<1>7. Uniq(tcbs2, pcs2) /\ \A t \in LiveSet(pcs2) : tcbs2[t].prio \in Prios
  <2>1. tcbs2[x].prio = q /\ \A t \in LiveSet(pcs) : tcbs2[t].prio = tcbs[t].prio /\ tcbs[t].prio # q
    BY DEF NewTCB, Fresh, LiveSet
  <2> QED
    BY <1>2, <2>1 DEF Uniq, Data
<1>8. ASSUME NEW S \in SUBSET LiveSet(pcs)
      PROVE  PriosOf(tcbs2, S) = PriosOf(tcbs, S)
  <2>1. \A t \in S : tcbs2[t].prio = tcbs[t].prio
    BY DEF LiveSet
  <2> QED
    BY <2>1, PriosSame
<1>9. rdy \cup {q} = PriosOf(tcbs2, RunSet(tcbs2, pcs2)) \cup {OS_TASK_IDLE_PRIO}
  <2>1. PriosOf(tcbs2, RunSet(tcbs, pcs) \cup {x}) = PriosOf(tcbs2, RunSet(tcbs, pcs)) \cup {q}
    <3>1. PriosOf(tcbs2, {x}) = {q}
      BY PriosOfOne DEF NewTCB
    <3> QED
      BY <3>1, PriosWith
  <2>2. PriosOf(tcbs2, RunSet(tcbs, pcs)) = PriosOf(tcbs, RunSet(tcbs, pcs))
    BY <1>8, SetsAreLive
  <2> QED
    BY <1>5, <2>1, <2>2 DEF Data
<1>10. \A e \in Events : tbl[e] = PriosOf(tcbs2, WaitSet(tcbs2, pcs2, e))
  BY <1>6, <1>8, SetsAreLive DEF Data
<1> QED
  BY <1>4, <1>7, <1>9, <1>10 DEF Data

\* The events change, but not those that tasks wait for.
LEMMA EventsData ==
  ASSUME NEW rdy, NEW tbl, NEW tcbs, NEW pcs, NEW ecbs, Data(rdy, tbl, tcbs, pcs, ecbs),
         NEW ecbs2, \A t \in Tasks : TypesFor(tcbs[t], pcs[t], ecbs, ecbs2)
  PROVE  Data(rdy, tbl, tcbs, pcs, ecbs2)
<1>1. \A t \in Tasks : Shape(tcbs[t], pcs[t], ecbs2)
  <2> TAKE t \in Tasks
  <2>1. Shape(tcbs[t], pcs[t], ecbs)
    BY DEF Data
  <2> QED
    BY <2>1, ShapeOfSame
<1> QED
  BY <1>1 DEF Data

-----------------------------------------------------------------------------
(* The owners of the mutexes, and the priority table *)

LEMMA CntParts ==
  ASSUME NEW c \in 0..255, NEW p \in 0..255
  PROVE  MutexCnt(c, p) \div 256 = c /\ MutexCnt(c, p) % 256 = p /\ MutexCnt(c, p) \in 0..MaxCnt
<1>1. MutexCnt(c, p) \div 256 = c /\ MutexCnt(c, p) % 256 = p
  BY DEF MutexCnt
<1>2. MutexCnt(c, p) \in Int /\ 0 <= MutexCnt(c, p) /\ MutexCnt(c, p) <= MaxCnt
  BY DEF MutexCnt, MaxCnt
<1>3. MaxCnt \in Int
  BY DEF MaxCnt
<1> QED
  BY <1>1, <1>2, <1>3

Mutexes(ecbs) == {e \in Events : ecbs[e].type = "MUTEX"}
Ceil(m) == m.cnt \div 256
Saved(m) == m.cnt % 256
RaisedIn(m, tcbs) == Ceil(m) # 255 /\ m.ptr \in Tasks /\ tcbs[m.ptr].prio = Ceil(m)
Owns(ecbs, t) == \E e \in Mutexes(ecbs) : ecbs[e].ptr = t
Got(c, k, e) == k.at = "pend" /\ k.svc = "OSMutexPend" /\ e \in k.on /\ ~Unans(c, k)

\* A mutex is free and nobody waits for it, or a task has it that is at its
\* own priority or at the ceiling.
FreeMutex(m) == m.ptr = NULL /\ Saved(m) = 255
OwnedMutex(m, tcbs, pcs) ==
  /\ m.ptr \in LiveSet(pcs) /\ Saved(m) \in Prios /\ Saved(m) # Ceil(m)
  /\ RaisedIn(m, tcbs) \/ tcbs[m.ptr].prio = Saved(m)

OwnersOK(tcbs, pcs, ecbs) ==
  /\ \A e \in Mutexes(ecbs) :
       /\ Ceil(ecbs[e]) \in PCPs
       /\ \/ FreeMutex(ecbs[e]) /\ WaitSet(tcbs, pcs, e) = {}
          \/ OwnedMutex(ecbs[e], tcbs, pcs)
  /\ \A e, f \in Mutexes(ecbs) :
       Ceil(ecbs[e]) = Ceil(ecbs[f]) /\ Ceil(ecbs[e]) # 255 => e = f

HoldsOK(tcbs, pcs, ecbs, hs) ==
  /\ hs \in [Tasks -> SUBSET Events]
  /\ \A t \in Tasks : \A e \in hs[t] : e \in Mutexes(ecbs) /\ ecbs[e].ptr = t
  /\ \A e \in Mutexes(ecbs), t \in Tasks :
       /\ ecbs[e].ptr = t => e \in hs[t] \/ Got(tcbs[t], pcs[t], e)
       /\ Got(tcbs[t], pcs[t], e) => ecbs[e].ptr = t
  /\ \A t \in Tasks : pcs[t].at = "pend" => hs[t] = {}
  /\ \A t \in Tasks : \A e, f \in hs[t] : e = f

TableOK(table, tcbs, pcs, ecbs) ==
  /\ table \in [AllPrios -> Tasks \cup {IdleTask, NULL, OS_TCB_RESERVED}]
  /\ \A p \in AllPrios : table[p] = IdleTask <=> p = OS_TASK_IDLE_PRIO
  /\ \A p \in Prios, t \in Tasks : table[p] = t <=>
       /\ t \in LiveSet(pcs)
       /\ \/ tcbs[t].prio = p
          \/ \E e \in Mutexes(ecbs) :
               ecbs[e].ptr = t /\ RaisedIn(ecbs[e], tcbs) /\ Saved(ecbs[e]) = p
  /\ \A p \in Prios : table[p] = OS_TCB_RESERVED <=>
       \E e \in Mutexes(ecbs) : Ceil(ecbs[e]) = p /\ ~RaisedIn(ecbs[e], tcbs)

\* A task that is inside OSMutexPend is so for one event.
LEMMA GotOne ==
  ASSUME NEW c, NEW k, NEW ecbs, Shape(c, k, ecbs), NEW e, Got(c, k, e)
  PROVE  k.on = {e} /\ k.at = "pend" /\ ~Unans(c, k)
BY DEF Got, Shape, SingleShape

\* No task has two mutexes.
LEMMA OwnsOne ==
  ASSUME NEW tcbs, NEW pcs, NEW ecbs, NEW hs, HoldsOK(tcbs, pcs, ecbs, hs),
         \A t \in Tasks : Shape(tcbs[t], pcs[t], ecbs),
         NEW e \in Mutexes(ecbs), NEW f \in Mutexes(ecbs), NEW t \in Tasks,
         ecbs[e].ptr = t, ecbs[f].ptr = t
  PROVE  e = f
<1>1. e \in hs[t] \/ Got(tcbs[t], pcs[t], e)
  BY DEF HoldsOK
<1>2. f \in hs[t] \/ Got(tcbs[t], pcs[t], f)
  BY DEF HoldsOK
<1>3. CASE e \in hs[t] /\ f \in hs[t]
  BY <1>3 DEF HoldsOK
<1>4. CASE Got(tcbs[t], pcs[t], e)
  <2>1. pcs[t].at = "pend" /\ hs[t] = {} /\ pcs[t].on = {e}
    BY <1>4, GotOne DEF HoldsOK
  <2> QED
    BY <1>2, <2>1, GotOne
<1>5. CASE Got(tcbs[t], pcs[t], f)
  <2>1. pcs[t].at = "pend" /\ hs[t] = {} /\ pcs[t].on = {f}
    BY <1>5, GotOne DEF HoldsOK
  <2> QED
    BY <1>1, <2>1, GotOne
<1> QED
  BY <1>1, <1>2, <1>3, <1>4, <1>5

\* A task without a mutex: it holds none and nobody was given one.
LEMMA HoldersOwn ==
  ASSUME NEW tcbs, NEW pcs, NEW ecbs, NEW hs, HoldsOK(tcbs, pcs, ecbs, hs), NEW t \in Tasks
  PROVE  /\ hs[t] # {} => Owns(ecbs, t)
         /\ pcs[t].at # "pend" /\ Owns(ecbs, t) => hs[t] # {}
BY DEF HoldsOK, Owns, Got, Mutexes

\* The steps of other services leave the mutexes and their owners alone.
SameMutexes(tcbs, pcs, ecbs, tcbs2, pcs2, ecbs2) ==
  /\ Mutexes(ecbs2) = Mutexes(ecbs)
  /\ \A e \in Mutexes(ecbs) :
       /\ ecbs2[e] = ecbs[e]
       /\ WaitSet(tcbs2, pcs2, e) \subseteq WaitSet(tcbs, pcs, e)
       /\ \A t \in Tasks : Got(tcbs2[t], pcs2[t], e) <=> Got(tcbs[t], pcs[t], e)
  /\ \A t \in Tasks : Owns(ecbs, t) =>
       /\ tcbs2[t].prio = tcbs[t].prio
       /\ Live(pcs2[t])
       /\ pcs2[t].at = "pend" => pcs[t].at = "pend"

LEMMA SameOwners ==
  ASSUME NEW tcbs, NEW pcs, NEW ecbs, NEW hs, NEW tcbs2, NEW pcs2, NEW ecbs2,
         OwnersOK(tcbs, pcs, ecbs), HoldsOK(tcbs, pcs, ecbs, hs),
         SameMutexes(tcbs, pcs, ecbs, tcbs2, pcs2, ecbs2)
  PROVE  OwnersOK(tcbs2, pcs2, ecbs2) /\ HoldsOK(tcbs2, pcs2, ecbs2, hs)
<1>1. Mutexes(ecbs2) = Mutexes(ecbs) /\ \A e \in Mutexes(ecbs) : ecbs2[e] = ecbs[e]
  BY DEF SameMutexes
<1>2. \A e \in Mutexes(ecbs) : ecbs[e].ptr \in Tasks => Owns(ecbs, ecbs[e].ptr)
  BY DEF Owns
<1>3. ASSUME NEW e \in Mutexes(ecbs), OwnedMutex(ecbs[e], tcbs, pcs)
      PROVE  OwnedMutex(ecbs[e], tcbs2, pcs2)
  <2>1. ecbs[e].ptr \in Tasks
    BY <1>3 DEF OwnedMutex, LiveSet
  <2> QED
    BY <1>2, <1>3, <2>1 DEF OwnedMutex, SameMutexes, LiveSet, RaisedIn
<1>4. ASSUME NEW e \in Mutexes(ecbs), WaitSet(tcbs, pcs, e) = {}
      PROVE  WaitSet(tcbs2, pcs2, e) = {}
  BY <1>4 DEF SameMutexes
<1>5. OwnersOK(tcbs2, pcs2, ecbs2)
  BY <1>1, <1>3, <1>4 DEF OwnersOK
<1>6. ASSUME NEW t \in Tasks, pcs2[t].at = "pend"
      PROVE  hs[t] = {}
  <2>1. hs[t] # {} => Owns(ecbs, t)
    BY HoldersOwn
  <2> QED
    BY <1>6, <2>1 DEF SameMutexes, HoldsOK
<1>7. \A e \in Mutexes(ecbs), t \in Tasks : Got(tcbs2[t], pcs2[t], e) <=> Got(tcbs[t], pcs[t], e)
  BY DEF SameMutexes
<1>8. HoldsOK(tcbs2, pcs2, ecbs2, hs)
  BY <1>1, <1>6, <1>7 DEF HoldsOK
<1> QED
  BY <1>5, <1>8

LEMMA SameTable ==
  ASSUME NEW table, NEW tcbs, NEW pcs, NEW ecbs, NEW tcbs2, NEW pcs2, NEW ecbs2,
         TableOK(table, tcbs, pcs, ecbs), Kept(tcbs, pcs, tcbs2, pcs2),
         Mutexes(ecbs2) = Mutexes(ecbs), \A e \in Mutexes(ecbs) : ecbs2[e] = ecbs[e]
  PROVE  TableOK(table, tcbs2, pcs2, ecbs2)
<1>1. LiveSet(pcs2) = LiveSet(pcs)
  BY DEF Kept, LiveSet
<1>2. \A e \in Mutexes(ecbs) : RaisedIn(ecbs2[e], tcbs2) <=> RaisedIn(ecbs[e], tcbs)
  BY DEF RaisedIn, Kept
<1>3. \A t \in Tasks : tcbs2[t].prio = tcbs[t].prio
  BY DEF Kept
<1> QED
  BY <1>1, <1>2, <1>3 DEF TableOK

LEMMA Constants ==
  /\ IdleTask \notin Tasks /\ NULL \notin Tasks /\ NULL # IdleTask
  /\ OS_TCB_RESERVED \notin Tasks /\ OS_TCB_RESERVED # IdleTask /\ OS_TCB_RESERVED # NULL
  /\ Prios \subseteq AllPrios /\ OS_TASK_IDLE_PRIO \in AllPrios /\ OS_TASK_IDLE_PRIO \notin Prios
  /\ NULL \notin Events
BY TasksAssumption, IdleIsApart DEF AllPrios

\* OSTCBPrioTbl gives a task under its priority, so that no task has a
\* priority under which the table has nothing or a reservation.
LEMMA TableGives ==
  ASSUME NEW table, NEW tcbs, NEW pcs, NEW ecbs, TableOK(table, tcbs, pcs, ecbs)
  PROVE  /\ \A t \in LiveSet(pcs) : tcbs[t].prio \in Prios => table[tcbs[t].prio] = t
         /\ \A p \in Prios : table[p] \notin Tasks => Fresh(p, tcbs, pcs)
<1>1. \A t \in LiveSet(pcs) : tcbs[t].prio \in Prios => table[tcbs[t].prio] = t
  BY SetsAreLive DEF TableOK
<1>2. \A t \in LiveSet(pcs) : t \in Tasks
  BY DEF LiveSet
<1> QED
  BY <1>1, <1>2 DEF Fresh

\* A task that owns no mutex is in the table under its priority alone.
LEMMA TableGivesOnce ==
  ASSUME NEW table, NEW tcbs, NEW pcs, NEW ecbs, TableOK(table, tcbs, pcs, ecbs),
         NEW p \in Prios, NEW x \in Tasks, table[p] = x, ~Owns(ecbs, x)
  PROVE  x \in LiveSet(pcs) /\ tcbs[x].prio = p /\ \A q \in Prios : table[q] = x => q = p
BY DEF TableOK, Owns

\* A task x is moved, deleted or created: the table changes where it is or
\* where nothing was.
Repointed(x, table, table2, tcbs2, pcs2) ==
  /\ table2 \in [AllPrios -> Tasks \cup {IdleTask, NULL, OS_TCB_RESERVED}]
  /\ \A r \in AllPrios : table2[r] # table[r] =>
       r \in Prios /\ table[r] \in {x, NULL} /\ table2[r] \in {x, NULL}
  /\ \A r \in Prios : table2[r] = x <=> x \in LiveSet(pcs2) /\ tcbs2[x].prio = r

LEMMA TableOfOne ==
  ASSUME NEW table, NEW tcbs, NEW pcs, NEW ecbs, TableOK(table, tcbs, pcs, ecbs),
         NEW x \in Tasks, ~Owns(ecbs, x), NEW tcbs2, NEW pcs2,
         \A t \in Tasks \ {x} : tcbs2[t] = tcbs[t] /\ pcs2[t] = pcs[t],
         NEW table2, Repointed(x, table, table2, tcbs2, pcs2)
  PROVE  TableOK(table2, tcbs2, pcs2, ecbs)
<1>1. \A e \in Mutexes(ecbs) : ecbs[e].ptr # x
  BY DEF Owns
<1>2. \A e \in Mutexes(ecbs) : RaisedIn(ecbs[e], tcbs2) <=> RaisedIn(ecbs[e], tcbs)
  BY <1>1 DEF RaisedIn
<1>3. ASSUME NEW r \in AllPrios
      PROVE  table2[r] = IdleTask <=> r = OS_TASK_IDLE_PRIO
  BY Constants DEF TableOK, Repointed
<1>4. ASSUME NEW r \in Prios
      PROVE  table2[r] = OS_TCB_RESERVED <=>
               \E e \in Mutexes(ecbs) : Ceil(ecbs[e]) = r /\ ~RaisedIn(ecbs[e], tcbs2)
  <2>1. table[r] = OS_TCB_RESERVED <=>
          \E e \in Mutexes(ecbs) : Ceil(ecbs[e]) = r /\ ~RaisedIn(ecbs[e], tcbs2)
    BY <1>2 DEF TableOK
  <2>2. table2[r] = OS_TCB_RESERVED <=> table[r] = OS_TCB_RESERVED
    BY Constants DEF Repointed
  <2> QED
    BY <2>1, <2>2
<1>5. ASSUME NEW r \in Prios, NEW t \in Tasks
      PROVE  table2[r] = t <=>
               /\ t \in LiveSet(pcs2)
               /\ \/ tcbs2[t].prio = r
                  \/ \E e \in Mutexes(ecbs) :
                       ecbs[e].ptr = t /\ RaisedIn(ecbs[e], tcbs2) /\ Saved(ecbs[e]) = r
  <2>1. CASE t = x
    BY <1>1, <2>1 DEF Repointed
  <2>2. CASE t # x
    <3>1. table2[r] = t <=> table[r] = t
      BY <2>2, Constants DEF Repointed
    <3>2. tcbs2[t].prio = tcbs[t].prio /\ (t \in LiveSet(pcs2) <=> t \in LiveSet(pcs))
      BY <2>2 DEF LiveSet
    <3>3. table[r] = t <=>
            /\ t \in LiveSet(pcs)
            /\ \/ tcbs[t].prio = r
               \/ \E e \in Mutexes(ecbs) :
                    ecbs[e].ptr = t /\ RaisedIn(ecbs[e], tcbs) /\ Saved(ecbs[e]) = r
      BY DEF TableOK
    <3> QED
      BY <1>2, <3>1, <3>2, <3>3
  <2> QED
    BY <2>1, <2>2
<1> QED
  BY <1>3, <1>4, <1>5 DEF TableOK, Repointed

LEMMA MovedTable ==
  ASSUME NEW table, NEW tcbs, NEW pcs, NEW ecbs, TableOK(table, tcbs, pcs, ecbs),
         NEW p \in Prios, NEW q \in Prios, NEW x \in Tasks,
         table[p] = x, ~Owns(ecbs, x), table[q] = NULL,
         NEW tcbs2, Moved(x, q, tcbs, tcbs2)
  PROVE  TableOK([table EXCEPT ![p] = NULL, ![q] = x], tcbs2, pcs, ecbs)
<1> DEFINE table2 == [table EXCEPT ![p] = NULL, ![q] = x]
<1>1. x \in LiveSet(pcs) /\ \A r \in Prios : table[r] = x => r = p
  BY TableGivesOnce
<1>2. p # q
  BY Constants
<1>3. table \in [AllPrios -> Tasks \cup {IdleTask, NULL, OS_TCB_RESERVED}]
  BY DEF TableOK
<1>4. table2 \in [AllPrios -> Tasks \cup {IdleTask, NULL, OS_TCB_RESERVED}]
  BY <1>3, Constants
<1>5. table2[p] = NULL /\ table2[q] = x /\ \A r \in AllPrios \ {p, q} : table2[r] = table[r]
  BY <1>2, <1>3, Constants
<1> HIDE DEF table2
<1>6. \A r \in Prios : table2[r] = x <=> x \in LiveSet(pcs) /\ tcbs2[x].prio = r
  BY <1>1, <1>5, Constants DEF Moved
<1>7. Repointed(x, table, table2, tcbs2, pcs)
  BY <1>4, <1>5, <1>6 DEF Repointed
<1>8. TableOK(table2, tcbs2, pcs, ecbs)
  BY <1>7, TableOfOne DEF Moved
<1> QED
  BY <1>8 DEF table2

LEMMA DeletedTable ==
  ASSUME NEW table, NEW tcbs, NEW pcs, NEW ecbs, TableOK(table, tcbs, pcs, ecbs),
         NEW p \in Prios, NEW x \in Tasks, table[p] = x, ~Owns(ecbs, x),
         NEW tcbs2, NEW pcs2, pcs2[x] = Dormant,
         \A t \in Tasks \ {x} : tcbs2[t] = tcbs[t] /\ pcs2[t] = pcs[t]
  PROVE  TableOK([table EXCEPT ![p] = NULL], tcbs2, pcs2, ecbs)
<1> DEFINE table2 == [table EXCEPT ![p] = NULL]
<1>1. \A r \in Prios : table[r] = x => r = p
  BY TableGivesOnce
<1>2. x \notin LiveSet(pcs2)
  BY DEF LiveSet, Live, Dormant
<1>3. table \in [AllPrios -> Tasks \cup {IdleTask, NULL, OS_TCB_RESERVED}]
  BY DEF TableOK
<1>4. table2 \in [AllPrios -> Tasks \cup {IdleTask, NULL, OS_TCB_RESERVED}]
  BY <1>3, Constants
<1>5. table2[p] = NULL /\ \A r \in AllPrios \ {p} : table2[r] = table[r]
  BY <1>3, Constants
<1> HIDE DEF table2
<1>6. \A r \in Prios : table2[r] = x <=> x \in LiveSet(pcs2) /\ tcbs2[x].prio = r
  BY <1>1, <1>2, <1>5, Constants
<1>7. Repointed(x, table, table2, tcbs2, pcs2)
  BY <1>4, <1>5, <1>6 DEF Repointed
<1>8. TableOK(table2, tcbs2, pcs2, ecbs)
  BY <1>7, TableOfOne
<1> QED
  BY <1>8 DEF table2

LEMMA CreatedTable ==
  ASSUME NEW table, NEW tcbs, NEW pcs, NEW ecbs, TableOK(table, tcbs, pcs, ecbs),
         NEW p \in Prios, NEW x \in Tasks, table[p] = NULL, x \notin LiveSet(pcs), ~Owns(ecbs, x),
         NEW tcbs2, NEW pcs2, pcs2[x] = InTask, tcbs2[x].prio = p,
         \A t \in Tasks \ {x} : tcbs2[t] = tcbs[t] /\ pcs2[t] = pcs[t]
  PROVE  TableOK([table EXCEPT ![p] = x], tcbs2, pcs2, ecbs)
<1> DEFINE table2 == [table EXCEPT ![p] = x]
<1>1. \A r \in Prios : table[r] # x
  BY DEF TableOK
<1>2. x \in LiveSet(pcs2)
  BY DEF LiveSet, Live, InTask
<1>3. table \in [AllPrios -> Tasks \cup {IdleTask, NULL, OS_TCB_RESERVED}]
  BY DEF TableOK
<1>4. table2 \in [AllPrios -> Tasks \cup {IdleTask, NULL, OS_TCB_RESERVED}]
  BY <1>3, Constants
<1>5. table2[p] = x /\ \A r \in AllPrios \ {p} : table2[r] = table[r]
  BY <1>3, Constants
<1> HIDE DEF table2
<1>6. \A r \in Prios : table2[r] = x <=> x \in LiveSet(pcs2) /\ tcbs2[x].prio = r
  BY <1>1, <1>2, <1>5, Constants
<1>7. Repointed(x, table, table2, tcbs2, pcs2)
  BY <1>4, <1>5, <1>6 DEF Repointed
<1>8. TableOK(table2, tcbs2, pcs2, ecbs)
  BY <1>7, TableOfOne
<1> QED
  BY <1>8 DEF table2

-----------------------------------------------------------------------------
(* What each operation does to a mutex *)

MutexIs(m, c, p, t) == m.type = "MUTEX" /\ Ceil(m) = c /\ Saved(m) = p /\ m.ptr = t

OthersKept(e, ecbs, ecbs2) == \A f \in Events \ {e} : ecbs2[f] = ecbs[f]

LEMMA CeilIsPrio ==
  ASSUME NEW c \in PCPs
  PROVE  c \in 0..255 /\ (c # 255 => c \in Prios)
BY TasksAssumption, MutexAssumption

\* Nobody has the priority of a ceiling to which no owner is raised.
LEMMA NoneAtCeiling ==
  ASSUME NEW table, NEW tcbs, NEW pcs, NEW ecbs, TableOK(table, tcbs, pcs, ecbs),
         OwnersOK(tcbs, pcs, ecbs), NEW e \in Mutexes(ecbs), ~RaisedIn(ecbs[e], tcbs),
         Ceil(ecbs[e]) # 255
  PROVE  /\ Ceil(ecbs[e]) \in Prios /\ table[Ceil(ecbs[e])] = OS_TCB_RESERVED
         /\ Fresh(Ceil(ecbs[e]), tcbs, pcs)
<1>1. Ceil(ecbs[e]) \in Prios
  BY CeilIsPrio DEF OwnersOK
<1>2. table[Ceil(ecbs[e])] = OS_TCB_RESERVED
  BY <1>1 DEF TableOK
<1> QED
  BY <1>1, <1>2, TableGives, Constants

\* An owner that is not raised, before or after a change of its mutex.
LEMMA MutexTable ==
  ASSUME NEW table, NEW tcbs, NEW pcs, NEW ecbs, TableOK(table, tcbs, pcs, ecbs),
         NEW tcbs2, NEW pcs2, NEW ecbs2, Kept(tcbs, pcs, tcbs2, pcs2),
         NEW e \in Mutexes(ecbs), OthersKept(e, ecbs, ecbs2),
         ecbs2[e].type = "MUTEX", Ceil(ecbs2[e]) = Ceil(ecbs[e]),
         ~RaisedIn(ecbs[e], tcbs), ~RaisedIn(ecbs2[e], tcbs2)
  PROVE  TableOK(table, tcbs2, pcs2, ecbs2)
<1>1. LiveSet(pcs2) = LiveSet(pcs) /\ \A t \in Tasks : tcbs2[t].prio = tcbs[t].prio
  BY DEF Kept, LiveSet
<1>2. Mutexes(ecbs2) = Mutexes(ecbs)
  BY DEF Mutexes, OthersKept
<1>3. \A f \in Mutexes(ecbs) \ {e} : /\ ecbs2[f] = ecbs[f]
                                     /\ RaisedIn(ecbs2[f], tcbs2) <=> RaisedIn(ecbs[f], tcbs)
  BY <1>1 DEF RaisedIn, OthersKept, Mutexes
<1>4. ASSUME NEW p \in Prios, NEW t \in Tasks
      PROVE  table[p] = t <=>
               /\ t \in LiveSet(pcs2)
               /\ \/ tcbs2[t].prio = p
                  \/ \E f \in Mutexes(ecbs2) :
                       ecbs2[f].ptr = t /\ RaisedIn(ecbs2[f], tcbs2) /\ Saved(ecbs2[f]) = p
  <2>1. (\E f \in Mutexes(ecbs2) :
           ecbs2[f].ptr = t /\ RaisedIn(ecbs2[f], tcbs2) /\ Saved(ecbs2[f]) = p)
        <=> \E f \in Mutexes(ecbs) :
              ecbs[f].ptr = t /\ RaisedIn(ecbs[f], tcbs) /\ Saved(ecbs[f]) = p
    BY <1>2, <1>3
  <2> QED
    BY <1>1, <2>1 DEF TableOK
<1>5. ASSUME NEW p \in Prios
      PROVE  table[p] = OS_TCB_RESERVED <=>
               \E f \in Mutexes(ecbs2) : Ceil(ecbs2[f]) = p /\ ~RaisedIn(ecbs2[f], tcbs2)
  <2>1. (\E f \in Mutexes(ecbs2) : Ceil(ecbs2[f]) = p /\ ~RaisedIn(ecbs2[f], tcbs2))
        <=> \E f \in Mutexes(ecbs) : Ceil(ecbs[f]) = p /\ ~RaisedIn(ecbs[f], tcbs)
    BY <1>2, <1>3
  <2> QED
    BY <2>1 DEF TableOK
<1> QED
  BY <1>4, <1>5 DEF TableOK

\* OSMutexCreate: event e, which nobody waits for, becomes a mutex with this ceiling.
Creates(e, pcp, table, tcbs, pcs, ecbs, ecbs2) ==
  /\ e \in Events /\ e \notin Mutexes(ecbs) /\ OthersKept(e, ecbs, ecbs2)
  /\ MutexIs(ecbs2[e], pcp, 255, NULL)
  /\ pcp \in PCPs /\ (pcp # 255 => table[pcp] = NULL)
  /\ WaitSet(tcbs, pcs, e) = {}
  /\ \A t \in Tasks : pcs[t].at = "pend" /\ pcs[t].svc = "OSMutexPend" => e \notin pcs[t].on

LEMMA CreatedMutex ==
  ASSUME NEW table, NEW tcbs, NEW pcs, NEW ecbs, NEW hs, TableOK(table, tcbs, pcs, ecbs),
         OwnersOK(tcbs, pcs, ecbs), HoldsOK(tcbs, pcs, ecbs, hs),
         NEW e, NEW pcp, NEW ecbs2, Creates(e, pcp, table, tcbs, pcs, ecbs, ecbs2)
  PROVE  /\ OwnersOK(tcbs, pcs, ecbs2) /\ HoldsOK(tcbs, pcs, ecbs2, hs)
         /\ TableOK(IF pcp = 255 THEN table ELSE [table EXCEPT ![pcp] = OS_TCB_RESERVED],
                    tcbs, pcs, ecbs2)
<1>0. /\ e \in Events /\ e \notin Mutexes(ecbs) /\ OthersKept(e, ecbs, ecbs2)
      /\ MutexIs(ecbs2[e], pcp, 255, NULL)
      /\ pcp \in PCPs /\ (pcp # 255 => table[pcp] = NULL)
      /\ WaitSet(tcbs, pcs, e) = {}
      /\ \A t \in Tasks : pcs[t].at = "pend" /\ pcs[t].svc = "OSMutexPend" => e \notin pcs[t].on
  BY DEF Creates
<1> USE <1>0
<1>1. Mutexes(ecbs2) = Mutexes(ecbs) \cup {e} /\ \A f \in Mutexes(ecbs) : ecbs2[f] = ecbs[f]
  BY DEF Mutexes, MutexIs, OthersKept
<1>2. FreeMutex(ecbs2[e]) /\ ~RaisedIn(ecbs2[e], tcbs) /\ Ceil(ecbs2[e]) = pcp
  BY Constants DEF FreeMutex, MutexIs, RaisedIn
<1>3. ASSUME NEW f \in Mutexes(ecbs), Ceil(ecbs[f]) = pcp, pcp # 255
      PROVE  FALSE
  <2>1. pcp \in Prios
    BY <1>3, CeilIsPrio
  <2>2. CASE RaisedIn(ecbs[f], tcbs)
    <3>1. ecbs[f].ptr \in LiveSet(pcs) /\ tcbs[ecbs[f].ptr].prio = pcp
      BY <1>3, <2>2, Constants DEF OwnersOK, FreeMutex, OwnedMutex, RaisedIn
    <3>2. ecbs[f].ptr \in Tasks
      BY <2>2 DEF RaisedIn
    <3> QED
      BY <1>3, <2>1, <3>1, <3>2, TableGives, Constants
  <2>3. CASE ~RaisedIn(ecbs[f], tcbs)
    BY <1>3, <2>1, <2>3, Constants DEF TableOK
  <2> QED
    BY <2>2, <2>3
<1>4. OwnersOK(tcbs, pcs, ecbs2)
  BY <1>1, <1>2, <1>3 DEF OwnersOK
<1>5. HoldsOK(tcbs, pcs, ecbs2, hs)
  <2>1. \A t \in Tasks : ~Got(tcbs[t], pcs[t], e) /\ ecbs2[e].ptr # t
    BY <1>2, Constants DEF Got, FreeMutex
  <2>2. ASSUME NEW f \in Mutexes(ecbs2), NEW t \in Tasks
        PROVE  /\ ecbs2[f].ptr = t => f \in hs[t] \/ Got(tcbs[t], pcs[t], f)
               /\ Got(tcbs[t], pcs[t], f) => ecbs2[f].ptr = t
    BY <1>1, <2>1 DEF HoldsOK
  <2> QED
    BY <1>1, <2>2 DEF HoldsOK
<1>6. \A f \in Mutexes(ecbs) : RaisedIn(ecbs2[f], tcbs) <=> RaisedIn(ecbs[f], tcbs)
  BY <1>1
<1>7. ASSUME NEW p \in Prios, NEW t \in Tasks
      PROVE  table[p] = t <=>
               /\ t \in LiveSet(pcs)
               /\ \/ tcbs[t].prio = p
                  \/ \E f \in Mutexes(ecbs2) :
                       ecbs2[f].ptr = t /\ RaisedIn(ecbs2[f], tcbs) /\ Saved(ecbs2[f]) = p
  BY <1>1, <1>2 DEF TableOK
<1>8. CASE pcp = 255
  <2>1. ASSUME NEW p \in Prios
        PROVE  table[p] = OS_TCB_RESERVED <=>
                 \E f \in Mutexes(ecbs2) : Ceil(ecbs2[f]) = p /\ ~RaisedIn(ecbs2[f], tcbs)
    <3>1. p # 255
      BY TasksAssumption
    <3> QED
      BY <1>1, <1>2, <1>8, <3>1 DEF TableOK
  <2> QED
    BY <1>4, <1>5, <1>7, <1>8, <2>1 DEF TableOK
<1>9. CASE pcp # 255
  <2> DEFINE table2 == [table EXCEPT ![pcp] = OS_TCB_RESERVED]
  <2>1. pcp \in Prios /\ table[pcp] = NULL
    BY <1>9, CeilIsPrio
  <2>2. table \in [AllPrios -> Tasks \cup {IdleTask, NULL, OS_TCB_RESERVED}]
    BY DEF TableOK
  <2>3. table2 \in [AllPrios -> Tasks \cup {IdleTask, NULL, OS_TCB_RESERVED}]
    BY <2>1, <2>2, Constants
  <2>4. table2[pcp] = OS_TCB_RESERVED /\ \A r \in AllPrios \ {pcp} : table2[r] = table[r]
    BY <2>1, <2>2, Constants
  <2> HIDE DEF table2
  <2>5. \A r \in AllPrios : table2[r] = IdleTask <=> r = OS_TASK_IDLE_PRIO
    BY <2>1, <2>4, Constants DEF TableOK
  <2>6. \A r \in Prios, t \in Tasks : table2[r] = t <=> table[r] = t
    BY <2>1, <2>4, Constants
  <2>7. ASSUME NEW p \in Prios
        PROVE  table2[p] = OS_TCB_RESERVED <=>
                 \E f \in Mutexes(ecbs2) : Ceil(ecbs2[f]) = p /\ ~RaisedIn(ecbs2[f], tcbs)
    <3>1. table[p] = OS_TCB_RESERVED <=>
            \E f \in Mutexes(ecbs) : Ceil(ecbs[f]) = p /\ ~RaisedIn(ecbs[f], tcbs)
      BY DEF TableOK
    <3>2. table2[p] = OS_TCB_RESERVED <=> table[p] = OS_TCB_RESERVED \/ p = pcp
      BY <2>1, <2>4, Constants
    <3> QED
      BY <1>1, <1>2, <1>6, <3>1, <3>2
  <2>8. TableOK(table2, tcbs, pcs, ecbs2)
    BY <1>7, <2>3, <2>5, <2>6, <2>7 DEF TableOK
  <2> QED
    BY <1>4, <1>5, <1>9, <2>8 DEF table2
<1> QED
  BY <1>8, <1>9

\* The running task takes a free mutex.
LEMMA TakenMutex ==
  ASSUME NEW table, NEW tcbs, NEW pcs, NEW ecbs, NEW hs, TableOK(table, tcbs, pcs, ecbs),
         OwnersOK(tcbs, pcs, ecbs), HoldsOK(tcbs, pcs, ecbs, hs),
         NEW x \in LiveSet(pcs), tcbs[x].prio \in Prios, pcs[x].at # "pend", hs[x] = {},
         NEW e \in Mutexes(ecbs), Saved(ecbs[e]) = 255,
         NEW ecbs2, OthersKept(e, ecbs, ecbs2), MutexIs(ecbs2[e], Ceil(ecbs[e]), tcbs[x].prio, x),
         NEW pcs2, pcs2[x].at = "returned", \A t \in Tasks \ {x} : pcs2[t] = pcs[t]
  PROVE  /\ OwnersOK(tcbs, pcs2, ecbs2) /\ TableOK(table, tcbs, pcs2, ecbs2)
         /\ HoldsOK(tcbs, pcs2, ecbs2, [hs EXCEPT ![x] = @ \cup {e}])
<1>1. x \in Tasks /\ LiveSet(pcs2) = LiveSet(pcs)
  BY DEF LiveSet, Live
<1>2. Mutexes(ecbs2) = Mutexes(ecbs) /\ \A f \in Mutexes(ecbs) \ {e} : ecbs2[f] = ecbs[f]
  BY DEF Mutexes, MutexIs, OthersKept
<1>3. FreeMutex(ecbs[e]) /\ WaitSet(tcbs, pcs, e) = {}
  <2>1. 255 \notin Prios
    BY TasksAssumption
  <2> QED
    BY <2>1 DEF OwnersOK, OwnedMutex
<1>4. ~RaisedIn(ecbs[e], tcbs)
  BY <1>3, Constants DEF FreeMutex, RaisedIn
<1>5. ~RaisedIn(ecbs2[e], tcbs)
  BY <1>4, NoneAtCeiling DEF RaisedIn, MutexIs, Fresh
<1>6. TableOK(table, tcbs, pcs2, ecbs2)
  <2>1. Kept(tcbs, pcs, tcbs, pcs2)
    BY <1>1 DEF Kept, LiveSet
  <2> QED
    BY <1>4, <1>5, <2>1, MutexTable DEF MutexIs
<1>7. \A t \in Tasks : \A f :
        /\ Unans(tcbs[t], pcs2[t]) /\ f \in pcs2[t].on => Unans(tcbs[t], pcs[t]) /\ f \in pcs[t].on
        /\ Got(tcbs[t], pcs2[t], f) <=> Got(tcbs[t], pcs[t], f)
  BY DEF Unans, Got
<1>8. ASSUME NEW f \in Events
      PROVE  WaitSet(tcbs, pcs2, f) \subseteq WaitSet(tcbs, pcs, f)
  BY <1>7 DEF WaitSet
<1>9. OwnersOK(tcbs, pcs2, ecbs2)
  <2>1. OwnedMutex(ecbs2[e], tcbs, pcs2)
    <3>1. tcbs[x].prio # Ceil(ecbs[e])
      <4>1. 255 \notin Prios
        BY TasksAssumption
      <4> QED
        BY <1>4, <4>1, NoneAtCeiling DEF Fresh
    <3> QED
      BY <1>1, <3>1 DEF OwnedMutex, MutexIs
  <2>2. ASSUME NEW f \in Mutexes(ecbs), f # e
        PROVE  (FreeMutex(ecbs2[f]) /\ WaitSet(tcbs, pcs2, f) = {}) \/ OwnedMutex(ecbs2[f], tcbs, pcs2)
    <3>1. (FreeMutex(ecbs[f]) /\ WaitSet(tcbs, pcs, f) = {}) \/ OwnedMutex(ecbs[f], tcbs, pcs)
      BY DEF OwnersOK
    <3>2. ecbs2[f] = ecbs[f] /\ f \in Events
      BY <1>2, <2>2 DEF Mutexes
    <3>3. WaitSet(tcbs, pcs, f) = {} => WaitSet(tcbs, pcs2, f) = {}
      BY <1>8, <3>2
    <3>4. OwnedMutex(ecbs[f], tcbs, pcs) => OwnedMutex(ecbs[f], tcbs, pcs2)
      BY <1>1 DEF OwnedMutex
    <3> QED
      BY <3>1, <3>2, <3>3, <3>4
  <2>3. \A f \in Mutexes(ecbs) : Ceil(ecbs2[f]) = Ceil(ecbs[f])
    BY <1>2 DEF MutexIs
  <2> QED
    BY <1>2, <2>1, <2>2, <2>3 DEF OwnersOK
<1>10. HoldsOK(tcbs, pcs2, ecbs2, [hs EXCEPT ![x] = @ \cup {e}])
  <2> DEFINE hs2 == [hs EXCEPT ![x] = @ \cup {e}]
  <2>1. hs \in [Tasks -> SUBSET Events] /\ e \in Events
    BY DEF HoldsOK, Mutexes
  <2>2. hs2 \in [Tasks -> SUBSET Events] /\ hs2[x] = {e} /\ \A t \in Tasks \ {x} : hs2[t] = hs[t]
    BY <1>1, <2>1
  <2> HIDE DEF hs2
  <2>3. \A t \in Tasks : e \notin hs[t] /\ ~Got(tcbs[t], pcs[t], e)
    BY <1>3, Constants DEF HoldsOK, FreeMutex
  <2>4. \A t \in Tasks : \A f \in hs2[t] : f \in Mutexes(ecbs2) /\ ecbs2[f].ptr = t
    <3> TAKE t \in Tasks
    <3>1. CASE t = x
      BY <1>2, <2>2, <3>1 DEF MutexIs
    <3>2. CASE t # x
      BY <1>2, <2>2, <2>3, <3>2 DEF HoldsOK
    <3> QED
      BY <3>1, <3>2
  <2>5. ASSUME NEW f \in Mutexes(ecbs2), NEW t \in Tasks
        PROVE  /\ ecbs2[f].ptr = t => f \in hs2[t] \/ Got(tcbs[t], pcs2[t], f)
               /\ Got(tcbs[t], pcs2[t], f) => ecbs2[f].ptr = t
    <3>1. CASE f = e
      BY <1>7, <2>2, <2>3, <3>1 DEF MutexIs
    <3>2. CASE f # e
      <4>1. /\ ecbs[f].ptr = t => f \in hs[t] \/ Got(tcbs[t], pcs[t], f)
            /\ Got(tcbs[t], pcs[t], f) => ecbs[f].ptr = t
        BY <1>2 DEF HoldsOK
      <4>2. ecbs2[f] = ecbs[f]
        BY <1>2, <3>2
      <4>3. f \in hs[t] => f \in hs2[t]
        BY <2>2
      <4> QED
        BY <1>7, <4>1, <4>2, <4>3
    <3> QED
      BY <3>1, <3>2
  <2>6. \A t \in Tasks : pcs2[t].at = "pend" => hs2[t] = {}
    BY <2>2 DEF HoldsOK
  <2>7. \A t \in Tasks : \A f, g \in hs2[t] : f = g
    BY <2>2 DEF HoldsOK
  <2>8. HoldsOK(tcbs, pcs2, ecbs2, hs2)
    BY <2>2, <2>4, <2>5, <2>6, <2>7 DEF HoldsOK
  <2> QED
    BY <2>8 DEF hs2
<1> QED
  BY <1>6, <1>9, <1>10

\* The owner x of e goes from its own priority to the ceiling, or back.
Falls(x, e, tcbs, tcbs2, pcs, ecbs) ==
  /\ x \in LiveSet(pcs) /\ e \in Mutexes(ecbs) /\ ecbs[e].ptr = x /\ Ceil(ecbs[e]) # 255
  /\ \A f \in Mutexes(ecbs) : ecbs[f].ptr = x => f = e
  /\ \A t \in Tasks \ {x} : tcbs2[t] = tcbs[t]

LEMMA MovedOwners ==
  ASSUME NEW tcbs, NEW pcs, NEW ecbs, NEW hs,
         OwnersOK(tcbs, pcs, ecbs), HoldsOK(tcbs, pcs, ecbs, hs),
         NEW x, NEW e, NEW q, NEW tcbs2, Moved(x, q, tcbs, tcbs2),
         Falls(x, e, tcbs, tcbs2, pcs, ecbs),
         q = Ceil(ecbs[e]) \/ q = Saved(ecbs[e])
  PROVE  OwnersOK(tcbs2, pcs, ecbs) /\ HoldsOK(tcbs2, pcs, ecbs, hs)
<1>1. \A t \in Tasks : SamePlaces(tcbs[t], tcbs2[t])
  BY DEF Moved, SamePlaces
<1>2. \A t \in Tasks : Unans(tcbs2[t], pcs[t]) <=> Unans(tcbs[t], pcs[t])
  BY <1>1 DEF SamePlaces, Unans, PendBits
<1>3. \A f : WaitSet(tcbs2, pcs, f) = WaitSet(tcbs, pcs, f)
  BY <1>2 DEF WaitSet
<1>4. \A t \in Tasks : \A f : Got(tcbs2[t], pcs[t], f) <=> Got(tcbs[t], pcs[t], f)
  BY <1>2 DEF Got
<1>5. HoldsOK(tcbs2, pcs, ecbs, hs)
  BY <1>4 DEF HoldsOK
<1>6. x \in Tasks /\ tcbs2[x].prio = q /\ NULL \notin Tasks
  BY Constants DEF Falls, LiveSet, Moved
<1>7. OwnedMutex(ecbs[e], tcbs2, pcs)
  <2>1. OwnedMutex(ecbs[e], tcbs, pcs)
    BY <1>6 DEF OwnersOK, Falls, FreeMutex
  <2> QED
    BY <1>6, <2>1 DEF OwnedMutex, RaisedIn, Falls
<1>8. ASSUME NEW f \in Mutexes(ecbs), f # e, OwnedMutex(ecbs[f], tcbs, pcs)
      PROVE  OwnedMutex(ecbs[f], tcbs2, pcs)
  <2>1. ecbs[f].ptr \in Tasks \ {x}
    BY <1>8 DEF Falls, OwnedMutex, LiveSet
  <2>2. tcbs2[ecbs[f].ptr] = tcbs[ecbs[f].ptr]
    BY <2>1 DEF Falls
  <2> QED
    BY <1>8, <2>2 DEF OwnedMutex, RaisedIn
<1>9. OwnersOK(tcbs2, pcs, ecbs)
  BY <1>3, <1>7, <1>8 DEF OwnersOK
<1> QED
  BY <1>5, <1>9

LEMMA RaisedTable ==
  ASSUME NEW table, NEW tcbs, NEW pcs, NEW ecbs, TableOK(table, tcbs, pcs, ecbs),
         OwnersOK(tcbs, pcs, ecbs), NEW x, NEW e, NEW tcbs2,
         Moved(x, Ceil(ecbs[e]), tcbs, tcbs2), Falls(x, e, tcbs, tcbs2, pcs, ecbs),
         ~RaisedIn(ecbs[e], tcbs)
  PROVE  TableOK([table EXCEPT ![Ceil(ecbs[e])] = x], tcbs2, pcs, ecbs)
<1> DEFINE c == Ceil(ecbs[e])
           table2 == [table EXCEPT ![c] = x]
<1>1. x \in Tasks /\ x \in LiveSet(pcs) /\ e \in Mutexes(ecbs) /\ ecbs[e].ptr = x /\ c # 255
  BY DEF Falls, LiveSet
<1>2. c \in Prios /\ table[c] = OS_TCB_RESERVED
  BY <1>1, NoneAtCeiling
<1>3. tcbs[x].prio = Saved(ecbs[e]) /\ Saved(ecbs[e]) # c
  BY <1>1, Constants DEF OwnersOK, OwnedMutex, FreeMutex
<1>4. table \in [AllPrios -> Tasks \cup {IdleTask, NULL, OS_TCB_RESERVED}]
  BY DEF TableOK
<1>5. table2 \in [AllPrios -> Tasks \cup {IdleTask, NULL, OS_TCB_RESERVED}]
  BY <1>1, <1>2, <1>4, Constants
<1>6. table2[c] = x /\ \A r \in AllPrios \ {c} : table2[r] = table[r]
  BY <1>1, <1>2, <1>4, Constants
<1>7. tcbs2[x].prio = c /\ RaisedIn(ecbs[e], tcbs2)
  BY <1>1 DEF Moved, RaisedIn
<1>8. ASSUME NEW f \in Mutexes(ecbs), f # e
      PROVE  RaisedIn(ecbs[f], tcbs2) <=> RaisedIn(ecbs[f], tcbs)
  <2>1. ecbs[f].ptr # x
    BY <1>8 DEF Falls
  <2> QED
    BY <2>1 DEF RaisedIn, Moved
<1>9. \A f \in Mutexes(ecbs) : Ceil(ecbs[f]) = c => f = e
  BY <1>1 DEF OwnersOK
<1> HIDE DEF c, table2
<1>10. \A r \in AllPrios : table2[r] = IdleTask <=> r = OS_TASK_IDLE_PRIO
  BY <1>1, <1>2, <1>6, Constants DEF TableOK
<1>11. ASSUME NEW r \in Prios
       PROVE  table2[r] = OS_TCB_RESERVED <=>
                \E f \in Mutexes(ecbs) : Ceil(ecbs[f]) = r /\ ~RaisedIn(ecbs[f], tcbs2)
  <2>1. table[r] = OS_TCB_RESERVED <=>
          \E f \in Mutexes(ecbs) : Ceil(ecbs[f]) = r /\ ~RaisedIn(ecbs[f], tcbs)
    BY DEF TableOK
  <2>2. CASE r = c
    <3>1. table2[r] # OS_TCB_RESERVED
      BY <1>1, <1>6, <2>2, Constants
    <3> QED
      BY <1>7, <1>9, <2>2, <3>1
  <2>3. CASE r # c
    <3>1. table2[r] = table[r]
      BY <1>6, <2>3, Constants
    <3>2. \A f \in Mutexes(ecbs) : Ceil(ecbs[f]) = r => f # e
      BY <2>3 DEF c
    <3> QED
      BY <1>8, <2>1, <3>1, <3>2
  <2> QED
    BY <2>2, <2>3
<1>12. ASSUME NEW r \in Prios, NEW t \in Tasks
       PROVE  table2[r] = t <=>
                /\ t \in LiveSet(pcs)
                /\ \/ tcbs2[t].prio = r
                   \/ \E f \in Mutexes(ecbs) :
                        ecbs[f].ptr = t /\ RaisedIn(ecbs[f], tcbs2) /\ Saved(ecbs[f]) = r
  <2>1. table[r] = t <=>
          /\ t \in LiveSet(pcs)
          /\ \/ tcbs[t].prio = r
             \/ \E f \in Mutexes(ecbs) :
                  ecbs[f].ptr = t /\ RaisedIn(ecbs[f], tcbs) /\ Saved(ecbs[f]) = r
    BY DEF TableOK
  <2>2. CASE t = x
    <3>1. \A f \in Mutexes(ecbs) : ecbs[f].ptr = x => f = e
      BY DEF Falls
    <3>2. table[r] = x <=> r = Saved(ecbs[e])
      BY <1>1, <1>3, <2>1, <2>2, <3>1
    <3>3. table2[r] = x <=> r = c \/ r = Saved(ecbs[e])
      BY <1>2, <1>3, <1>6, <3>2, Constants
    <3> QED
      BY <1>1, <1>7, <2>2, <3>1, <3>3
  <2>3. CASE t # x
    <3>1. table2[r] = t <=> table[r] = t
      BY <1>2, <1>6, <2>3, Constants
    <3>2. tcbs2[t].prio = tcbs[t].prio
      BY <2>3 DEF Falls
    <3>3. \A f \in Mutexes(ecbs) : ecbs[f].ptr = t => f # e
      BY <1>1, <2>3
    <3> QED
      BY <1>8, <2>1, <3>1, <3>2, <3>3
  <2> QED
    BY <2>2, <2>3
<1>13. TableOK(table2, tcbs2, pcs, ecbs)
  BY <1>5, <1>10, <1>11, <1>12 DEF TableOK
<1> QED
  BY <1>13 DEF table2, c

LEMMA LoweredTable ==
  ASSUME NEW table, NEW tcbs, NEW pcs, NEW ecbs, TableOK(table, tcbs, pcs, ecbs),
         OwnersOK(tcbs, pcs, ecbs), NEW x, NEW e, NEW tcbs2,
         Moved(x, Saved(ecbs[e]), tcbs, tcbs2), Falls(x, e, tcbs, tcbs2, pcs, ecbs),
         RaisedIn(ecbs[e], tcbs)
  PROVE  /\ TableOK([table EXCEPT ![Ceil(ecbs[e])] = OS_TCB_RESERVED], tcbs2, pcs, ecbs)
         /\ ~RaisedIn(ecbs[e], tcbs2)
<1> DEFINE c == Ceil(ecbs[e])
           table2 == [table EXCEPT ![c] = OS_TCB_RESERVED]
<1>1. x \in Tasks /\ x \in LiveSet(pcs) /\ e \in Mutexes(ecbs) /\ ecbs[e].ptr = x /\ c # 255
  BY DEF Falls, LiveSet
<1>2. tcbs[x].prio = c /\ Saved(ecbs[e]) # c /\ Saved(ecbs[e]) \in Prios
  BY <1>1, Constants DEF OwnersOK, OwnedMutex, FreeMutex, RaisedIn
<1>3. c \in Prios /\ table[c] = x
  <2>1. c \in Prios
    BY <1>1, CeilIsPrio DEF OwnersOK
  <2> QED
    BY <1>1, <1>2, <2>1 DEF TableOK
<1>4. table \in [AllPrios -> Tasks \cup {IdleTask, NULL, OS_TCB_RESERVED}]
  BY DEF TableOK
<1>5. table2 \in [AllPrios -> Tasks \cup {IdleTask, NULL, OS_TCB_RESERVED}]
  BY <1>3, <1>4, Constants
<1>6. table2[c] = OS_TCB_RESERVED /\ \A r \in AllPrios \ {c} : table2[r] = table[r]
  BY <1>3, <1>4, Constants
<1>7. tcbs2[x].prio = Saved(ecbs[e]) /\ ~RaisedIn(ecbs[e], tcbs2)
  BY <1>1, <1>2 DEF Moved, RaisedIn
<1>8. ASSUME NEW f \in Mutexes(ecbs), f # e
      PROVE  RaisedIn(ecbs[f], tcbs2) <=> RaisedIn(ecbs[f], tcbs)
  <2>1. ecbs[f].ptr # x
    BY <1>8 DEF Falls
  <2> QED
    BY <2>1 DEF RaisedIn, Moved
<1>9. \A f \in Mutexes(ecbs) : Ceil(ecbs[f]) = c => f = e
  BY <1>1 DEF OwnersOK
<1> HIDE DEF c, table2
<1>10. \A r \in AllPrios : table2[r] = IdleTask <=> r = OS_TASK_IDLE_PRIO
  BY <1>1, <1>3, <1>6, Constants DEF TableOK
<1>11. ASSUME NEW r \in Prios
       PROVE  table2[r] = OS_TCB_RESERVED <=>
                \E f \in Mutexes(ecbs) : Ceil(ecbs[f]) = r /\ ~RaisedIn(ecbs[f], tcbs2)
  <2>1. table[r] = OS_TCB_RESERVED <=>
          \E f \in Mutexes(ecbs) : Ceil(ecbs[f]) = r /\ ~RaisedIn(ecbs[f], tcbs)
    BY DEF TableOK
  <2>2. CASE r = c
    BY <1>1, <1>6, <1>7, <2>2 DEF c
  <2>3. CASE r # c
    <3>1. table2[r] = table[r]
      BY <1>6, <2>3, Constants
    <3>2. \A f \in Mutexes(ecbs) : Ceil(ecbs[f]) = r => f # e
      BY <2>3 DEF c
    <3> QED
      BY <1>8, <2>1, <3>1, <3>2
  <2> QED
    BY <2>2, <2>3
<1>12. ASSUME NEW r \in Prios, NEW t \in Tasks
       PROVE  table2[r] = t <=>
                /\ t \in LiveSet(pcs)
                /\ \/ tcbs2[t].prio = r
                   \/ \E f \in Mutexes(ecbs) :
                        ecbs[f].ptr = t /\ RaisedIn(ecbs[f], tcbs2) /\ Saved(ecbs[f]) = r
  <2>1. table[r] = t <=>
          /\ t \in LiveSet(pcs)
          /\ \/ tcbs[t].prio = r
             \/ \E f \in Mutexes(ecbs) :
                  ecbs[f].ptr = t /\ RaisedIn(ecbs[f], tcbs) /\ Saved(ecbs[f]) = r
    BY DEF TableOK
  <2>2. CASE t = x
    <3>1. \A f \in Mutexes(ecbs) : ecbs[f].ptr = x => f = e
      BY DEF Falls
    <3>2. table[r] = x <=> r = c \/ r = Saved(ecbs[e])
      BY <1>1, <1>2, <2>1, <2>2, <3>1
    <3>3. table2[r] = x <=> r = Saved(ecbs[e])
      BY <1>1, <1>2, <1>6, <3>2, Constants
    <3> QED
      BY <1>1, <1>7, <2>2, <3>1, <3>3
  <2>3. CASE t # x
    <3>1. table2[r] = t <=> table[r] = t
      BY <1>3, <1>6, <2>3, Constants
    <3>2. tcbs2[t].prio = tcbs[t].prio
      BY <2>3 DEF Falls
    <3>3. \A f \in Mutexes(ecbs) : ecbs[f].ptr = t => f # e
      BY <1>1, <2>3
    <3> QED
      BY <1>8, <2>1, <3>1, <3>2, <3>3
  <2> QED
    BY <2>2, <2>3
<1>13. TableOK(table2, tcbs2, pcs, ecbs)
  BY <1>5, <1>10, <1>11, <1>12 DEF TableOK
<1> QED
  BY <1>7, <1>13 DEF table2, c

\* Tasks W are answered, and nothing else happens to any.
Answers(W, tcbs, pcs, tcbs2) ==
  \A t \in Tasks : /\ tcbs2[t].prio = tcbs[t].prio
                   /\ Unans(tcbs2[t], pcs[t]) <=> Unans(tcbs[t], pcs[t]) /\ t \notin W

\* A task that waits for a mutex is inside OSMutexPend for it alone.
LEMMA MutexWaiter ==
  ASSUME NEW tcbs, NEW pcs, NEW ecbs, \A t \in Tasks : Shape(tcbs[t], pcs[t], ecbs),
         NEW e \in Mutexes(ecbs), NEW w \in WaitSet(tcbs, pcs, e)
  PROVE  w \in LiveSet(pcs) /\ pcs[w].at = "pend" /\ pcs[w].svc = "OSMutexPend" /\ pcs[w].on = {e}
<1>1. w \in Tasks /\ Unans(tcbs[w], pcs[w]) /\ e \in pcs[w].on /\ ecbs[e].type = "MUTEX"
  BY DEF WaitSet, Mutexes
<1>2. pcs[w].at = "pend" /\ w \in LiveSet(pcs)
  BY <1>1 DEF Unans, LiveSet, Live
<1>3. Shape(tcbs[w], pcs[w], ecbs)
  BY <1>1
<1> QED
  BY <1>1, <1>2, <1>3 DEF Shape, SingleShape, MultiShape, FlagShape, PostTypes

LEMMA AnsweredSets ==
  ASSUME NEW W, NEW tcbs, NEW pcs, NEW tcbs2, Answers(W, tcbs, pcs, tcbs2)
  PROVE  /\ Kept(tcbs, pcs, tcbs2, pcs)
         /\ \A f : WaitSet(tcbs2, pcs, f) = WaitSet(tcbs, pcs, f) \ W
BY DEF Answers, Kept, WaitSet

\* Mutexes other than e, when waiters of e are answered.
LEMMA OtherOwners ==
  ASSUME NEW W, NEW tcbs, NEW pcs, NEW tcbs2, NEW ecbs, NEW ecbs2, NEW e,
         Answers(W, tcbs, pcs, tcbs2), OwnersOK(tcbs, pcs, ecbs),
         OthersKept(e, ecbs, ecbs2), NEW f \in Mutexes(ecbs), f # e
  PROVE  /\ ecbs2[f] = ecbs[f] /\ f \in Mutexes(ecbs2)
         /\ RaisedIn(ecbs2[f], tcbs2) <=> RaisedIn(ecbs[f], tcbs)
         /\ \/ FreeMutex(ecbs2[f]) /\ WaitSet(tcbs2, pcs, f) = {}
            \/ OwnedMutex(ecbs2[f], tcbs2, pcs)
<1>1. ecbs2[f] = ecbs[f] /\ f \in Mutexes(ecbs2)
  BY DEF OthersKept, Mutexes
<1>2. RaisedIn(ecbs[f], tcbs2) <=> RaisedIn(ecbs[f], tcbs)
  BY DEF RaisedIn, Answers
<1>3. OwnedMutex(ecbs[f], tcbs, pcs) => OwnedMutex(ecbs[f], tcbs2, pcs)
  BY <1>2 DEF OwnedMutex, Answers, LiveSet
<1>4. WaitSet(tcbs2, pcs, f) \subseteq WaitSet(tcbs, pcs, f)
  BY AnsweredSets
<1>5. (FreeMutex(ecbs[f]) /\ WaitSet(tcbs, pcs, f) = {}) \/ OwnedMutex(ecbs[f], tcbs, pcs)
  BY DEF OwnersOK
<1> QED
  BY <1>1, <1>2, <1>3, <1>4, <1>5

\* OSMutexPost passes mutex e to its waiter w.
LEMMA PassedMutex ==
  ASSUME NEW table, NEW tcbs, NEW pcs, NEW ecbs, NEW hs, TableOK(table, tcbs, pcs, ecbs),
         OwnersOK(tcbs, pcs, ecbs), HoldsOK(tcbs, pcs, ecbs, hs),
         \A t \in Tasks : Shape(tcbs[t], pcs[t], ecbs),
         NEW e \in Mutexes(ecbs), NEW x \in Tasks, ecbs[e].ptr = x, pcs[x].at # "pend",
         ~RaisedIn(ecbs[e], tcbs),
         NEW w \in WaitSet(tcbs, pcs, e), tcbs[w].prio \in Prios,
         NEW tcbs2, Answers({w}, tcbs, pcs, tcbs2),
         NEW ecbs2, OthersKept(e, ecbs, ecbs2), MutexIs(ecbs2[e], Ceil(ecbs[e]), tcbs[w].prio, w)
  PROVE  /\ OwnersOK(tcbs2, pcs, ecbs2) /\ TableOK(table, tcbs2, pcs, ecbs2)
         /\ HoldsOK(tcbs2, pcs, ecbs2, [hs EXCEPT ![x] = @ \ {e}])
<1>1. w \in LiveSet(pcs) /\ w \in Tasks /\ pcs[w].at = "pend" /\ pcs[w].svc = "OSMutexPend" /\ pcs[w].on = {e}
  BY MutexWaiter DEF LiveSet
<1>2. w # x
  BY <1>1
<1>3. Mutexes(ecbs2) = Mutexes(ecbs) /\ \A f \in Mutexes(ecbs) \ {e} : ecbs2[f] = ecbs[f]
  BY DEF Mutexes, MutexIs, OthersKept
<1>4. tcbs[w].prio # Ceil(ecbs[e]) /\ tcbs2[w].prio = tcbs[w].prio
  <2>1. 255 \notin Prios
    BY TasksAssumption
  <2> QED
    BY <1>1, <2>1, NoneAtCeiling DEF Fresh, Answers
<1>5. ~RaisedIn(ecbs2[e], tcbs2)
  BY <1>4 DEF RaisedIn, MutexIs
<1>6. TableOK(table, tcbs2, pcs, ecbs2)
  BY <1>5, AnsweredSets, MutexTable DEF MutexIs
<1>7. OwnersOK(tcbs2, pcs, ecbs2)
  <2>1. OwnedMutex(ecbs2[e], tcbs2, pcs)
    BY <1>1, <1>4 DEF OwnedMutex, MutexIs
  <2>2. \A f \in Mutexes(ecbs) : Ceil(ecbs2[f]) = Ceil(ecbs[f])
    BY <1>3 DEF MutexIs
  <2> QED
    BY <1>3, <2>1, <2>2, OtherOwners DEF OwnersOK
<1>8. \A t \in Tasks : \A f : Got(tcbs2[t], pcs[t], f) <=> Got(tcbs[t], pcs[t], f) \/ (t = w /\ f = e)
  <2>1. Unans(tcbs[w], pcs[w])
    BY DEF WaitSet
  <2> QED
    BY <1>1, <2>1 DEF Got, Answers
<1>9. HoldsOK(tcbs2, pcs, ecbs2, [hs EXCEPT ![x] = @ \ {e}])
  <2> DEFINE hs2 == [hs EXCEPT ![x] = @ \ {e}]
  <2>1. hs \in [Tasks -> SUBSET Events]
    BY DEF HoldsOK
  <2>2. hs2 \in [Tasks -> SUBSET Events] /\ hs2[x] = hs[x] \ {e} /\ \A t \in Tasks \ {x} : hs2[t] = hs[t]
    BY <2>1
  <2> HIDE DEF hs2
  <2>3. \A t \in Tasks : e \notin hs2[t] /\ ~Got(tcbs[t], pcs[t], e)
    <3> TAKE t \in Tasks
    <3>1. t # x => e \notin hs[t]
      BY DEF HoldsOK
    <3>2. ~Got(tcbs[t], pcs[t], e)
      BY DEF HoldsOK, Got
    <3> QED
      BY <2>2, <3>1, <3>2
  <2>4. \A t \in Tasks : hs2[t] \subseteq hs[t]
    BY <2>2
  <2>5. \A t \in Tasks : \A f \in hs2[t] : f \in Mutexes(ecbs2) /\ ecbs2[f].ptr = t
    BY <1>3, <2>3, <2>4 DEF HoldsOK
  <2>6. ASSUME NEW f \in Mutexes(ecbs2), NEW t \in Tasks
        PROVE  /\ ecbs2[f].ptr = t => f \in hs2[t] \/ Got(tcbs2[t], pcs[t], f)
               /\ Got(tcbs2[t], pcs[t], f) => ecbs2[f].ptr = t
    <3>1. CASE f = e
      BY <1>8, <2>3, <3>1 DEF MutexIs
    <3>2. CASE f # e
      <4>1. /\ ecbs[f].ptr = t => f \in hs[t] \/ Got(tcbs[t], pcs[t], f)
            /\ Got(tcbs[t], pcs[t], f) => ecbs[f].ptr = t
        BY <1>3 DEF HoldsOK
      <4>2. ecbs2[f] = ecbs[f]
        BY <1>3, <3>2
      <4>3. f \in hs[t] => f \in hs2[t]
        BY <2>2, <3>2
      <4> QED
        BY <1>8, <3>2, <4>1, <4>2, <4>3
    <3> QED
      BY <3>1, <3>2
  <2>7. \A t \in Tasks : (pcs[t].at = "pend" => hs2[t] = {}) /\ \A f, g \in hs2[t] : f = g
    BY <2>4 DEF HoldsOK
  <2>8. HoldsOK(tcbs2, pcs, ecbs2, hs2)
    BY <2>2, <2>5, <2>6, <2>7 DEF HoldsOK
  <2> QED
    BY <2>8 DEF hs2
<1> QED
  BY <1>6, <1>7, <1>9

\* OSMutexPost with nobody waiting.
LEMMA FreedMutex ==
  ASSUME NEW table, NEW tcbs, NEW pcs, NEW ecbs, NEW hs, TableOK(table, tcbs, pcs, ecbs),
         OwnersOK(tcbs, pcs, ecbs), HoldsOK(tcbs, pcs, ecbs, hs),
         NEW e \in Mutexes(ecbs), NEW x \in Tasks, ecbs[e].ptr = x, pcs[x].at # "pend",
         ~RaisedIn(ecbs[e], tcbs), WaitSet(tcbs, pcs, e) = {},
         NEW ecbs2, OthersKept(e, ecbs, ecbs2), MutexIs(ecbs2[e], Ceil(ecbs[e]), 255, NULL)
  PROVE  /\ OwnersOK(tcbs, pcs, ecbs2) /\ TableOK(table, tcbs, pcs, ecbs2)
         /\ HoldsOK(tcbs, pcs, ecbs2, [hs EXCEPT ![x] = @ \ {e}])
<1>1. Answers({}, tcbs, pcs, tcbs)
  BY DEF Answers
<1>3. Mutexes(ecbs2) = Mutexes(ecbs) /\ \A f \in Mutexes(ecbs) \ {e} : ecbs2[f] = ecbs[f]
  BY DEF Mutexes, MutexIs, OthersKept
<1>5. ~RaisedIn(ecbs2[e], tcbs)
  BY Constants DEF RaisedIn, MutexIs
<1>6. TableOK(table, tcbs, pcs, ecbs2)
  BY <1>1, <1>5, AnsweredSets, MutexTable DEF MutexIs
<1>7. OwnersOK(tcbs, pcs, ecbs2)
  <2>1. FreeMutex(ecbs2[e])
    BY DEF FreeMutex, MutexIs
  <2>2. \A f \in Mutexes(ecbs) : Ceil(ecbs2[f]) = Ceil(ecbs[f])
    BY <1>3 DEF MutexIs
  <2> QED
    BY <1>1, <1>3, <2>1, <2>2, OtherOwners DEF OwnersOK
<1>9. HoldsOK(tcbs, pcs, ecbs2, [hs EXCEPT ![x] = @ \ {e}])
  <2> DEFINE hs2 == [hs EXCEPT ![x] = @ \ {e}]
  <2>1. hs \in [Tasks -> SUBSET Events]
    BY DEF HoldsOK
  <2>2. hs2 \in [Tasks -> SUBSET Events] /\ hs2[x] = hs[x] \ {e} /\ \A t \in Tasks \ {x} : hs2[t] = hs[t]
    BY <2>1
  <2> HIDE DEF hs2
  <2>3. \A t \in Tasks : e \notin hs2[t] /\ ~Got(tcbs[t], pcs[t], e)
    <3> TAKE t \in Tasks
    <3>1. t # x => e \notin hs[t]
      BY DEF HoldsOK
    <3>2. ~Got(tcbs[t], pcs[t], e)
      BY DEF HoldsOK, Got
    <3> QED
      BY <2>2, <3>1, <3>2
  <2>4. \A t \in Tasks : hs2[t] \subseteq hs[t]
    BY <2>2
  <2>5. \A t \in Tasks : \A f \in hs2[t] : f \in Mutexes(ecbs2) /\ ecbs2[f].ptr = t
    BY <1>3, <2>3, <2>4 DEF HoldsOK
  <2>6. ASSUME NEW f \in Mutexes(ecbs2), NEW t \in Tasks
        PROVE  /\ ecbs2[f].ptr = t => f \in hs2[t] \/ Got(tcbs[t], pcs[t], f)
               /\ Got(tcbs[t], pcs[t], f) => ecbs2[f].ptr = t
    <3>1. CASE f = e
      BY <2>3, <3>1, Constants DEF MutexIs
    <3>2. CASE f # e
      <4>1. /\ ecbs[f].ptr = t => f \in hs[t] \/ Got(tcbs[t], pcs[t], f)
            /\ Got(tcbs[t], pcs[t], f) => ecbs[f].ptr = t
        BY <1>3 DEF HoldsOK
      <4>2. ecbs2[f] = ecbs[f]
        BY <1>3, <3>2
      <4>3. f \in hs[t] => f \in hs2[t]
        BY <2>2, <3>2
      <4> QED
        BY <4>1, <4>2, <4>3
    <3> QED
      BY <3>1, <3>2
  <2>7. \A t \in Tasks : (pcs[t].at = "pend" => hs2[t] = {}) /\ \A f, g \in hs2[t] : f = g
    BY <2>4 DEF HoldsOK
  <2>8. HoldsOK(tcbs, pcs, ecbs2, hs2)
    BY <2>2, <2>5, <2>6, <2>7 DEF HoldsOK
  <2> QED
    BY <2>8 DEF hs2
<1> QED
  BY <1>6, <1>7, <1>9

\* OSMutexDel: all the tasks that wait are answered.
LEMMA DeletedMutex ==
  ASSUME NEW table, NEW tcbs, NEW pcs, NEW ecbs, NEW hs, TableOK(table, tcbs, pcs, ecbs),
         OwnersOK(tcbs, pcs, ecbs), HoldsOK(tcbs, pcs, ecbs, hs),
         \A t \in Tasks : Shape(tcbs[t], pcs[t], ecbs),
         NEW e \in Mutexes(ecbs), ~RaisedIn(ecbs[e], tcbs),
         NEW tcbs2, Answers(WaitSet(tcbs, pcs, e), tcbs, pcs, tcbs2),
         NEW ecbs2, OthersKept(e, ecbs, ecbs2), ecbs2[e].type # "MUTEX"
  PROVE  /\ OwnersOK(tcbs2, pcs, ecbs2)
         /\ TableOK(IF Ceil(ecbs[e]) = 255 THEN table ELSE [table EXCEPT ![Ceil(ecbs[e])] = NULL],
                    tcbs2, pcs, ecbs2)
         /\ HoldsOK(tcbs2, pcs, ecbs2, [t \in Tasks |-> hs[t] \ {e}])
<1> DEFINE c == Ceil(ecbs[e])
           W == WaitSet(tcbs, pcs, e)
<1>1. Mutexes(ecbs2) = Mutexes(ecbs) \ {e} /\ \A f \in Mutexes(ecbs) \ {e} : ecbs2[f] = ecbs[f]
  BY DEF Mutexes, OthersKept
<1>2. OwnersOK(tcbs2, pcs, ecbs2)
  <2>1. \A f, g \in Mutexes(ecbs2) :
          Ceil(ecbs2[f]) = Ceil(ecbs2[g]) /\ Ceil(ecbs2[f]) # 255 => f = g
    BY <1>1 DEF OwnersOK
  <2>2. ASSUME NEW f \in Mutexes(ecbs2)
        PROVE  /\ Ceil(ecbs2[f]) \in PCPs
               /\ \/ FreeMutex(ecbs2[f]) /\ WaitSet(tcbs2, pcs, f) = {}
                  \/ OwnedMutex(ecbs2[f], tcbs2, pcs)
    <3>1. f \in Mutexes(ecbs) /\ f # e
      BY <1>1
    <3>2. Ceil(ecbs2[f]) \in PCPs
      BY <1>1, <3>1 DEF OwnersOK
    <3> QED
      BY <3>1, <3>2, OtherOwners
  <2> QED
    BY <2>1, <2>2 DEF OwnersOK
<1>3. \A t \in Tasks, f \in Mutexes(ecbs) \ {e} : Got(tcbs2[t], pcs[t], f) <=> Got(tcbs[t], pcs[t], f)
  <2> TAKE t \in Tasks, f \in Mutexes(ecbs) \ {e}
  <2>1. CASE t \in W
    <3>1. pcs[t].on = {e}
      BY <2>1, MutexWaiter
    <3> QED
      BY <3>1 DEF Got
  <2>2. CASE t \notin W
    BY <2>2 DEF Got, Answers
  <2> QED
    BY <2>1, <2>2
<1>4. HoldsOK(tcbs2, pcs, ecbs2, [t \in Tasks |-> hs[t] \ {e}])
  <2> DEFINE hs2 == [t \in Tasks |-> hs[t] \ {e}]
  <2>1. hs \in [Tasks -> SUBSET Events]
    BY DEF HoldsOK
  <2>2. hs2 \in [Tasks -> SUBSET Events] /\ \A t \in Tasks : hs2[t] = hs[t] \ {e}
    BY <2>1
  <2> HIDE DEF hs2
  <2>3. \A t \in Tasks : \A f \in hs2[t] : f \in Mutexes(ecbs2) /\ ecbs2[f].ptr = t
    BY <1>1, <2>2 DEF HoldsOK
  <2>4. ASSUME NEW f \in Mutexes(ecbs2), NEW t \in Tasks
        PROVE  /\ ecbs2[f].ptr = t => f \in hs2[t] \/ Got(tcbs2[t], pcs[t], f)
               /\ Got(tcbs2[t], pcs[t], f) => ecbs2[f].ptr = t
    <3>1. f \in Mutexes(ecbs) \ {e} /\ ecbs2[f] = ecbs[f]
      BY <1>1
    <3>2. /\ ecbs[f].ptr = t => f \in hs[t] \/ Got(tcbs[t], pcs[t], f)
          /\ Got(tcbs[t], pcs[t], f) => ecbs[f].ptr = t
      BY <3>1 DEF HoldsOK
    <3> QED
      BY <1>3, <2>2, <3>1, <3>2
  <2>5. \A t \in Tasks : (pcs[t].at = "pend" => hs2[t] = {}) /\ \A f, g \in hs2[t] : f = g
    BY <2>2 DEF HoldsOK
  <2>6. HoldsOK(tcbs2, pcs, ecbs2, hs2)
    BY <2>2, <2>3, <2>4, <2>5 DEF HoldsOK
  <2> QED
    BY <2>6 DEF hs2
<1>5. \A t \in Tasks : tcbs2[t].prio = tcbs[t].prio
  BY DEF Answers
<1>6. \A f \in Mutexes(ecbs) \ {e} : RaisedIn(ecbs2[f], tcbs2) <=> RaisedIn(ecbs[f], tcbs)
  BY OtherOwners
<1>7. ASSUME NEW p \in Prios, NEW t \in Tasks
      PROVE  table[p] = t <=>
               /\ t \in LiveSet(pcs)
               /\ \/ tcbs2[t].prio = p
                  \/ \E f \in Mutexes(ecbs2) :
                       ecbs2[f].ptr = t /\ RaisedIn(ecbs2[f], tcbs2) /\ Saved(ecbs2[f]) = p
  BY <1>1, <1>5, <1>6 DEF TableOK
<1>8. \A f \in Mutexes(ecbs) \ {e} : Ceil(ecbs[f]) = c => c = 255
  BY DEF OwnersOK
<1>9. \A p \in Prios : p # c =>
        (table[p] = OS_TCB_RESERVED <=>
           \E f \in Mutexes(ecbs2) : Ceil(ecbs2[f]) = p /\ ~RaisedIn(ecbs2[f], tcbs2))
  BY <1>1, <1>6 DEF TableOK
<1>10. CASE c = 255
  <2>1. c \notin Prios
    BY <1>10, TasksAssumption
  <2>2. TableOK(table, tcbs2, pcs, ecbs2)
    BY <1>7, <1>9, <2>1 DEF TableOK
  <2> QED
    BY <1>2, <1>4, <1>10, <2>2
<1>11. CASE c # 255
  <2> DEFINE table2 == [table EXCEPT ![c] = NULL]
  <2>1. c \in Prios /\ table[c] = OS_TCB_RESERVED
    BY <1>11, NoneAtCeiling
  <2>2. table \in [AllPrios -> Tasks \cup {IdleTask, NULL, OS_TCB_RESERVED}]
    BY DEF TableOK
  <2>3. table2 \in [AllPrios -> Tasks \cup {IdleTask, NULL, OS_TCB_RESERVED}]
    BY <2>1, <2>2, Constants
  <2>4. table2[c] = NULL /\ \A r \in AllPrios \ {c} : table2[r] = table[r]
    BY <2>1, <2>2, Constants
  <2> HIDE DEF table2, c
  <2>5. \A r \in AllPrios : table2[r] = IdleTask <=> r = OS_TASK_IDLE_PRIO
    BY <2>1, <2>4, Constants DEF TableOK
  <2>6. \A r \in Prios, t \in Tasks : table2[r] = t <=> table[r] = t
    BY <2>1, <2>4, Constants
  <2>7. ASSUME NEW p \in Prios
        PROVE  table2[p] = OS_TCB_RESERVED <=>
                 \E f \in Mutexes(ecbs2) : Ceil(ecbs2[f]) = p /\ ~RaisedIn(ecbs2[f], tcbs2)
    <3>1. CASE p = c
      BY <1>1, <1>8, <1>11, <2>4, <3>1, Constants
    <3>2. CASE p # c
      BY <1>9, <2>4, <3>2, Constants
    <3> QED
      BY <3>1, <3>2
  <2>8. TableOK(table2, tcbs2, pcs, ecbs2)
    BY <1>7, <2>3, <2>5, <2>6, <2>7 DEF TableOK
  <2> QED
    BY <1>2, <1>4, <1>11, <2>8 DEF table2, c
<1> QED
  BY <1>10, <1>11

\* A task leaves its pend; if it was given a mutex, it has it now.
LeavesPend(x, tcbs, pcs, ecbs, hs, tcbs2, pcs2, hs2) ==
  /\ x \in Tasks /\ pcs[x].at = "pend" /\ pcs2[x].at = "returned"
  /\ tcbs2[x].prio = tcbs[x].prio
  /\ \A t \in Tasks \ {x} : tcbs2[t] = tcbs[t] /\ pcs2[t] = pcs[t]
  /\ hs2 = [hs EXCEPT ![x] = @ \cup {e \in Mutexes(ecbs) : Got(tcbs[x], pcs[x], e)}]

LEMMA LeftPend ==
  ASSUME NEW tcbs, NEW pcs, NEW ecbs, NEW hs, OwnersOK(tcbs, pcs, ecbs), HoldsOK(tcbs, pcs, ecbs, hs),
         \A t \in Tasks : Shape(tcbs[t], pcs[t], ecbs),
         NEW x, NEW tcbs2, NEW pcs2, NEW hs2, LeavesPend(x, tcbs, pcs, ecbs, hs, tcbs2, pcs2, hs2)
  PROVE  OwnersOK(tcbs2, pcs2, ecbs) /\ HoldsOK(tcbs2, pcs2, ecbs, hs2)
<1>0. /\ x \in Tasks /\ pcs[x].at = "pend" /\ pcs2[x].at = "returned"
      /\ tcbs2[x].prio = tcbs[x].prio
      /\ \A t \in Tasks \ {x} : tcbs2[t] = tcbs[t] /\ pcs2[t] = pcs[t]
      /\ hs2 = [hs EXCEPT ![x] = @ \cup {e \in Mutexes(ecbs) : Got(tcbs[x], pcs[x], e)}]
  BY DEF LeavesPend
<1> USE <1>0
<1>1. LiveSet(pcs2) = LiveSet(pcs) /\ \A t \in Tasks : tcbs2[t].prio = tcbs[t].prio
  BY DEF LiveSet, Live
<1>2. \A f : WaitSet(tcbs2, pcs2, f) \subseteq WaitSet(tcbs, pcs, f)
  BY DEF WaitSet, Unans
<1>3. ASSUME NEW f \in Mutexes(ecbs), OwnedMutex(ecbs[f], tcbs, pcs)
      PROVE  OwnedMutex(ecbs[f], tcbs2, pcs2)
  <2>1. ecbs[f].ptr \in Tasks
    BY <1>3 DEF OwnedMutex, LiveSet
  <2> QED
    BY <1>1, <1>3, <2>1 DEF OwnedMutex, RaisedIn
<1>4. OwnersOK(tcbs2, pcs2, ecbs)
  BY <1>2, <1>3 DEF OwnersOK
<1>5. hs \in [Tasks -> SUBSET Events] /\ hs[x] = {}
  BY DEF HoldsOK
<1>6. /\ hs2 \in [Tasks -> SUBSET Events] /\ \A t \in Tasks \ {x} : hs2[t] = hs[t]
      /\ hs2[x] = {e \in Mutexes(ecbs) : Got(tcbs[x], pcs[x], e)}
  BY <1>5 DEF Mutexes
<1>7. \A e : ~Got(tcbs2[x], pcs2[x], e)
  BY DEF Got
<1>8. \A t \in Tasks : \A f \in hs2[t] : f \in Mutexes(ecbs) /\ ecbs[f].ptr = t
  BY <1>6 DEF HoldsOK
<1>9. ASSUME NEW f \in Mutexes(ecbs), NEW t \in Tasks
      PROVE  /\ ecbs[f].ptr = t => f \in hs2[t] \/ Got(tcbs2[t], pcs2[t], f)
             /\ Got(tcbs2[t], pcs2[t], f) => ecbs[f].ptr = t
  <2>1. /\ ecbs[f].ptr = t => f \in hs[t] \/ Got(tcbs[t], pcs[t], f)
        /\ Got(tcbs[t], pcs[t], f) => ecbs[f].ptr = t
    BY DEF HoldsOK
  <2> QED
    BY <1>5, <1>6, <1>7, <2>1
<1>10. \A t \in Tasks : pcs2[t].at = "pend" => hs2[t] = {}
  BY <1>6 DEF HoldsOK
<1>11. \A t \in Tasks : \A e, f \in hs2[t] : e = f
  <2>1. \A e, f \in hs2[x] : e = f
    <3>1. Shape(tcbs[x], pcs[x], ecbs)
      OBVIOUS
    <3> QED
      BY <1>6, <3>1, GotOne
  <2> QED
    BY <1>6, <2>1 DEF HoldsOK
<1> QED
  BY <1>4, <1>6, <1>8, <1>9, <1>10, <1>11 DEF HoldsOK

-----------------------------------------------------------------------------
(* The invariant of the tasks and the mutexes *)

\* Task cur, or the idle task, has priority prio.
HasPrio(cur, prio, tcbs, pcs) ==
  \/ cur \in LiveSet(pcs) /\ tcbs[cur].prio = prio
  \/ cur = IdleTask /\ prio = OS_TASK_IDLE_PRIO

KernelInv ==
  /\ OSLockNesting \in {0, 1}
  /\ Data(OSRdy, OSEventTbl, tcb, pc, ecb)
  /\ OwnersOK(tcb, pc, ecb)
  /\ HoldsOK(tcb, pc, ecb, holds)
  /\ TableOK(OSTCBPrioTbl, tcb, pc, ecb)
  /\ OSPrioCur \in OSRdy
  /\ HasPrio(OSTCBCur, OSPrioCur, tcb, pc)

\* OS_Sched leaves the current task current only if it is ready, or changes
\* to the one of highest priority.
LEMMA SchedKeepsCurrent ==
  ASSUME NEW prio, SchedFrom(prio),
         Data(OSRdy', OSEventTbl', tcb', pc', ecb'), TableOK(OSTCBPrioTbl', tcb', pc', ecb'),
         prio \in OSRdy' => HasPrio(OSTCBCur, prio, tcb', pc'),
         OSLockNesting' # 0 => prio \in OSRdy'
  PROVE  OSPrioCur' \in OSRdy' /\ HasPrio(OSTCBCur', OSPrioCur', tcb', pc')
<1>1. OSRdy' = PriosOf(tcb', RunSet(tcb', pc')) \cup {OS_TASK_IDLE_PRIO}
  BY DEF Data
<1>2. \A t \in LiveSet(pc') : tcb'[t].prio \in Prios
  BY DEF Data
<1>3. RunSet(tcb', pc') \subseteq LiveSet(pc')
  BY SetsAreLive
<1>4. OSRdy' \in SUBSET Nat /\ OSRdy' # {}
  BY <1>1, <1>2, <1>3, IdleIsApart, Constants DEF PriosOf
<1>5. Highest(OSRdy') \in OSRdy'
  BY <1>4, HighestIsMember
<1>6. ASSUME NEW p \in OSRdy'
      PROVE  HasPrio(OSTCBPrioTbl'[p], p, tcb', pc')
  <2>1. CASE p = OS_TASK_IDLE_PRIO
    BY <2>1, Constants DEF TableOK, HasPrio
  <2>2. CASE p # OS_TASK_IDLE_PRIO
    <3>1. PICK t \in RunSet(tcb', pc') : p = tcb'[t].prio
      BY <1>1, <2>2 DEF PriosOf
    <3>2. t \in LiveSet(pc') /\ t \in Tasks /\ p \in Prios
      BY <1>2, <1>3, <3>1 DEF RunSet
    <3>3. OSTCBPrioTbl'[p] = t
      BY <3>1, <3>2 DEF TableOK
    <3> QED
      BY <3>1, <3>2, <3>3 DEF HasPrio
  <2> QED
    BY <2>1, <2>2
<1>7. CASE OSLockNesting' = 0 /\ Highest(OSRdy') # prio
  <2>1. OSPrioCur' = Highest(OSRdy') /\ OSTCBCur' = OSTCBPrioTbl'[OSPrioCur']
    BY <1>7 DEF SchedFrom
  <2> QED
    BY <1>5, <1>6, <2>1
<1>8. CASE ~(OSLockNesting' = 0 /\ Highest(OSRdy') # prio)
  <2>1. OSPrioCur' = prio /\ OSTCBCur' = OSTCBCur
    BY <1>8 DEF SchedFrom
  <2>2. prio \in OSRdy'
    BY <1>5, <1>8
  <2> QED
    BY <2>1, <2>2
<1> QED
  BY <1>7, <1>8

\* The running task, in its own code or on its way out of a pend.
LEMMA CurrentRuns ==
  ASSUME KernelInv, OSTCBCur \in Tasks
  PROVE  /\ OSTCBCur \in LiveSet(pc) /\ Cur.prio = OSPrioCur /\ Cur.prio \in Prios
         /\ Runs(Cur, pc[OSTCBCur]) /\ Shape(Cur, pc[OSTCBCur], ecb)
         /\ tcb[OSTCBCur] \in OS_TCB
<1>1. OSTCBCur \in LiveSet(pc) /\ Cur.prio = OSPrioCur
  BY Constants DEF KernelInv, HasPrio, Cur
<1>2. Data(OSRdy, OSEventTbl, tcb, pc, ecb) /\ OSPrioCur \in OSRdy
  BY DEF KernelInv
<1>3. Runs(Cur, pc[OSTCBCur])
  BY <1>1, <1>2, InLists DEF Cur
<1> QED
  BY <1>1, <1>2, <1>3 DEF Data, Cur

-----------------------------------------------------------------------------
(* What the invariant says *)

LEMMA KernelSafe ==
  ASSUME KernelInv
  PROVE  /\ WaitListExact /\ ReadyListExact /\ CurrentTaskReady
         /\ MutualExclusion /\ PriorityTableExact
<1>1. \A t : Unanswered(t) <=> Unans(tcb[t], pc[t])
  BY DEF Unanswered, Unans, InPendMulti, PendBits
<1>2. \A t : Runnable(t) <=> Runs(tcb[t], pc[t])
  BY <1>1 DEF Runnable, Runs, Exists, Live
<1>3. Data(OSRdy, OSEventTbl, tcb, pc, ecb)
  BY DEF KernelInv
<1>4. WaitListExact
  <2> SUFFICES ASSUME NEW e \in Events, NEW p \in AllPrios
               PROVE  p \in OSEventTbl[e] <=>
                        \E t \in Tasks : Unanswered(t) /\ e \in pc[t].on /\ tcb[t].prio = p
    BY DEF WaitListExact
  <2>1. OSEventTbl[e] = PriosOf(tcb, WaitSet(tcb, pc, e))
    BY <1>3 DEF Data
  <2> QED
    BY <1>1, <2>1 DEF PriosOf, WaitSet
<1>5. ReadyListExact
  <2> SUFFICES ASSUME NEW p \in Prios
               PROVE  p \in OSRdy <=> \E t \in Tasks : Runnable(t) /\ tcb[t].prio = p
    BY DEF ReadyListExact
  <2>1. OSRdy = PriosOf(tcb, RunSet(tcb, pc)) \cup {OS_TASK_IDLE_PRIO} /\ p # OS_TASK_IDLE_PRIO
    BY <1>3, Constants DEF Data
  <2> QED
    BY <1>2, <2>1 DEF PriosOf, RunSet
<1>6. CurrentTaskReady
  BY Constants DEF KernelInv, HasPrio, CurrentTaskReady, Cur, LiveSet
<1>7. MutualExclusion
  <2> SUFFICES ASSUME NEW e \in Events, IsMutex(e)
               PROVE  /\ {t \in Tasks : e \in holds[t] \/ Granted(t, e)} = {Owner(e)} \ {NULL}
                      /\ Owner(e) = NULL <=> OwnerPrio(e) = OS_MUTEX_AVAILABLE
    BY DEF MutualExclusion
  <2>1. e \in Mutexes(ecb) /\ Owner(e) = ecb[e].ptr /\ OwnerPrio(e) = Saved(ecb[e])
    BY DEF IsMutex, Mutexes, Owner, OwnerPrio, Saved
  <2>2. \A t \in Tasks : Granted(t, e) <=> Got(tcb[t], pc[t], e)
    BY <1>1 DEF Granted, Got
  <2>3. \A t \in Tasks : e \in holds[t] \/ Got(tcb[t], pc[t], e) <=> ecb[e].ptr = t
    BY <2>1 DEF KernelInv, HoldsOK
  <2>4. FreeMutex(ecb[e]) \/ OwnedMutex(ecb[e], tcb, pc)
    BY <2>1 DEF KernelInv, OwnersOK
  <2>5. ecb[e].ptr \in Tasks \cup {NULL} /\ (ecb[e].ptr = NULL <=> Saved(ecb[e]) = 255)
    <3>1. 255 \notin Prios
      BY TasksAssumption
    <3> QED
      BY <2>4, <3>1, Constants DEF FreeMutex, OwnedMutex, LiveSet
  <2> QED
    BY <2>1, <2>2, <2>3, <2>5, Constants DEF OS_MUTEX_AVAILABLE
<1>8. PriorityTableExact
  <2>1. \A e \in Events : Raised(e) <=> RaisedIn(ecb[e], tcb)
    BY DEF Raised, RaisedIn, HasCeiling, PCP, Ceil, Owner, OS_PRIO_MUTEX_CEIL_DIS
  <2>2. \A e \in Events : /\ IsMutex(e) <=> e \in Mutexes(ecb)
                          /\ Owner(e) = ecb[e].ptr /\ OwnerPrio(e) = Saved(ecb[e])
                          /\ PCP(e) = Ceil(ecb[e])
    BY DEF IsMutex, Mutexes, Owner, OwnerPrio, Saved, PCP, Ceil
  <2>3. \A e \in Mutexes(ecb) : e \in Events
    BY DEF Mutexes
  <2>4. \A t \in Tasks : Exists(t) <=> t \in LiveSet(pc)
    BY DEF Exists, LiveSet, Live
  <2>5. TableOK(OSTCBPrioTbl, tcb, pc, ecb)
    BY DEF KernelInv
  <2> QED
    BY <2>1, <2>2, <2>3, <2>4, <2>5 DEF TableOK, PriorityTableExact
<1> QED
  BY <1>4, <1>5, <1>6, <1>7, <1>8

-----------------------------------------------------------------------------
(* OS_EventTaskRdy for tasks that wait for an event *)

\* The events a waiting task is in the lists of.
LEMMA WaitsOn ==
  ASSUME NEW c, NEW k, NEW ecbs, Shape(c, k, ecbs), Unans(c, k), NEW e \in Events, e \in k.on
  PROVE  /\ \A f : f \in k.on <=> f = e \/ f \in c.multiptr
         /\ ecbs[e].type \in EventTypes
BY DEF Shape, Unans, SingleShape, MultiShape, FlagShape, EventTypes, PostTypes

\* The TCBs of the tasks W get the answer.
ByAnswer(W, e, bit, pend, tcbs, tcbs2) ==
  /\ tcbs2 \in [Tasks -> OS_TCB]
  /\ \A t \in Tasks \ W : tcbs2[t] = tcbs[t]
  /\ \A t \in W : AnsweredTCB(tcbs[t], tcbs2[t], e, bit, pend) /\ tcbs2[t].prio = tcbs[t].prio

LEMMA AnsweredFields ==
  ASSUME NEW tcbs \in [Tasks -> OS_TCB], NEW W \in SUBSET Tasks, NEW e \in Events,
         NEW msg \in Msgs \cup {NULL}, NEW bit, NEW pend \in {"OK", "ABORT"}, NEW tcbs2,
         tcbs2 = AnsweredTCBs(tcbs, W, e, msg, bit, pend)
  PROVE  ByAnswer(W, e, bit, pend, tcbs, tcbs2)
<1>1. ASSUME NEW t \in W
      PROVE  /\ AnsweredTCB(tcbs[t], tcbs2[t], e, bit, pend) /\ tcbs2[t].prio = tcbs[t].prio
             /\ tcbs2[t] \in OS_TCB
  <2> DEFINE c == tcbs[t]
  <2>1. c \in OS_TCB /\ t \in Tasks
    OBVIOUS
  <2>2. tcbs2[t] = [c EXCEPT !.dly = 0, !.msg = msg, !.stat = @ \ {bit}, !.statpend = pend,
                          !.eventptr = IF c.multiptr = {} THEN @ ELSE e]
    BY <2>1, Zenon DEF AnsweredTCBs
  <2> HIDE DEF c
  <2> DEFINE d == [c EXCEPT !.dly = 0, !.msg = msg, !.stat = @ \ {bit}, !.statpend = pend,
                          !.eventptr = IF c.multiptr = {} THEN @ ELSE e]
  <2>3. /\ d.dly = 0 /\ d.stat = c.stat \ {bit} /\ d.statpend = pend
        /\ d.multiptr = c.multiptr /\ d.prio = c.prio /\ d.msg = msg
        /\ d.eventptr = IF c.multiptr = {} THEN c.eventptr ELSE e
    BY <2>1 DEF OS_TCB
  <2>4. d \in OS_TCB
    <3>1. /\ c.stat \in SUBSET StatBits /\ c.eventptr \in Events \cup {NULL} /\ c.multiptr \in SUBSET Events
          /\ c.prio \in AllPrios
      BY <2>1 DEF OS_TCB
    <3>2. 0 \in 0..MaxDly
      BY TasksAssumption
    <3>3. c.stat \ {bit} \in SUBSET StatBits
      BY <3>1
    <3> DEFINE d1 == [c EXCEPT !.dly = 0]
               d2 == [d1 EXCEPT !.msg = msg]
               d3 == [d2 EXCEPT !.stat = c.stat \ {bit}]
               d4 == [d3 EXCEPT !.statpend = pend]
               d5 == [d4 EXCEPT !.eventptr = IF c.multiptr = {} THEN c.eventptr ELSE e]
    <3>4. d1 \in OS_TCB /\ d1.stat = c.stat /\ d1.eventptr = c.eventptr
      BY <2>1, <3>2 DEF OS_TCB
    <3> HIDE DEF d1
    <3>5. d2 \in OS_TCB /\ d2.stat = c.stat /\ d2.eventptr = c.eventptr
      BY <3>4 DEF OS_TCB
    <3> HIDE DEF d2
    <3>6. d3 \in OS_TCB /\ d3.eventptr = c.eventptr
      BY <3>3, <3>5 DEF OS_TCB
    <3> HIDE DEF d3
    <3>7. d4 \in OS_TCB /\ d4.eventptr = c.eventptr
      <4>1. pend \in {"OK", "TO", "ABORT"}
        OBVIOUS
      <4> QED
        BY <3>6, <4>1 DEF OS_TCB
    <3> HIDE DEF d4
    <3>8. d5 \in OS_TCB
      BY <3>1, <3>7 DEF OS_TCB
    <3> HIDE DEF d5
    <3>9. d = d5
      BY DEF d1, d2, d3, d4, d5
    <3> QED
      BY <3>8, <3>9
  <2> QED
    BY <2>2, <2>3, <2>4 DEF AnsweredTCB, c
<1>2. \A t \in Tasks \ W : tcbs2[t] = tcbs[t]
  BY DEF AnsweredTCBs
<1>3. tcbs2 \in [Tasks -> OS_TCB]
  <2>1. \A t \in Tasks : tcbs2[t] \in OS_TCB
    BY <1>1, <1>2
  <2> QED
    BY <2>1, Zenon DEF AnsweredTCBs
<1> QED
  BY <1>1, <1>2, <1>3 DEF ByAnswer

\* Where an answer changes the types of events, no task is left that goes by them.
TypesStay(W, tcbs, pcs, ecbs, ecbs2) ==
  \A t \in Tasks :
    /\ t \notin W => TypesFor(tcbs[t], pcs[t], ecbs, ecbs2)
    /\ tcbs[t].multiptr # {} /\ t \in W => \A f \in pcs[t].on : ecbs2[f].type = ecbs[f].type

\* Tasks W, waiters of e, are answered.
Answering(W, e, pend, tcbs, pcs, ecbs, tcbs2, ecbs2) ==
  /\ e \in Events /\ W \in SUBSET WaitSet(tcbs, pcs, e)
  /\ pend \in {"OK", "ABORT"} /\ (ecbs[e].type = "MUTEX" => pend = "OK")
  /\ ByAnswer(W, e, ecbs[e].type, pend, tcbs, tcbs2)
  /\ TypesStay(W, tcbs, pcs, ecbs, ecbs2)

AnsweredLists(W, e, rdy, tbl, tcbs, rdy2, tbl2) ==
  /\ rdy2 = rdy \cup PriosOf(tcbs, {t \in W : "SUSPEND" \notin tcbs[t].stat})
  /\ DOMAIN tbl2 = Events
  /\ \A f \in Events : tbl2[f] = tbl[f] \ PriosOf(tcbs, {t \in W : f = e \/ f \in tcbs[t].multiptr})

LEMMA AnsweredShapes ==
  ASSUME NEW tcbs \in [Tasks -> OS_TCB], NEW pcs, NEW ecbs,
         \A t \in Tasks : Shape(tcbs[t], pcs[t], ecbs), NEW W, NEW e, NEW pend, NEW tcbs2, NEW ecbs2,
         Answering(W, e, pend, tcbs, pcs, ecbs, tcbs2, ecbs2)
  PROVE  /\ \A t \in Tasks : Shape(tcbs2[t], pcs[t], ecbs2)
         /\ \A t \in W : ~Unans(tcbs2[t], pcs[t]) /\ (Runs(tcbs2[t], pcs[t]) <=> "SUSPEND" \notin tcbs[t].stat)
         /\ \A t \in Tasks \ W : /\ Unans(tcbs2[t], pcs[t]) <=> Unans(tcbs[t], pcs[t])
                                 /\ Runs(tcbs2[t], pcs[t]) <=> Runs(tcbs[t], pcs[t])
<1>1. W \in SUBSET Tasks /\ \A t \in W : Unans(tcbs[t], pcs[t]) /\ e \in pcs[t].on
  BY DEF WaitSet, Answering
<1>2. /\ \A t \in Tasks \ W : tcbs2[t] = tcbs[t]
      /\ \A t \in W : AnsweredTCB(tcbs[t], tcbs2[t], e, ecbs[e].type, pend)
  BY DEF ByAnswer, Answering
<1>3. ASSUME NEW t \in W
      PROVE  /\ Shape(tcbs2[t], pcs[t], ecbs2) /\ ~Unans(tcbs2[t], pcs[t])
             /\ Runs(tcbs2[t], pcs[t]) <=> "SUSPEND" \notin tcbs[t].stat
  <2>1. t \in Tasks /\ Shape(tcbs[t], pcs[t], ecbs) /\ Unans(tcbs[t], pcs[t]) /\ e \in pcs[t].on
    BY <1>1
  <2>2. \A f \in pcs[t].on : tcbs[t].multiptr # {} => ecbs2[f].type = ecbs[f].type
    BY <2>1 DEF TypesStay, Answering
  <2>3. AnsweredTCB(tcbs[t], tcbs2[t], e, ecbs[e].type, pend)
    BY <1>2
  <2> QED
    BY <2>1, <2>2, <2>3, ShapeOfAnswered DEF Answering
<1>4. ASSUME NEW t \in Tasks \ W
      PROVE  /\ Shape(tcbs2[t], pcs[t], ecbs2) /\ (Unans(tcbs2[t], pcs[t]) <=> Unans(tcbs[t], pcs[t]))
             /\ Runs(tcbs2[t], pcs[t]) <=> Runs(tcbs[t], pcs[t])
  <2>1. Shape(tcbs[t], pcs[t], ecbs) /\ tcbs2[t] = tcbs[t]
    BY <1>2
  <2>2. TypesFor(tcbs[t], pcs[t], ecbs, ecbs2)
    BY DEF TypesStay, Answering
  <2> QED
    BY <2>1, <2>2, ShapeOfSame
<1> QED
  BY <1>3, <1>4

LEMMA AnsweredData ==
  ASSUME NEW rdy, NEW tbl, NEW tcbs, NEW pcs, NEW ecbs, Data(rdy, tbl, tcbs, pcs, ecbs),
         NEW W, NEW e, NEW pend, NEW tcbs2, NEW ecbs2,
         Answering(W, e, pend, tcbs, pcs, ecbs, tcbs2, ecbs2),
         NEW rdy2, NEW tbl2, AnsweredLists(W, e, rdy, tbl, tcbs, rdy2, tbl2)
  PROVE  Data(rdy2, tbl2, tcbs2, pcs, ecbs2) /\ Answers(W, tcbs, pcs, tcbs2)
<1>1. tcbs \in [Tasks -> OS_TCB] /\ \A t \in Tasks : Shape(tcbs[t], pcs[t], ecbs)
  BY DEF Data
<1>2. W \in SUBSET LiveSet(pcs) /\ W \in SUBSET Tasks
      /\ \A t \in W : Unans(tcbs[t], pcs[t]) /\ e \in pcs[t].on
  BY SetsAreLive DEF WaitSet, Answering
<1>3. /\ \A t \in Tasks : Shape(tcbs2[t], pcs[t], ecbs2)
      /\ \A t \in W : ~Unans(tcbs2[t], pcs[t]) /\ (Runs(tcbs2[t], pcs[t]) <=> "SUSPEND" \notin tcbs[t].stat)
      /\ \A t \in Tasks \ W : /\ Unans(tcbs2[t], pcs[t]) <=> Unans(tcbs[t], pcs[t])
                              /\ Runs(tcbs2[t], pcs[t]) <=> Runs(tcbs[t], pcs[t])
  BY <1>1, AnsweredShapes
<1>4. tcbs2 \in [Tasks -> OS_TCB] /\ \A t \in Tasks : tcbs2[t].prio = tcbs[t].prio
  <2>1. /\ tcbs2 \in [Tasks -> OS_TCB]
        /\ \A t \in Tasks \ W : tcbs2[t] = tcbs[t]
        /\ \A t \in W : tcbs2[t].prio = tcbs[t].prio
    BY DEF ByAnswer, Answering
  <2> QED
    BY <2>1
<1>5. \A t \in W : Runs(tcbs[t], pcs[t]) => Runs(tcbs2[t], pcs[t])
  BY <1>3 DEF Runs
<1>6. {t \in W : "SUSPEND" \notin tcbs[t].stat} = {t \in W : Runs(tcbs2[t], pcs[t])}
  BY <1>3
<1>7. ASSUME NEW f \in Events
      PROVE  {t \in W : f = e \/ f \in tcbs[t].multiptr} =
             {t \in W : f \in pcs[t].on /\ Unans(tcbs[t], pcs[t]) /\ ~Unans(tcbs2[t], pcs[t])}
  <2>1. \A t \in W : f \in pcs[t].on <=> f = e \/ f \in tcbs[t].multiptr
    <3> TAKE t \in W
    <3>1. Shape(tcbs[t], pcs[t], ecbs) /\ Unans(tcbs[t], pcs[t]) /\ e \in pcs[t].on
      BY <1>1, <1>2
    <3> QED
      BY <3>1, WaitsOn DEF Answering
  <2> QED
    BY <1>2, <1>3, <2>1
<1>8. Data(rdy2, tbl2, tcbs2, pcs, ecbs2)
  <2>1. rdy2 = rdy \cup PriosOf(tcbs, {t \in W : Runs(tcbs2[t], pcs[t])})
    BY <1>6 DEF AnsweredLists
  <2>2. \A f \in Events : tbl2[f] = tbl[f] \ PriosOf(tcbs,
            {t \in W : f \in pcs[t].on /\ Unans(tcbs[t], pcs[t]) /\ ~Unans(tcbs2[t], pcs[t])})
    BY <1>7 DEF AnsweredLists
  <2>3. \A t \in Tasks : tcbs2[t].prio = tcbs[t].prio /\ Shape(tcbs2[t], pcs[t], ecbs2)
    BY <1>3, <1>4
  <2>4. \A t \in W : /\ Unans(tcbs2[t], pcs[t]) => Unans(tcbs[t], pcs[t])
                     /\ Runs(tcbs[t], pcs[t]) => Runs(tcbs2[t], pcs[t])
    BY <1>3, <1>5
  <2>5. \A t \in Tasks \ W : /\ Unans(tcbs2[t], pcs[t]) <=> Unans(tcbs[t], pcs[t])
                             /\ Runs(tcbs2[t], pcs[t]) <=> Runs(tcbs[t], pcs[t])
    BY <1>3
  <2> QED
    <3>1. Ends(W, tcbs, pcs, tcbs2, ecbs2)
      BY <1>4, <2>3, <2>4, <2>5 DEF Ends
    <3>2. EndsListed(W, rdy, tbl, tcbs, pcs, rdy2, tbl2, tcbs2)
      BY <2>1, <2>2 DEF EndsListed, AnsweredLists
    <3> QED
      BY <1>2, <3>1, <3>2, ManyData
<1>9. Answers(W, tcbs, pcs, tcbs2)
  BY <1>2, <1>3, <1>4 DEF Answers
<1> QED
  BY <1>8, <1>9

-----------------------------------------------------------------------------
(* Steps that leave the mutexes and the priority table alone *)

\* The events in use stay in use, and mutexes are as they were.
SameKinds(ecbs, ecbs2) ==
  \A e \in Events : /\ ecbs2[e].type = ecbs[e].type
                    /\ ecbs[e].type = "MUTEX" => ecbs2[e] = ecbs[e]

\* The scheduler was called, or the current task stays ready.
Scheduled ==
  \/ OS_Sched /\ (OSLockNesting' # 0 => OSPrioCur \in OSRdy')
  \/ UNCHANGED schedVars /\ OSPrioCur \in OSRdy'

LEMMA CurrentKept ==
  ASSUME KernelInv, Data(OSRdy', OSEventTbl', tcb', pc', ecb'),
         TableOK(OSTCBPrioTbl', tcb', pc', ecb'),
         HasPrio(OSTCBCur, OSPrioCur, tcb', pc'), Scheduled
  PROVE  OSPrioCur' \in OSRdy' /\ HasPrio(OSTCBCur', OSPrioCur', tcb', pc')
<1>1. CASE OS_Sched /\ (OSLockNesting' # 0 => OSPrioCur \in OSRdy')
  BY <1>1, SchedKeepsCurrent DEF OS_Sched
<1>2. CASE UNCHANGED schedVars /\ OSPrioCur \in OSRdy'
  BY <1>2 DEF schedVars
<1> QED
  BY <1>1, <1>2 DEF Scheduled

LEMMA SamePrio ==
  ASSUME KernelInv, Kept(tcb, pc, tcb', pc')
  PROVE  HasPrio(OSTCBCur, OSPrioCur, tcb', pc')
BY DEF KernelInv, HasPrio, Kept, LiveSet

LEMMA OtherStep ==
  ASSUME KernelInv, Data(OSRdy', OSEventTbl', tcb', pc', ecb'), Kept(tcb, pc, tcb', pc'),
         SameMutexes(tcb, pc, ecb, tcb', pc', ecb'),
         OSTCBPrioTbl' = OSTCBPrioTbl, holds' = holds, OSLockNesting' \in {0, 1}, Scheduled
  PROVE  KernelInv'
<1>1. /\ OwnersOK(tcb, pc, ecb) /\ HoldsOK(tcb, pc, ecb, holds)
      /\ TableOK(OSTCBPrioTbl, tcb, pc, ecb)
  BY DEF KernelInv
<1>2. OwnersOK(tcb', pc', ecb') /\ HoldsOK(tcb', pc', ecb', holds')
  BY <1>1, SameOwners
<1>3. TableOK(OSTCBPrioTbl', tcb', pc', ecb')
  <2>1. Mutexes(ecb') = Mutexes(ecb) /\ \A e \in Mutexes(ecb) : ecb'[e] = ecb[e]
    BY DEF SameMutexes
  <2>2. TableOK(OSTCBPrioTbl, tcb', pc', ecb')
    BY <1>1, <2>1, SameTable
  <2> QED
    BY <2>2
<1>4. OSPrioCur' \in OSRdy' /\ HasPrio(OSTCBCur', OSPrioCur', tcb', pc')
  BY <1>3, SamePrio, CurrentKept
<1> QED
  BY <1>2, <1>3, <1>4 DEF KernelInv

LEMMA KindsStay ==
  ASSUME NEW c, NEW k, NEW ecbs, NEW ecbs2, Shape(c, k, ecbs), SameKinds(ecbs, ecbs2)
  PROVE  TypesFor(c, k, ecbs, ecbs2)
<1> SUFFICES ASSUME k.at = "pend"
             PROVE  \A e \in k.on : ecbs2[e].type = ecbs[e].type
  BY DEF TypesFor
<1>1. \A e \in k.on : e \in Events
  BY DEF Shape, SingleShape, MultiShape, FlagShape
<1> QED
  BY <1>1 DEF SameKinds

\* What a step of one task leaves alone for the sake of the mutexes.
Quiet(t, c, k, c2, k2, ecbs) ==
  /\ \A e \in Mutexes(ecbs) :
       /\ Got(c2, k2, e) <=> Got(c, k, e)
       /\ Unans(c2, k2) /\ e \in k2.on => Unans(c, k) /\ e \in k.on
  /\ Owns(ecbs, t) /\ k2.at = "pend" => k.at = "pend"

LEMMA OneStep ==
  ASSUME KernelInv, NEW x \in LiveSet(pc), OneChanges(x, tcb, pc, tcb', pc', ecb),
         OneListed(x, tcb[x].prio, OSRdy, OSEventTbl, OSRdy', OSEventTbl', tcb', pc'),
         SameKinds(ecb, ecb'), Quiet(x, tcb[x], pc[x], tcb'[x], pc'[x], ecb),
         OSTCBPrioTbl' = OSTCBPrioTbl, holds' = holds, OSLockNesting' \in {0, 1}, Scheduled
  PROVE  KernelInv'
<1>1. Data(OSRdy, OSEventTbl, tcb, pc, ecb)
  BY DEF KernelInv
<1>2. Data(OSRdy', OSEventTbl', tcb', pc', ecb) /\ Kept(tcb, pc, tcb', pc')
  BY <1>1, OneData
<1>3. Data(OSRdy', OSEventTbl', tcb', pc', ecb')
  <2>1. \A t \in Tasks : TypesFor(tcb'[t], pc'[t], ecb, ecb')
    <3> TAKE t \in Tasks
    <3>1. Shape(tcb'[t], pc'[t], ecb)
      BY <1>2 DEF Data
    <3> QED
      BY <3>1, KindsStay
  <2> QED
    BY <1>2, <2>1, EventsData
<1>4. Mutexes(ecb') = Mutexes(ecb) /\ \A e \in Mutexes(ecb) : ecb'[e] = ecb[e]
  BY DEF SameKinds, Mutexes
<1>5. ASSUME NEW e \in Mutexes(ecb)
      PROVE  /\ WaitSet(tcb', pc', e) \subseteq WaitSet(tcb, pc, e)
             /\ \A t \in Tasks : Got(tcb'[t], pc'[t], e) <=> Got(tcb[t], pc[t], e)
  <2>1. \A t \in Tasks \ {x} : tcb'[t] = tcb[t] /\ pc'[t] = pc[t]
    BY DEF OneChanges
  <2>2. /\ Got(tcb'[x], pc'[x], e) <=> Got(tcb[x], pc[x], e)
        /\ Unans(tcb'[x], pc'[x]) /\ e \in pc'[x].on => Unans(tcb[x], pc[x]) /\ e \in pc[x].on
    BY DEF Quiet
  <2> QED
    BY <2>1, <2>2 DEF WaitSet
<1>6. ASSUME NEW t \in Tasks, Owns(ecb, t)
      PROVE  /\ tcb'[t].prio = tcb[t].prio /\ Live(pc'[t])
             /\ pc'[t].at = "pend" => pc[t].at = "pend"
  <2>1. tcb'[t].prio = tcb[t].prio /\ (Live(pc'[t]) <=> Live(pc[t]))
    BY <1>2 DEF Kept
  <2>2. t \in LiveSet(pc)
    <3>1. PICK e \in Mutexes(ecb) : ecb[e].ptr = t
      BY <1>6 DEF Owns
    <3> QED
      BY <3>1, Constants DEF KernelInv, OwnersOK, FreeMutex, OwnedMutex
  <2>3. pc'[t].at = "pend" => pc[t].at = "pend"
    BY <1>6 DEF OneChanges, Quiet
  <2> QED
    BY <2>1, <2>2, <2>3 DEF LiveSet
<1>7. SameMutexes(tcb, pc, ecb, tcb', pc', ecb')
  BY <1>4, <1>5, <1>6 DEF SameMutexes
<1> QED
  BY <1>2, <1>3, <1>7, OtherStep

\* The wait list of an event, and OSTCBPrioTbl, give the tasks that wait for it.
LEMMA WaitersOf ==
  ASSUME KernelInv, NEW e \in Events
  PROVE  /\ Waiters(e) = WaitSet(tcb, pc, e)
         /\ OSEventTbl[e] = {} <=> WaitSet(tcb, pc, e) = {}
         /\ OSEventTbl[e] # {} => HighestWaiter(e) \in WaitSet(tcb, pc, e)
<1>1. OSEventTbl[e] = {tcb[t].prio : t \in WaitSet(tcb, pc, e)}
  BY DEF KernelInv, Data, PriosOf
<1>2. \A t \in WaitSet(tcb, pc, e) : tcb[t].prio \in Prios /\ OSTCBPrioTbl[tcb[t].prio] = t
  <2> TAKE t \in WaitSet(tcb, pc, e)
  <2>1. t \in LiveSet(pc)
    BY SetsAreLive
  <2>2. tcb[t].prio \in Prios
    BY <2>1 DEF KernelInv, Data
  <2>3. TableOK(OSTCBPrioTbl, tcb, pc, ecb)
    BY DEF KernelInv
  <2> QED
    BY <2>1, <2>2, <2>3, TableGives
<1>3. Waiters(e) = WaitSet(tcb, pc, e)
  BY <1>1, <1>2 DEF Waiters
<1>4. ASSUME OSEventTbl[e] # {}
      PROVE  HighestWaiter(e) \in WaitSet(tcb, pc, e)
  <2>1. OSEventTbl[e] \in SUBSET Nat
    BY <1>1, <1>2, IdleIsApart, Constants, Zenon
  <2>2. Highest(OSEventTbl[e]) \in OSEventTbl[e]
    BY <1>4, <2>1, HighestIsMember
  <2> QED
    BY <1>1, <1>2, <2>2 DEF HighestWaiter
<1> QED
  BY <1>1, <1>3, <1>4

\* Waiters W of an event other than a mutex get their answer; the event may be
\* changed, or deleted if they were all.
LEMMA AnswersStep ==
  ASSUME KernelInv, NEW e \in Events, ecb[e].type \in PostTypes,
         NEW W \in SUBSET WaitSet(tcb, pc, e), NEW msg \in Msgs \cup {NULL},
         NEW pend \in {"OK", "ABORT"}, ReadyWaiters(W, e, msg, pend),
         OthersKept(e, ecb, ecb'),
         \/ ecb'[e].type = ecb[e].type
         \/ /\ ecb'[e].type # "MUTEX" /\ W = WaitSet(tcb, pc, e)
            /\ \A t \in Tasks : e \notin tcb[t].multiptr,
         holds' = holds, OS_Sched \/ UNCHANGED schedVars
  PROVE  KernelInv'
<1>1. Data(OSRdy, OSEventTbl, tcb, pc, ecb)
  BY DEF KernelInv
<1>2. tcb \in [Tasks -> OS_TCB] /\ (\A t \in Tasks : Shape(tcb[t], pc[t], ecb)) /\ W \in SUBSET Tasks
  BY <1>1 DEF Data, WaitSet
<1>3. /\ tcb' = AnsweredTCBs(tcb, W, e, msg, ecb[e].type, pend)
      /\ OSRdy' = OSRdy \cup Readied(W) /\ OSEventTbl' = WaitListsWithout(W, e)
      /\ OSLockNesting' = OSLockNesting /\ OSTCBPrioTbl' = OSTCBPrioTbl /\ pc' = pc
  BY DEF ReadyWaiters, OS_EventTaskRdy
<1>4. ByAnswer(W, e, ecb[e].type, pend, tcb, tcb')
  BY <1>2, <1>3, AnsweredFields
<1>5. TypesStay(W, tcb, pc, ecb, ecb')
  <2> SUFFICES ASSUME NEW t \in Tasks, pc[t].at = "pend",
                      tcb[t].multiptr # {} \/ (Unans(tcb[t], pc[t]) /\ t \notin W),
                      NEW f \in pc[t].on
               PROVE  ecb'[f].type = ecb[f].type
    <3>1. \A t \in W : pc[t].at = "pend"
      BY DEF WaitSet, Unans
    <3> QED
      BY <3>1 DEF TypesStay, TypesFor
  <2>1. f \in Events /\ (tcb[t].multiptr # {} => f \in tcb[t].multiptr)
    <3>1. Shape(tcb[t], pc[t], ecb)
      BY <1>2
    <3> QED
      BY <3>1 DEF Shape, SingleShape, MultiShape, FlagShape
  <2>2. CASE f # e
    BY <2>1, <2>2 DEF OthersKept
  <2>3. CASE f = e /\ tcb[t].multiptr # {}
    BY <2>1, <2>3
  <2>4. CASE f = e /\ Unans(tcb[t], pc[t]) /\ t \notin W
    BY <2>4 DEF WaitSet
  <2> QED
    BY <2>2, <2>3, <2>4
<1>6. Answering(W, e, pend, tcb, pc, ecb, tcb', ecb')
  BY <1>4, <1>5 DEF Answering, PostTypes
<1>7. AnsweredLists(W, e, OSRdy, OSEventTbl, tcb, OSRdy', OSEventTbl')
  BY <1>3 DEF AnsweredLists, Readied, WaitListsWithout, PriosOf
<1>8. Data(OSRdy', OSEventTbl', tcb', pc', ecb') /\ Answers(W, tcb, pc, tcb')
  <2>1. Data(OSRdy', OSEventTbl', tcb', pc, ecb') /\ Answers(W, tcb, pc, tcb')
    BY <1>1, <1>6, <1>7, AnsweredData
  <2> QED
    BY <1>3, <2>1
<1>9. Kept(tcb, pc, tcb', pc') /\ \A f : WaitSet(tcb', pc', f) = WaitSet(tcb, pc, f) \ W
  BY <1>3, <1>8, AnsweredSets
<1>10. Mutexes(ecb') = Mutexes(ecb) /\ \A f \in Mutexes(ecb) : ecb'[f] = ecb[f] /\ f # e
  BY DEF Mutexes, OthersKept, PostTypes
<1>11. ASSUME NEW t \in Tasks, NEW f \in Mutexes(ecb)
       PROVE  Got(tcb'[t], pc'[t], f) <=> Got(tcb[t], pc[t], f)
  <2>1. CASE t \in W
    <3>1. Shape(tcb[t], pc[t], ecb) /\ Unans(tcb[t], pc[t]) /\ e \in pc[t].on
      BY <1>2, <2>1 DEF WaitSet
    <3>2. pc[t].svc # "OSMutexPend"
      BY <3>1 DEF Shape, Unans, SingleShape, PostTypes
    <3> QED
      BY <1>3, <3>2 DEF Got
  <2>2. CASE t \notin W
    <3>1. tcb'[t] = tcb[t]
      BY <1>4, <2>2 DEF ByAnswer
    <3> QED
      BY <1>3, <3>1
  <2> QED
    BY <2>1, <2>2
<1>12. \A t \in Tasks : Owns(ecb, t) => t \in LiveSet(pc)
  BY Constants DEF KernelInv, OwnersOK, FreeMutex, OwnedMutex, Owns
<1>13. SameMutexes(tcb, pc, ecb, tcb', pc', ecb')
  BY <1>3, <1>9, <1>10, <1>11, <1>12 DEF SameMutexes, Kept, LiveSet
<1>14. Scheduled /\ OSLockNesting' \in {0, 1}
  <2>1. OSPrioCur \in OSRdy'
    BY <1>3 DEF KernelInv
  <2> QED
    BY <1>3, <2>1 DEF Scheduled, KernelInv
<1> QED
  BY <1>3, <1>8, <1>9, <1>13, <1>14, OtherStep

-----------------------------------------------------------------------------
(* Ticks and task services *)

\* Lists that already agree with the new state of task x.
LEMMA ReadyAgrees ==
  ASSUME NEW rdy, NEW tbl, NEW tcbs, NEW pcs, NEW ecbs, Data(rdy, tbl, tcbs, pcs, ecbs),
         NEW x \in LiveSet(pcs), NEW b \in BOOLEAN, b <=> Runs(tcbs[x], pcs[x])
  PROVE  rdy = IF b THEN rdy \cup {tcbs[x].prio} ELSE rdy \ {tcbs[x].prio}
BY InLists

LEMMA WaitsAgree ==
  ASSUME NEW rdy, NEW tbl, NEW tcbs, NEW pcs, NEW ecbs, Data(rdy, tbl, tcbs, pcs, ecbs),
         NEW x \in LiveSet(pcs), NEW e \in Events
  PROVE  /\ Unans(tcbs[x], pcs[x]) /\ e \in pcs[x].on => tbl[e] \cup {tcbs[x].prio} = tbl[e]
         /\ ~(Unans(tcbs[x], pcs[x]) /\ e \in pcs[x].on) => tbl[e] \ {tcbs[x].prio} = tbl[e]
<1>1. tcbs[x].prio \in tbl[e] <=> x \in WaitSet(tcbs, pcs, e)
  BY InLists
<1>2. x \in WaitSet(tcbs, pcs, e) <=> Unans(tcbs[x], pcs[x]) /\ e \in pcs[x].on
  BY DEF WaitSet, LiveSet
<1> QED
  BY <1>1, <1>2

\* Task x changes and waits for the same events as before.
LEMMA ListedStep ==
  ASSUME KernelInv, NEW x \in LiveSet(pc), OneChanges(x, tcb, pc, tcb', pc', ecb),
         \A e \in Events : (Unans(tcb'[x], pc'[x]) /\ e \in pc'[x].on)
                             <=> (Unans(tcb[x], pc[x]) /\ e \in pc[x].on),
         OSRdy' = IF Runs(tcb'[x], pc'[x]) THEN OSRdy \cup {tcb[x].prio} ELSE OSRdy \ {tcb[x].prio},
         OSEventTbl' = OSEventTbl,
         SameKinds(ecb, ecb'), \A e \in Mutexes(ecb) : Got(tcb'[x], pc'[x], e) <=> Got(tcb[x], pc[x], e),
         pc'[x].at = "pend" => pc[x].at = "pend",
         OSTCBPrioTbl' = OSTCBPrioTbl, holds' = holds, OSLockNesting' \in {0, 1}, Scheduled
  PROVE  KernelInv'
<1>1. Data(OSRdy, OSEventTbl, tcb, pc, ecb)
  BY DEF KernelInv
<1>2. \A e \in Events : OSEventTbl[e] = IF Unans(tcb[x], pc[x]) /\ e \in pc[x].on
                  THEN OSEventTbl[e] \cup {tcb[x].prio} ELSE OSEventTbl[e] \ {tcb[x].prio}
  <2> TAKE e \in Events
  <2>1. /\ Unans(tcb[x], pc[x]) /\ e \in pc[x].on => OSEventTbl[e] \cup {tcb[x].prio} = OSEventTbl[e]
        /\ ~(Unans(tcb[x], pc[x]) /\ e \in pc[x].on) => OSEventTbl[e] \ {tcb[x].prio} = OSEventTbl[e]
    BY <1>1, WaitsAgree
  <2> QED
    BY <2>1
<1>3. DOMAIN OSEventTbl = Events
  BY <1>1 DEF Data
<1>4. OneListed(x, tcb[x].prio, OSRdy, OSEventTbl, OSRdy', OSEventTbl', tcb', pc')
  BY <1>2, <1>3 DEF OneListed
<1>5. Quiet(x, tcb[x], pc[x], tcb'[x], pc'[x], ecb)
  BY DEF Quiet, Mutexes
<1> QED
  BY <1>4, <1>5, OneStep

\* No task moves, and those that are inside a pend wait as before.
WaitsStay == pc' = pc /\ \A t \in Tasks : Unans(tcb'[t], pc[t]) <=> Unans(tcb[t], pc[t])

\* The TCB of task x changes, and not where it is or what it waits for.
LEMMA TcbStep ==
  ASSUME KernelInv, NEW x \in LiveSet(pc), NEW c, tcb' = [tcb EXCEPT ![x] = c], c \in OS_TCB,
         c.prio = tcb[x].prio, Shape(c, pc[x], ecb), Unans(c, pc[x]) <=> Unans(tcb[x], pc[x]),
         OSRdy' = IF Runs(c, pc[x]) THEN OSRdy \cup {tcb[x].prio} ELSE OSRdy \ {tcb[x].prio},
         UNCHANGED <<OSLockNesting, OSTCBPrioTbl, OSEventTbl, pc, ecb, holds>>, Scheduled
  PROVE  KernelInv' /\ WaitsStay
<1>1. Data(OSRdy, OSEventTbl, tcb, pc, ecb) /\ x \in Tasks /\ Live(pc[x])
  BY DEF KernelInv, LiveSet
<1>2. tcb \in [Tasks -> OS_TCB] /\ DOMAIN pc = Tasks
  BY <1>1 DEF Data
<1>3. tcb'[x] = c /\ tcb' \in [Tasks -> OS_TCB] /\ \A t \in Tasks \ {x} : tcb'[t] = tcb[t]
  BY <1>1, <1>2
<1>4. OneChanges(x, tcb, pc, tcb', pc', ecb)
  BY <1>1, <1>2, <1>3 DEF OneChanges
<1>5. \A e \in Mutexes(ecb) : Got(tcb'[x], pc'[x], e) <=> Got(tcb[x], pc[x], e)
  BY <1>3 DEF Got
<1>6. SameKinds(ecb, ecb') /\ OSLockNesting' \in {0, 1}
  BY DEF SameKinds, KernelInv
<1>7. KernelInv'
  BY <1>3, <1>4, <1>5, <1>6, ListedStep
<1>8. WaitsStay
  BY <1>3 DEF WaitsStay
<1> QED
  BY <1>7, <1>8

LEMMA ReadyAdded ==
  ASSUME KernelInv
  PROVE  /\ OSPrioCur \in OSRdy
         /\ OSTCBCur \in Tasks => Cur.prio \in OSRdy /\ OSTCBCur \in LiveSet(pc)
BY CurrentRuns DEF KernelInv

LEMMA TaskStepKernel ==
  ASSUME KernelInv, TaskStep, ecb' = ecb, holds' = holds
  PROVE  KernelInv'
<1> DEFINE x == OSTCBCur
<1>1. /\ x \in LiveSet(pc) /\ Runs(tcb[x], pc[x]) /\ Shape(tcb[x], pc[x], ecb)
      /\ x \in Tasks /\ pc[x].at = "returned"
  BY CurrentRuns DEF TaskStep, Cur
<1>2. Data(OSRdy, OSEventTbl, tcb, pc, ecb)
  BY DEF KernelInv
<1>3. /\ tcb' = tcb /\ OSRdy' = OSRdy /\ OSEventTbl' = OSEventTbl /\ OSTCBPrioTbl' = OSTCBPrioTbl
      /\ OSLockNesting' = OSLockNesting /\ UNCHANGED schedVars
      /\ pc' = [pc EXCEPT ![x] = InTask]
  BY DEF TaskStep, schedVars
<1> HIDE DEF x
<1>4. tcb \in [Tasks -> OS_TCB] /\ DOMAIN pc = Tasks
  BY <1>2 DEF Data
<1>5. pc'[x] = InTask /\ DOMAIN pc' = Tasks /\ \A t \in Tasks \ {x} : pc'[t] = pc[t]
  BY <1>1, <1>3, <1>4
<1>6. InTask.at = "task"
  BY DEF InTask
<1>7. OutShape(tcb[x]) /\ tcb[x].stat = {} /\ tcb[x].dly = 0
  BY <1>1, ShapeOfRunning DEF Shape
<1>8. Shape(tcb[x], InTask, ecb) /\ ~Unans(tcb[x], InTask) /\ Runs(tcb[x], InTask)
  BY <1>6, <1>7, ShapeOfOut
<1>9. OneChanges(x, tcb, pc, tcb', pc', ecb)
  BY <1>3, <1>4, <1>5, <1>6, <1>8 DEF OneChanges, Live
<1>10. OSRdy' = OSRdy \cup {tcb[x].prio}
  BY <1>1, <1>2, <1>3, InLists
<1>11. ~Unans(tcb[x], pc[x]) /\ \A e : ~Got(tcb[x], pc[x], e) /\ ~Got(tcb'[x], pc'[x], e)
  BY <1>1, <1>5, <1>6 DEF Unans, Got
<1>12. SameKinds(ecb, ecb') /\ OSLockNesting' \in {0, 1} /\ Scheduled
  BY <1>3, ReadyAdded DEF SameKinds, KernelInv, Scheduled
<1> QED
  BY <1>1, <1>3, <1>5, <1>6, <1>8, <1>9, <1>10, <1>11, <1>12, ListedStep

LEMMA LockKernel ==
  ASSUME KernelInv, OSSchedLock \/ OSSchedUnlock, ecb' = ecb, holds' = holds
  PROVE  KernelInv'
<1>1. UNCHANGED <<OSRdy, OSEventTbl, OSTCBPrioTbl, tcb, pc, ecb, holds>> /\ OSLockNesting' \in {0, 1}
  BY DEF OSSchedLock, OSSchedUnlock
<1>2. Scheduled
  BY <1>1, ReadyAdded DEF OSSchedLock, OSSchedUnlock, Scheduled, schedVars
<1>3. Data(OSRdy', OSEventTbl', tcb', pc', ecb') /\ TableOK(OSTCBPrioTbl', tcb', pc', ecb')
      /\ HasPrio(OSTCBCur, OSPrioCur, tcb', pc')
  BY <1>1 DEF KernelInv
<1>4. OSPrioCur' \in OSRdy' /\ HasPrio(OSTCBCur', OSPrioCur', tcb', pc')
  BY <1>2, <1>3, CurrentKept
<1> QED
  BY <1>1, <1>3, <1>4 DEF KernelInv

LEMMA OSTimeDlyKernel ==
  ASSUME KernelInv, NEW ticks \in 1..MaxDly, OSTimeDly(ticks), ecb' = ecb, holds' = holds
  PROVE  KernelInv' /\ WaitsStay
<1> DEFINE x == OSTCBCur
           c == [tcb[x] EXCEPT !.dly = ticks]
<1>1. x \in Tasks /\ pc[x] = InTask /\ OSLockNesting = 0
  BY DEF OSTimeDly, TaskCall
<1>2. x \in LiveSet(pc) /\ Runs(tcb[x], pc[x]) /\ Shape(tcb[x], pc[x], ecb) /\ tcb[x] \in OS_TCB
  BY <1>1, CurrentRuns DEF Cur
<1>3. tcb' = [tcb EXCEPT ![x] = c] /\ OSRdy' = OSRdy \ {tcb[x].prio}
  BY DEF OSTimeDly, Cur
<1>4. /\ c \in OS_TCB /\ c.dly = ticks /\ c.prio = tcb[x].prio /\ c.stat = tcb[x].stat
      /\ c.statpend = tcb[x].statpend /\ c.eventptr = tcb[x].eventptr /\ c.multiptr = tcb[x].multiptr
  BY <1>2, TasksAssumption DEF OS_TCB
<1>5. Scheduled /\ UNCHANGED <<OSLockNesting, OSTCBPrioTbl, OSEventTbl, pc, ecb, holds>>
  BY <1>1 DEF OSTimeDly, Scheduled
<1> HIDE DEF x, c
<1>6. pc[x].at = "task" /\ ticks # 0
  BY <1>1, TasksAssumption DEF InTask
<1>7. OutShape(c)
  BY <1>2, <1>4, <1>6 DEF Shape, OutShape
<1>8. Shape(c, pc[x], ecb) /\ ~Unans(c, pc[x]) /\ ~Runs(c, pc[x]) /\ ~Unans(tcb[x], pc[x])
  BY <1>4, <1>6, <1>7, ShapeOfOut DEF Unans
<1> QED
  BY <1>2, <1>3, <1>4, <1>5, <1>8, TcbStep

\* The task of a priority that a service is called for.
LEMMA TaskAt ==
  ASSUME KernelInv, NEW p \in Prios, OSTCBPrioTbl[p] \in Tasks
  PROVE  /\ OSTCBPrioTbl[p] \in LiveSet(pc) /\ tcb[OSTCBPrioTbl[p]] \in OS_TCB
         /\ Shape(tcb[OSTCBPrioTbl[p]], pc[OSTCBPrioTbl[p]], ecb) /\ Live(pc[OSTCBPrioTbl[p]])
<1>1. OSTCBPrioTbl[p] \in LiveSet(pc)
  BY DEF KernelInv, TableOK
<1> QED
  BY <1>1 DEF KernelInv, Data, LiveSet

LEMMA EndOfWaitTCB ==
  ASSUME NEW d \in OS_TCB, NEW c, d.dly = 0,
         c.stat = d.stat, c.eventptr = d.eventptr, c.multiptr = d.multiptr
  PROVE  EndOfWait(d) \in OS_TCB /\ EndOfWait(d).prio = d.prio /\ TimedOutTCB(c, EndOfWait(d))
<1> DEFINE s == IF d.stat \cap OS_STAT_PEND_ANY # {} THEN "TO" ELSE "OK"
           d1 == [d EXCEPT !.stat = d.stat \ OS_STAT_PEND_ANY]
           d2 == [d1 EXCEPT !.statpend = s]
<1>1. s \in {"OK", "TO", "ABORT"}
  OBVIOUS
<1>2. EndOfWait(d) = d2
  BY DEF EndOfWait
<1>3. s = IF PendBits(c) # {} THEN "TO" ELSE "OK"
  BY DEF PendBits
<1> HIDE DEF s
<1>4. d.stat \ OS_STAT_PEND_ANY \in SUBSET StatBits
  BY DEF OS_TCB
<1>5. /\ d1 \in OS_TCB /\ d1.stat = d.stat \ OS_STAT_PEND_ANY /\ d1.dly = d.dly /\ d1.prio = d.prio
      /\ d1.eventptr = d.eventptr /\ d1.multiptr = d.multiptr
  BY <1>4 DEF OS_TCB
<1> HIDE DEF d1
<1>6. /\ d2 \in OS_TCB /\ d2.stat = d1.stat /\ d2.dly = d1.dly /\ d2.prio = d1.prio /\ d2.statpend = s
      /\ d2.eventptr = d1.eventptr /\ d2.multiptr = d1.multiptr
  BY <1>1, <1>5 DEF OS_TCB
<1> HIDE DEF d2
<1> QED
  BY <1>2, <1>3, <1>5, <1>6 DEF TimedOutTCB

LEMMA OSTimeDlyResumeKernel ==
  ASSUME KernelInv, NEW p \in Prios, OSTimeDlyResume(p), ecb' = ecb, holds' = holds
  PROVE  KernelInv' /\ WaitsStay
<1> DEFINE x == OSTCBPrioTbl[p]
           c == EndOfWait([tcb[x] EXCEPT !.dly = 0])
<1>1. x \in Tasks /\ tcb[x].dly # 0 /\ tcb' = [tcb EXCEPT ![x] = c]
  BY DEF OSTimeDlyResume
<1>2. x \in LiveSet(pc) /\ tcb[x] \in OS_TCB /\ Shape(tcb[x], pc[x], ecb) /\ Live(pc[x])
  BY <1>1, TaskAt
<1>3. IF "SUSPEND" \notin tcb[x].stat THEN OSRdy' = OSRdy \cup {tcb[x].prio} /\ OS_Sched
      ELSE UNCHANGED <<OSRdy, schedVars>>
  BY DEF OSTimeDlyResume
<1>4. UNCHANGED <<OSLockNesting, OSTCBPrioTbl, OSEventTbl, pc, ecb, holds>>
  BY DEF OSTimeDlyResume
<1>5. c \in OS_TCB /\ c.prio = tcb[x].prio /\ TimedOutTCB(tcb[x], c)
  <2> DEFINE d == [tcb[x] EXCEPT !.dly = 0]
  <2>1. 0 \in 0..MaxDly
    BY TasksAssumption
  <2>2. d \in OS_TCB
    BY <1>2, <2>1 DEF OS_TCB
  <2>3. /\ d.dly = 0 /\ d.stat = tcb[x].stat /\ d.eventptr = tcb[x].eventptr
        /\ d.multiptr = tcb[x].multiptr /\ d.prio = tcb[x].prio
    BY <1>2 DEF OS_TCB
  <2>4. c = EndOfWait(d)
    OBVIOUS
  <2> HIDE DEF d, x, c
  <2> QED
    BY <2>2, <2>3, <2>4, EndOfWaitTCB
<1> HIDE DEF x, c
<1>6. /\ Shape(c, pc[x], ecb) /\ (Unans(c, pc[x]) <=> Unans(tcb[x], pc[x]))
      /\ Runs(c, pc[x]) <=> "SUSPEND" \notin tcb[x].stat
      /\ ~Runs(tcb[x], pc[x])
  BY <1>1, <1>2, <1>5, ShapeOfTimedOut
<1>7. Data(OSRdy, OSEventTbl, tcb, pc, ecb)
  BY DEF KernelInv
<1>8. OSRdy' = IF Runs(c, pc[x]) THEN OSRdy \cup {tcb[x].prio} ELSE OSRdy \ {tcb[x].prio}
  BY <1>2, <1>3, <1>6, <1>7, InLists
<1>9. Scheduled
  BY <1>3, ReadyAdded DEF Scheduled
<1> QED
  BY <1>1, <1>2, <1>4, <1>5, <1>6, <1>8, <1>9, TcbStep
LEMMA OSTaskSuspendKernel ==
  ASSUME KernelInv, NEW p \in Prios, OSTaskSuspend(p), Hazards = {}, ecb' = ecb, holds' = holds
  PROVE  KernelInv' /\ WaitsStay
<1> DEFINE x == OSTCBPrioTbl[p]
           c == [tcb[x] EXCEPT !.stat = @ \cup {"SUSPEND"}]
<1>1. /\ OSTCBCur \in Tasks /\ x \in Tasks /\ tcb' = [tcb EXCEPT ![x] = c]
      /\ OSRdy' = OSRdy \ {tcb[x].prio}
  BY DEF OSTaskSuspend, TaskCall
<1>2. /\ tcb[x].multiptr = {} /\ (pc[x].at = "pend" => pc[x].svc # "OSMutexPend")
      /\ x = OSTCBCur => p = Cur.prio /\ OSLockNesting = 0
  BY DEF OSTaskSuspend, InPendMulti
<1>3. x \in LiveSet(pc) /\ tcb[x] \in OS_TCB /\ Shape(tcb[x], pc[x], ecb) /\ Live(pc[x])
  BY <1>1, TaskAt
<1>4. UNCHANGED <<OSLockNesting, OSTCBPrioTbl, OSEventTbl, pc, ecb, holds>>
      /\ IF p = Cur.prio THEN OS_Sched ELSE UNCHANGED schedVars
  BY DEF OSTaskSuspend
<1>5. /\ c \in OS_TCB /\ c.dly = tcb[x].dly /\ c.prio = tcb[x].prio
      /\ c.stat = tcb[x].stat \cup {"SUSPEND"}
      /\ c.statpend = tcb[x].statpend /\ c.eventptr = tcb[x].eventptr /\ c.multiptr = tcb[x].multiptr
  <2>1. tcb[x].stat \cup {"SUSPEND"} \in SUBSET StatBits
    BY <1>3 DEF OS_TCB, StatBits
  <2> QED
    BY <1>3, <2>1 DEF OS_TCB
<1>6. x # OSTCBCur => p # Cur.prio /\ tcb[x].prio # Cur.prio
  <2>1. OSTCBCur \in LiveSet(pc) /\ Cur.prio \in Prios
    BY <1>1, CurrentRuns
  <2>2. OSTCBPrioTbl[Cur.prio] = OSTCBCur
    BY <2>1, TableGives DEF KernelInv, Cur
  <2>3. Uniq(tcb, pc)
    BY DEF KernelInv, Data
  <2> QED
    BY <1>3, <2>1, <2>2, <2>3 DEF Uniq, Cur
<1> HIDE DEF x, c
<1>7. Shape(c, pc[x], ecb) /\ (Unans(c, pc[x]) <=> Unans(tcb[x], pc[x])) /\ ~Runs(c, pc[x])
  BY <1>2, <1>3, <1>5, ShapeOfSuspended
<1>8. Scheduled
  <2>1. Cur.prio = OSPrioCur /\ OSPrioCur \in OSRdy
    BY <1>1, CurrentRuns, ReadyAdded
  <2> QED
    BY <1>1, <1>2, <1>4, <1>6, <2>1 DEF Scheduled
<1> QED
  BY <1>1, <1>3, <1>4, <1>5, <1>7, <1>8, TcbStep

LEMMA OSTaskResumeKernel ==
  ASSUME KernelInv, NEW p \in Prios, OSTaskResume(p), ecb' = ecb, holds' = holds
  PROVE  KernelInv' /\ WaitsStay
<1> DEFINE x == OSTCBPrioTbl[p]
           s == tcb[x].stat \ {"SUSPEND"}
           c == [tcb[x] EXCEPT !.stat = s]
<1>1. x \in Tasks /\ "SUSPEND" \in tcb[x].stat /\ tcb' = [tcb EXCEPT ![x] = c]
  BY DEF OSTaskResume
<1>2. UNCHANGED <<OSLockNesting, OSTCBPrioTbl, OSEventTbl, pc, ecb, holds>>
  BY DEF OSTaskResume
<1>3. x \in LiveSet(pc) /\ tcb[x] \in OS_TCB /\ Shape(tcb[x], pc[x], ecb) /\ Live(pc[x])
  BY <1>1, TaskAt
<1>4. IF s = {} /\ tcb[x].dly = 0 THEN OSRdy' = OSRdy \cup {tcb[x].prio} /\ OS_Sched
      ELSE UNCHANGED <<OSRdy, schedVars>>
  BY DEF OSTaskResume, OS_STAT_RDY
<1>5. /\ c \in OS_TCB /\ c.dly = tcb[x].dly /\ c.prio = tcb[x].prio /\ c.stat = s
      /\ c.statpend = tcb[x].statpend /\ c.eventptr = tcb[x].eventptr /\ c.multiptr = tcb[x].multiptr
  BY <1>3 DEF OS_TCB
<1> HIDE DEF c
<1>6. /\ Shape(c, pc[x], ecb) /\ (Unans(c, pc[x]) <=> Unans(tcb[x], pc[x])) /\ ~Runs(tcb[x], pc[x])
      /\ Runs(c, pc[x]) <=> c.stat = {} /\ tcb[x].dly = 0
  BY <1>1, <1>3, <1>5, ShapeOfResumed
<1>7. Data(OSRdy, OSEventTbl, tcb, pc, ecb)
  BY DEF KernelInv
<1>8. Scheduled
  BY <1>4, ReadyAdded DEF Scheduled
<1> HIDE DEF x, s
<1>9. OSRdy' = IF Runs(c, pc[x]) THEN OSRdy \cup {tcb[x].prio} ELSE OSRdy \ {tcb[x].prio}
  BY <1>3, <1>4, <1>5, <1>6, <1>7, InLists
<1> QED
  BY <1>1, <1>2, <1>3, <1>5, <1>6, <1>8, <1>9, TcbStep

\* A delay or a timeout that a tick does not end.
LEMMA ShapeOfTicked ==
  ASSUME NEW c, NEW c2, NEW k, NEW ecbs, Shape(c, k, ecbs), Live(k), c.dly # 0, c2.dly # 0,
         c2.stat = c.stat, c2.statpend = c.statpend, c2.eventptr = c.eventptr,
         c2.multiptr = c.multiptr
  PROVE  Shape(c2, k, ecbs) /\ (Unans(c2, k) <=> Unans(c, k)) /\ (Runs(c2, k) <=> Runs(c, k))
<1>1. Unans(c2, k) <=> Unans(c, k)
  BY DEF Unans, PendBits
<1>2. Runs(c2, k) <=> Runs(c, k)
  BY <1>1 DEF Runs
<1>3. ASSUME k.at = "pend"
      PROVE  WaitShape(c2, k)
  BY <1>1, <1>3 DEF Shape, WaitShape, PendBits
<1>4. ASSUME k.at = "pend", SingleShape(c, k, ecbs)
      PROVE  SingleShape(c2, k, ecbs)
  BY <1>1, <1>4 DEF SingleShape
<1>5. ASSUME MultiShape(c, k, ecbs)
      PROVE  MultiShape(c2, k, ecbs)
  BY <1>5 DEF MultiShape
<1>6. ASSUME FlagShape(c, k)
      PROVE  FlagShape(c2, k)
  BY <1>6 DEF FlagShape
<1> QED
  BY <1>1, <1>2, <1>3, <1>4, <1>5, <1>6 DEF Shape, OutShape

LEMMA OSTimeTickKernel ==
  ASSUME KernelInv, OSTimeTick, ecb' = ecb, holds' = holds
  PROVE  KernelInv' /\ WaitsStay
<1> DEFINE W == {t \in Tasks : Exists(t) /\ tcb[t].dly = 1}
           d(t) == [tcb[t] EXCEPT !.dly = @ - 1]
<1>1. Data(OSRdy, OSEventTbl, tcb, pc, ecb) /\ tcb \in [Tasks -> OS_TCB] /\ DOMAIN pc = Tasks
      /\ \A t \in Tasks : Shape(tcb[t], pc[t], ecb)
  BY DEF KernelInv, Data
<1>2. /\ tcb' = [t \in Tasks |-> IF ~Exists(t) \/ tcb[t].dly = 0 THEN tcb[t]
                                ELSE IF t \in W THEN EndOfWait(d(t)) ELSE d(t)]
      /\ OSRdy' = OSRdy \cup {tcb[t].prio : t \in {u \in W : "SUSPEND" \notin tcb[u].stat}}
      /\ UNCHANGED <<OSLockNesting, OSTCBPrioTbl, OSEventTbl, pc, ecb, holds>> /\ OS_Sched
  BY DEF OSTimeTick
<1>3. \A t \in Tasks : Exists(t) <=> Live(pc[t])
  BY DEF Exists, Live
<1>4. ASSUME NEW t \in Tasks, tcb[t].dly # 0
      PROVE  /\ d(t) \in OS_TCB /\ d(t).dly = tcb[t].dly - 1 /\ d(t).prio = tcb[t].prio
             /\ d(t).stat = tcb[t].stat /\ d(t).statpend = tcb[t].statpend
             /\ d(t).eventptr = tcb[t].eventptr /\ d(t).multiptr = tcb[t].multiptr
  <2>1. tcb[t] \in OS_TCB /\ tcb[t].dly \in 0..MaxDly /\ MaxDly \in Nat
    BY <1>1, TasksAssumption DEF OS_TCB
  <2>2. tcb[t].dly - 1 \in 0..MaxDly
    BY <1>4, <2>1
  <2> QED
    BY <2>1, <2>2 DEF OS_TCB
<1> HIDE DEF d
<1>5. ASSUME NEW t \in W
      PROVE  /\ t \in LiveSet(pc) /\ tcb'[t] \in OS_TCB /\ tcb'[t].prio = tcb[t].prio
             /\ Shape(tcb'[t], pc[t], ecb) /\ (Unans(tcb'[t], pc[t]) <=> Unans(tcb[t], pc[t]))
             /\ Runs(tcb'[t], pc[t]) <=> "SUSPEND" \notin tcb[t].stat
             /\ ~Runs(tcb[t], pc[t])
  <2>1. t \in Tasks /\ Exists(t) /\ tcb[t].dly = 1 /\ t \in LiveSet(pc) /\ Live(pc[t])
    BY <1>3 DEF LiveSet
  <2>2. tcb'[t] = EndOfWait(d(t))
    BY <1>2, <2>1
  <2>3. /\ d(t) \in OS_TCB /\ d(t).dly = 0 /\ d(t).prio = tcb[t].prio
        /\ d(t).stat = tcb[t].stat /\ d(t).eventptr = tcb[t].eventptr /\ d(t).multiptr = tcb[t].multiptr
    BY <1>4, <2>1
  <2>4. tcb'[t] \in OS_TCB /\ tcb'[t].prio = tcb[t].prio /\ TimedOutTCB(tcb[t], tcb'[t])
    BY <2>2, <2>3, EndOfWaitTCB
  <2>5. Shape(tcb[t], pc[t], ecb) /\ tcb[t].dly # 0
    BY <1>1, <2>1
  <2> QED
    BY <2>1, <2>4, <2>5, ShapeOfTimedOut
<1>6. ASSUME NEW t \in Tasks \ W
      PROVE  /\ tcb'[t] \in OS_TCB /\ tcb'[t].prio = tcb[t].prio
             /\ Shape(tcb'[t], pc[t], ecb) /\ (Unans(tcb'[t], pc[t]) <=> Unans(tcb[t], pc[t]))
             /\ Runs(tcb'[t], pc[t]) <=> Runs(tcb[t], pc[t])
  <2>1. Shape(tcb[t], pc[t], ecb) /\ tcb[t] \in OS_TCB /\ tcb[t].dly \in Nat
    BY <1>1, TasksAssumption DEF OS_TCB
  <2>2. CASE ~Exists(t) \/ tcb[t].dly = 0
    BY <1>2, <2>1, <2>2
  <2>3. CASE Exists(t) /\ tcb[t].dly # 0
    <3>1. tcb'[t] = d(t) /\ Live(pc[t]) /\ tcb[t].dly # 1
      BY <1>2, <1>3, <2>3
    <3>2. d(t).dly # 0
      BY <1>4, <2>1, <2>3, <3>1
    <3> QED
      BY <1>4, <2>1, <2>3, <3>1, <3>2, ShapeOfTicked
  <2> QED
    BY <2>2, <2>3
<1>7. W \in SUBSET LiveSet(pc) /\ W \in SUBSET Tasks
  BY <1>5
<1>8. {u \in W : "SUSPEND" \notin tcb[u].stat} = {t \in W : Runs(tcb'[t], pc[t])}
  BY <1>5
<1> HIDE DEF W
<1>9. Ends(W, tcb, pc, tcb', ecb')
  <2>1. tcb' \in [Tasks -> OS_TCB]
    <3>1. \A t \in Tasks : tcb'[t] \in OS_TCB
      BY <1>5, <1>6
    <3> QED
      BY <1>2, <3>1
  <2> QED
    BY <1>2, <1>5, <1>6, <2>1 DEF Ends
<1>10. EndsListed(W, OSRdy, OSEventTbl, tcb, pc, OSRdy', OSEventTbl', tcb')
  <2>1. OSRdy' = OSRdy \cup PriosOf(tcb, {t \in W : Runs(tcb'[t], pc[t])})
    BY <1>2, <1>8 DEF PriosOf
  <2>2. ASSUME NEW e \in Events
        PROVE  OSEventTbl'[e] = OSEventTbl[e] \ PriosOf(tcb,
                 {t \in W : e \in pc[t].on /\ Unans(tcb[t], pc[t]) /\ ~Unans(tcb'[t], pc[t])})
    <3>1. {t \in W : e \in pc[t].on /\ Unans(tcb[t], pc[t]) /\ ~Unans(tcb'[t], pc[t])} = {}
      BY <1>5
    <3>2. PriosOf(tcb, {}) = {}
      BY DEF PriosOf
    <3> QED
      BY <1>2, <3>1, <3>2
  <2> QED
    BY <1>1, <1>2, <2>1, <2>2 DEF EndsListed, Data
<1>11. Data(OSRdy', OSEventTbl', tcb', pc', ecb')
  <2>1. Data(OSRdy', OSEventTbl', tcb', pc, ecb')
    BY <1>1, <1>7, <1>9, <1>10, ManyData
  <2> QED
    BY <1>2, <2>1
<1>12. Kept(tcb, pc, tcb', pc')
  BY <1>2, <1>5, <1>6 DEF Kept
<1>13. \A t \in Tasks : Unans(tcb'[t], pc'[t]) <=> Unans(tcb[t], pc[t])
  BY <1>2, <1>5, <1>6
<1>14. SameMutexes(tcb, pc, ecb, tcb', pc', ecb')
  <2>1. \A e : WaitSet(tcb', pc', e) = WaitSet(tcb, pc, e)
    BY <1>2, <1>13 DEF WaitSet
  <2>2. \A t \in Tasks : \A e : Got(tcb'[t], pc'[t], e) <=> Got(tcb[t], pc[t], e)
    BY <1>2, <1>13 DEF Got
  <2>3. \A t \in Tasks : Owns(ecb, t) => t \in LiveSet(pc)
    BY Constants DEF KernelInv, OwnersOK, FreeMutex, OwnedMutex, Owns
  <2> QED
    BY <1>2, <1>12, <2>1, <2>2, <2>3 DEF SameMutexes, Kept, LiveSet
<1>15. Scheduled /\ OSLockNesting' \in {0, 1}
  BY <1>2, ReadyAdded DEF Scheduled, KernelInv
<1>16. KernelInv'
  BY <1>2, <1>11, <1>12, <1>14, <1>15, OtherStep
<1> QED
  BY <1>2, <1>13, <1>16 DEF WaitsStay

\* Where OSTaskChangePrio and OSTaskDel look for a task that no one has answered.
LEMMA EventsOfWaiting ==
  ASSUME NEW t \in Tasks, Shape(tcb[t], pc[t], ecb), Live(pc[t]), ~Answered(t), NEW e \in Events
  PROVE  e \in EventsOf(t) <=> t \in WaitSet(tcb, pc, e)
<1>1. Unanswered(t) <=> Unans(tcb[t], pc[t])
  BY DEF Unanswered, Unans, InPendMulti, PendBits
<1>2. NULL \notin Events
  BY TasksAssumption
<1>3. CASE pc[t].at \in {"task", "returned"}
  BY <1>3 DEF Shape, OutShape, EventsOf, WaitSet, Unans
<1>4. CASE pc[t].at = "pend" /\ ~Unans(tcb[t], pc[t])
  <2>1. EventsOf(t) = {}
    BY <1>1, <1>4 DEF Answered
  <2> QED
    BY <1>4, <2>1 DEF WaitSet
<1>5. CASE pc[t].at = "pend" /\ Unans(tcb[t], pc[t])
  <2>1. e \in pc[t].on <=> e \in EventsOf(t)
    BY <1>2, <1>5 DEF Shape, SingleShape, MultiShape, FlagShape, EventsOf
  <2> QED
    BY <1>5, <2>1 DEF WaitSet
<1> QED
  BY <1>3, <1>4, <1>5 DEF Shape, Live

LEMMA OSTaskChangePrioKernel ==
  ASSUME KernelInv, NEW p \in Prios, NEW q \in Prios, OSTaskChangePrio(p, q), NotesKept,
         Hazards = {}, ecb' = ecb, holds' = holds
  PROVE  KernelInv' /\ WaitsStay
<1> DEFINE x == OSTCBPrioTbl[p]
           c == [tcb[x] EXCEPT !.prio = q]
<1>1. /\ x \in Tasks /\ OSTCBPrioTbl[q] = NULL /\ (x = OSTCBCur => OSLockNesting = 0) /\ ~Answered(x)
      /\ OSTCBPrioTbl' = [OSTCBPrioTbl EXCEPT ![p] = NULL, ![q] = x]
      /\ OSRdy' = IF p \in OSRdy THEN (OSRdy \ {p}) \cup {q} ELSE OSRdy
      /\ tcb' = [tcb EXCEPT ![x] = c]
      /\ OSEventTbl' = [e \in Events |-> IF e \in EventsOf(x)
           THEN (OSEventTbl[e] \ {tcb[x].prio}) \cup {q} ELSE OSEventTbl[e]]
      /\ UNCHANGED <<OSLockNesting, pc, ecb, holds>> /\ OS_Sched
  BY DEF OSTaskChangePrio, MoveInWaitLists
<1>2. x \in LiveSet(pc) /\ tcb[x] \in OS_TCB /\ Shape(tcb[x], pc[x], ecb) /\ Live(pc[x])
  BY <1>1, TaskAt
<1>3. /\ Data(OSRdy, OSEventTbl, tcb, pc, ecb) /\ TableOK(OSTCBPrioTbl, tcb, pc, ecb)
      /\ OwnersOK(tcb, pc, ecb) /\ HoldsOK(tcb, pc, ecb, holds)
  BY DEF KernelInv
<1>4. tcb \in [Tasks -> OS_TCB]
  BY <1>3 DEF Data
<1>5. c \in OS_TCB /\ c.prio = q /\ SamePlaces(tcb[x], c)
  BY <1>2, Constants DEF OS_TCB, SamePlaces
<1>6. OSTCBPrioTbl[p] = x /\ x # NULL
  BY <1>1, Constants
<1> HIDE DEF c, x
<1>7. tcb' \in [Tasks -> OS_TCB] /\ tcb'[x] = c /\ \A t \in Tasks \ {x} : tcb'[t] = tcb[t]
  BY <1>1, <1>4, <1>5
<1>8. Moved(x, q, tcb, tcb')
  BY <1>5, <1>7 DEF Moved
<1>9. Fresh(q, tcb, pc) /\ p # q
  <2>1. OSTCBPrioTbl[q] \notin Tasks
    BY <1>1, Constants
  <2> QED
    BY <1>3, <1>6, <1>1, <2>1, TableGives
<1>10. ~Owns(ecb, x)
  <2> SUFFICES ASSUME Owns(ecb, x)
               PROVE  FALSE
    OBVIOUS
  <2>1. OwnsMutex(x)
    BY DEF Owns, OwnsMutex, IsMutex, Owner, Mutexes
  <2>2. tcb'[x].prio = tcb[x].prio
    BY <1>1, <2>1 DEF NotesKept
  <2> QED
    BY <1>2, <1>5, <1>7, <1>9, <2>2 DEF Fresh
<1>11. tcb[x].prio = p
  BY <1>1, <1>3, <1>6, <1>10, TableGivesOnce
<1>12. Data(OSRdy', OSEventTbl', tcb', pc, ecb)
  <2>1. \A e \in Events : OSEventTbl'[e] = IF x \in WaitSet(tcb, pc, e)
                                           THEN (OSEventTbl[e] \ {tcb[x].prio}) \cup {q} ELSE OSEventTbl[e]
    <3> TAKE e \in Events
    <3>1. e \in EventsOf(x) <=> x \in WaitSet(tcb, pc, e)
      BY <1>1, <1>2, EventsOfWaiting
    <3> QED
      BY <1>1, <3>1
  <2>2. DOMAIN OSEventTbl' = Events
    BY <1>1
  <2>3. OSRdy' = IF tcb[x].prio \in OSRdy THEN (OSRdy \ {tcb[x].prio}) \cup {q} ELSE OSRdy
    BY <1>1, <1>11
  <2>4. MovedLists(x, q, OSRdy, OSEventTbl, tcb, pc, OSRdy', OSEventTbl')
    BY <2>1, <2>2, <2>3 DEF MovedLists
  <2> QED
    BY <1>2, <1>3, <1>7, <1>8, <1>9, <2>4, MovedData
<1>13. TableOK(OSTCBPrioTbl', tcb', pc, ecb)
  BY <1>1, <1>3, <1>6, <1>8, <1>10, MovedTable
<1>14. SameMutexes(tcb, pc, ecb, tcb', pc, ecb)
  <2>1. \A t \in Tasks : SamePlaces(tcb[t], tcb'[t])
    BY <1>8 DEF Moved, SamePlaces
  <2>2. \A t \in Tasks : Unans(tcb'[t], pc[t]) <=> Unans(tcb[t], pc[t])
    BY <2>1 DEF SamePlaces, Unans, PendBits
  <2>3. \A e : WaitSet(tcb', pc, e) = WaitSet(tcb, pc, e)
    BY <2>2 DEF WaitSet
  <2>4. \A t \in Tasks : \A e : Got(tcb'[t], pc[t], e) <=> Got(tcb[t], pc[t], e)
    BY <2>2 DEF Got
  <2>5. \A t \in Tasks : Owns(ecb, t) => t \in LiveSet(pc) /\ t # x
    BY <1>10, Constants DEF KernelInv, OwnersOK, FreeMutex, OwnedMutex, Owns
  <2> QED
    BY <1>7, <2>3, <2>4, <2>5 DEF SameMutexes, LiveSet
<1>15. OwnersOK(tcb', pc, ecb) /\ HoldsOK(tcb', pc, ecb, holds)
  BY <1>3, <1>14, SameOwners
<1>16. OSPrioCur' \in OSRdy' /\ HasPrio(OSTCBCur', OSPrioCur', tcb', pc')
  <2>1. Data(OSRdy', OSEventTbl', tcb', pc', ecb') /\ TableOK(OSTCBPrioTbl', tcb', pc', ecb')
    BY <1>1, <1>12, <1>13
  <2>2. SchedFrom(OSPrioCur)
    BY <1>1 DEF OS_Sched
  <2>3. HasPrio(OSTCBCur, OSPrioCur, tcb, pc) /\ OSPrioCur \in OSRdy
    BY DEF KernelInv
  <2>4. CASE OSTCBCur = x
    <3>1. OSPrioCur = p
      BY <1>1, <1>11, <2>3, <2>4, Constants DEF HasPrio
    <3>2. OSPrioCur \notin OSRdy' /\ OSLockNesting' = 0
      BY <1>1, <1>9, <2>3, <2>4, <3>1
    <3> QED
      BY <2>1, <2>2, <3>2, SchedKeepsCurrent
  <2>5. CASE OSTCBCur # x
    <3>1. HasPrio(OSTCBCur, OSPrioCur, tcb', pc')
      BY <1>1, <1>7, <2>3, <2>5 DEF HasPrio, LiveSet
    <3>2. OSPrioCur # p
      <4>1. Uniq(tcb, pc)
        BY <1>3 DEF Data
      <4> QED
        BY <1>2, <1>11, <2>3, <2>5, <4>1, Constants DEF HasPrio, Uniq
    <3>3. OSPrioCur \in OSRdy'
      BY <1>1, <2>3, <3>2
    <3> QED
      BY <2>1, <2>2, <3>1, <3>3, SchedKeepsCurrent
  <2> QED
    BY <2>4, <2>5
<1>17. KernelInv'
  BY <1>1, <1>12, <1>13, <1>15, <1>16 DEF KernelInv
<1>18. WaitsStay
  BY <1>1, <1>8 DEF WaitsStay, Moved, SamePlaces, Unans, PendBits
<1> QED
  BY <1>17, <1>18

\* Nothing that is not an event is in the lists of a task that is answered: its
\* priority is not in the wait lists any more.
LEMMA NotInOtherLists ==
  ASSUME NEW t \in LiveSet(pc), Data(OSRdy, OSEventTbl, tcb, pc, ecb), NEW e \in Events,
         e \notin EventsOf(t)
  PROVE  tcb[t].prio \notin OSEventTbl[e]
<1>1. t \in Tasks /\ Live(pc[t]) /\ Shape(tcb[t], pc[t], ecb)
  BY DEF LiveSet, Data
<1>2. NULL \notin Events
  BY TasksAssumption
<1>3. ASSUME pc[t].at = "pend", Unans(tcb[t], pc[t])
      PROVE  e \notin pc[t].on
  BY <1>1, <1>2, <1>3 DEF Shape, SingleShape, MultiShape, FlagShape, EventsOf
<1>4. t \notin WaitSet(tcb, pc, e)
  BY <1>3 DEF WaitSet, Unans
<1> QED
  BY <1>4, InLists

\* A new control block: free of waiting and of delay, with its priority.
LEMMA FirstTCB ==
  ASSUME NEW p \in Prios
  PROVE  /\ NewTCB(p) \in OS_TCB /\ NewTCB(p).prio = p /\ OutShape(NewTCB(p))
         /\ NewTCB(p).stat = {} /\ NewTCB(p).dly = 0
<1>1. p \in AllPrios
  BY Constants
<1>2. 0 \in 0..MaxDly
  BY TasksAssumption
<1>3. {} \in SUBSET StatBits /\ {} \in SUBSET Events
  OBVIOUS
<1>4. NewTCB(p) \in OS_TCB
  BY <1>1, <1>2, <1>3 DEF NewTCB, OS_TCB, OS_STAT_RDY
<1> QED
  BY <1>4 DEF NewTCB, OS_STAT_RDY, OutShape

LEMMA DeleteTaskKernel ==
  ASSUME KernelInv, NEW p \in Prios, DeleteTask(p)
  PROVE  KernelInv'
<1> DEFINE x == OSTCBPrioTbl[p]
<1>1. /\ x \in Tasks /\ (x = OSTCBCur => OSLockNesting = 0)
      /\ OSTCBPrioTbl' = [OSTCBPrioTbl EXCEPT ![p] = NULL]
      /\ OSRdy' = OSRdy \ {tcb[x].prio}
      /\ tcb' = [tcb EXCEPT ![x] = NewTCB(InitPrio[x])]
      /\ pc' = [pc EXCEPT ![x] = Dormant]
      /\ OSEventTbl' = [e \in Events |-> IF e \in EventsOf(x)
           THEN OSEventTbl[e] \ {tcb[x].prio} ELSE OSEventTbl[e]]
      /\ OSLockNesting' = OSLockNesting /\ OS_Sched
  BY DEF DeleteTask, OSTaskDel
<1>2. ecb' = ecb /\ holds' = holds /\ ~Owns(ecb, x)
  BY DEF DeleteTask, eventVars, Owns, OwnsMutex, IsMutex, Owner, Mutexes
<1>3. x \in LiveSet(pc) /\ Shape(tcb[x], pc[x], ecb) /\ Live(pc[x]) /\ OSTCBPrioTbl[p] = x
  BY <1>1, TaskAt
<1>4. /\ Data(OSRdy, OSEventTbl, tcb, pc, ecb) /\ TableOK(OSTCBPrioTbl, tcb, pc, ecb)
      /\ OwnersOK(tcb, pc, ecb) /\ HoldsOK(tcb, pc, ecb, holds)
  BY DEF KernelInv
<1>5. tcb \in [Tasks -> OS_TCB] /\ DOMAIN pc = Tasks
  BY <1>4 DEF Data
<1>6. NewTCB(InitPrio[x]) \in OS_TCB
  <2> DEFINE q == InitPrio[x]
  <2>1. q \in Prios
    BY <1>1, TasksAssumption
  <2> HIDE DEF q
  <2>2. NewTCB(q) \in OS_TCB
    BY <2>1, FirstTCB
  <2> QED
    BY <2>2 DEF q
<1> HIDE DEF x
<1>7. /\ tcb' \in [Tasks -> OS_TCB] /\ DOMAIN pc' = Tasks /\ pc'[x] = Dormant
      /\ \A t \in Tasks \ {x} : tcb'[t] = tcb[t] /\ pc'[t] = pc[t]
  BY <1>1, <1>5, <1>6
<1>8. \A e \in Events : OSEventTbl'[e] = OSEventTbl[e] \ {tcb[x].prio}
  <2> TAKE e \in Events
  <2>1. e \notin EventsOf(x) => tcb[x].prio \notin OSEventTbl[e]
    BY <1>3, <1>4, NotInOtherLists
  <2> QED
    BY <1>1, <2>1
<1>9. Data(OSRdy', OSEventTbl', tcb', pc', ecb)
  <2>1. DOMAIN OSEventTbl' = Events
    BY <1>1
  <2>2. Data(OSRdy \ {tcb[x].prio}, OSEventTbl', tcb', pc', ecb)
    BY <1>3, <1>4, <1>7, <1>8, <2>1, DeletedData
  <2> QED
    BY <1>1, <1>2, <2>2
<1>10. TableOK(OSTCBPrioTbl', tcb', pc', ecb)
  <2>1. TableOK(OSTCBPrioTbl, tcb, pc, ecb)
    BY <1>4
  <2>2. x \in Tasks /\ ~Owns(ecb, x) /\ pc'[x] = Dormant
    BY <1>1, <1>2, <1>7
  <2>3. TableOK([OSTCBPrioTbl EXCEPT ![p] = NULL], tcb', pc', ecb)
    BY <1>3, <1>7, <2>1, <2>2, DeletedTable
  <2> QED
    BY <1>1, <1>2, <2>3
<1>11. ~Live(pc'[x]) /\ pc'[x].at # "pend"
  BY <1>7 DEF Dormant, Live
<1>12. SameMutexes(tcb, pc, ecb, tcb', pc', ecb)
  <2>1. \A e : WaitSet(tcb', pc', e) \subseteq WaitSet(tcb, pc, e)
    BY <1>7, <1>11 DEF WaitSet, Unans
  <2>2. ASSUME NEW e \in Mutexes(ecb), NEW t \in Tasks
        PROVE  Got(tcb'[t], pc'[t], e) <=> Got(tcb[t], pc[t], e)
    <3>1. CASE t = x
      <4>1. ~Got(tcb[x], pc[x], e)
        BY <1>2, <1>4, <3>1 DEF HoldsOK, Owns
      <4> QED
        BY <1>11, <3>1, <4>1 DEF Got
    <3> QED
      BY <1>7, <3>1
  <2>3. \A t \in Tasks : Owns(ecb, t) => t \in LiveSet(pc) /\ t # x
    BY <1>2, Constants DEF KernelInv, OwnersOK, FreeMutex, OwnedMutex, Owns
  <2> QED
    BY <1>7, <2>1, <2>2, <2>3 DEF SameMutexes, LiveSet
<1>13. OwnersOK(tcb', pc', ecb) /\ HoldsOK(tcb', pc', ecb, holds)
  BY <1>4, <1>12, SameOwners
<1>14. OSPrioCur' \in OSRdy' /\ HasPrio(OSTCBCur', OSPrioCur', tcb', pc')
  <2>1. Data(OSRdy', OSEventTbl', tcb', pc', ecb') /\ TableOK(OSTCBPrioTbl', tcb', pc', ecb')
    BY <1>2, <1>9, <1>10
  <2>2. SchedFrom(OSPrioCur)
    BY <1>1 DEF OS_Sched
  <2>3. HasPrio(OSTCBCur, OSPrioCur, tcb, pc) /\ OSPrioCur \in OSRdy
    BY DEF KernelInv
  <2>4. CASE OSTCBCur = x
    <3>1. OSPrioCur = tcb[x].prio
      BY <1>1, <2>3, <2>4, Constants DEF HasPrio
    <3>2. OSPrioCur \notin OSRdy' /\ OSLockNesting' = 0
      BY <1>1, <2>4, <3>1
    <3> QED
      BY <2>1, <2>2, <3>2, SchedKeepsCurrent
  <2>5. CASE OSTCBCur # x
    <3>1. HasPrio(OSTCBCur, OSPrioCur, tcb', pc')
      BY <1>1, <1>7, <2>3, <2>5 DEF HasPrio, LiveSet
    <3>2. OSPrioCur # tcb[x].prio
      <4>1. Uniq(tcb, pc) /\ tcb[x].prio \in Prios
        BY <1>3, <1>4 DEF Data
      <4> QED
        BY <1>3, <2>3, <2>5, <4>1, Constants DEF HasPrio, Uniq
    <3>3. OSPrioCur \in OSRdy'
      BY <1>1, <2>3, <3>2
    <3> QED
      BY <2>1, <2>2, <3>1, <3>3, SchedKeepsCurrent
  <2> QED
    BY <2>4, <2>5
<1> QED
  BY <1>1, <1>2, <1>9, <1>10, <1>13, <1>14 DEF KernelInv

LEMMA CreateTaskKernel ==
  ASSUME KernelInv, NEW x \in Tasks, CreateTask(x)
  PROVE  KernelInv'
<1> DEFINE q == InitPrio[x]
<1>1. /\ ~Exists(x) /\ OSTCBPrioTbl[q] = NULL
      /\ OSTCBPrioTbl' = [OSTCBPrioTbl EXCEPT ![q] = x]
      /\ OSRdy' = OSRdy \cup {q}
      /\ tcb' = [tcb EXCEPT ![x] = NewTCB(q)]
      /\ pc' = [pc EXCEPT ![x] = InTask]
      /\ UNCHANGED <<OSLockNesting, OSEventTbl, ecb, holds>> /\ OS_Sched
  BY DEF CreateTask, OSTaskCreate, eventVars
<1>2. q \in Prios
  BY TasksAssumption
<1> HIDE DEF q
<1>3. x \notin LiveSet(pc)
  BY <1>1 DEF Exists, LiveSet, Live
<1>4. /\ Data(OSRdy, OSEventTbl, tcb, pc, ecb) /\ TableOK(OSTCBPrioTbl, tcb, pc, ecb)
      /\ OwnersOK(tcb, pc, ecb) /\ HoldsOK(tcb, pc, ecb, holds)
  BY DEF KernelInv
<1>5. tcb \in [Tasks -> OS_TCB] /\ DOMAIN pc = Tasks
  BY <1>4 DEF Data
<1>6. NewTCB(q) \in OS_TCB /\ NewTCB(q).prio = q
  BY <1>2, FirstTCB
<1>7. /\ tcb' \in [Tasks -> OS_TCB] /\ DOMAIN pc' = Tasks /\ pc'[x] = InTask /\ tcb'[x] = NewTCB(q)
      /\ \A t \in Tasks \ {x} : tcb'[t] = tcb[t] /\ pc'[t] = pc[t]
  BY <1>1, <1>5, <1>6
<1>8. Fresh(q, tcb, pc)
  <2>1. OSTCBPrioTbl[q] \notin Tasks
    BY <1>1, Constants
  <2> QED
    BY <1>2, <1>4, <2>1, TableGives
<1>9. ~Owns(ecb, x)
  BY <1>3, Constants DEF KernelInv, OwnersOK, FreeMutex, OwnedMutex, Owns
<1>10. Data(OSRdy', OSEventTbl', tcb', pc', ecb)
  <2>1. Data(OSRdy \cup {q}, OSEventTbl, tcb', pc', ecb)
    BY <1>2, <1>3, <1>4, <1>7, <1>8, CreatedData
  <2> QED
    BY <1>1, <2>1
<1>11. TableOK(OSTCBPrioTbl', tcb', pc', ecb)
  <2>1. tcb'[x].prio = q
    BY <1>6, <1>7
  <2> QED
    BY <1>1, <1>2, <1>3, <1>4, <1>7, <1>9, <2>1, CreatedTable
<1>12. pc'[x].at # "pend" /\ pc[x].at # "pend"
  <2>1. Live(pc'[x]) /\ ~Live(pc[x])
    BY <1>1, <1>7 DEF InTask, Live, Exists
  <2> QED
    BY <1>7, <2>1 DEF InTask, Live
<1>13. SameMutexes(tcb, pc, ecb, tcb', pc', ecb)
  <2>1. \A e : WaitSet(tcb', pc', e) \subseteq WaitSet(tcb, pc, e)
    BY <1>7, <1>12 DEF WaitSet, Unans
  <2>2. \A t \in Tasks : \A e : Got(tcb'[t], pc'[t], e) <=> Got(tcb[t], pc[t], e)
    BY <1>7, <1>12 DEF Got
  <2>3. \A t \in Tasks : Owns(ecb, t) => t \in LiveSet(pc) /\ t # x
    BY <1>9, Constants DEF KernelInv, OwnersOK, FreeMutex, OwnedMutex, Owns
  <2> QED
    BY <1>7, <2>1, <2>2, <2>3 DEF SameMutexes, LiveSet
<1>14. OwnersOK(tcb', pc', ecb) /\ HoldsOK(tcb', pc', ecb, holds)
  BY <1>4, <1>13, SameOwners
<1>15. OSPrioCur' \in OSRdy' /\ HasPrio(OSTCBCur', OSPrioCur', tcb', pc')
  <2>1. Data(OSRdy', OSEventTbl', tcb', pc', ecb') /\ TableOK(OSTCBPrioTbl', tcb', pc', ecb')
    BY <1>1, <1>10, <1>11
  <2>2. HasPrio(OSTCBCur, OSPrioCur, tcb, pc) /\ OSPrioCur \in OSRdy
    BY DEF KernelInv
  <2>3. HasPrio(OSTCBCur, OSPrioCur, tcb', pc')
    <3>1. OSTCBCur # x \/ OSTCBCur = IdleTask
      BY <1>3, <2>2 DEF HasPrio
    <3> QED
      BY <1>3, <1>7, <2>2, <3>1, Constants DEF HasPrio, LiveSet
  <2>4. Scheduled
    BY <1>1, <2>2 DEF Scheduled
  <2> QED
    BY <2>1, <2>3, <2>4, CurrentKept
<1> QED
  BY <1>1, <1>10, <1>11, <1>14, <1>15 DEF KernelInv
-----------------------------------------------------------------------------
(* The event services *)

\* Nobody waits for an event control block that is not in use.
LEMMA UnusedEvent ==
  ASSUME NEW rdy, NEW tbl, NEW tcbs, NEW pcs, NEW ecbs, Data(rdy, tbl, tcbs, pcs, ecbs),
         NEW e \in Events, ecbs[e].type = "UNUSED"
  PROVE  /\ \A t \in Tasks : pcs[t].at = "pend" /\ (tcbs[t].multiptr # {} \/ Unans(tcbs[t], pcs[t]))
                               => e \notin pcs[t].on
         /\ WaitSet(tcbs, pcs, e) = {} /\ tbl[e] = {}
<1>1. ASSUME NEW t \in Tasks, pcs[t].at = "pend", tcbs[t].multiptr # {} \/ Unans(tcbs[t], pcs[t])
      PROVE  e \notin pcs[t].on
  <2>1. Shape(tcbs[t], pcs[t], ecbs)
    BY DEF Data
  <2> QED
    BY <1>1, <2>1 DEF Shape, SingleShape, MultiShape, FlagShape, EventTypes, PostTypes
<1>2. WaitSet(tcbs, pcs, e) = {}
  BY <1>1 DEF WaitSet, Unans
<1>3. tbl[e] = PriosOf(tcbs, WaitSet(tcbs, pcs, e))
  BY DEF Data
<1> QED
  BY <1>1, <1>2, <1>3 DEF PriosOf

\* The next free event control block.
LEMMA NextEvent ==
  ASSUME PoolsInv, OSEventFreeList # <<>>
  PROVE  Head(OSEventFreeList) \in Events /\ ecb[Head(OSEventFreeList)].type = "UNUSED"
<1>1. OSEventFreeList \in Seq(Events) /\ Lists(OSEventFreeList, UnusedEvents)
  BY DEF PoolsInv
<1>2. Head(OSEventFreeList) \in UnusedEvents
  BY <1>1, TailLists
<1> QED
  BY <1>2 DEF UnusedEvents

\* Only event control blocks change, and no mutex.
LEMMA EcbStep ==
  ASSUME KernelInv, UNCHANGED <<OSRdy, OSPrioCur, OSTCBCur, OSLockNesting, OSTCBPrioTbl, tcb,
                                pc, holds>>,
         DOMAIN OSEventTbl' = Events, \A e \in Events : OSEventTbl'[e] = OSEventTbl[e],
         \A t \in Tasks : TypesFor(tcb[t], pc[t], ecb, ecb'),
         Mutexes(ecb') = Mutexes(ecb), \A e \in Mutexes(ecb) : ecb'[e] = ecb[e]
  PROVE  KernelInv'
<1>1. /\ Data(OSRdy, OSEventTbl, tcb, pc, ecb) /\ OwnersOK(tcb, pc, ecb)
      /\ HoldsOK(tcb, pc, ecb, holds) /\ TableOK(OSTCBPrioTbl, tcb, pc, ecb)
  BY DEF KernelInv
<1>2. Data(OSRdy, OSEventTbl', tcb, pc, ecb')
  <2>1. Data(OSRdy, OSEventTbl, tcb, pc, ecb')
    BY <1>1, EventsData
  <2> QED
    BY <2>1 DEF Data
<1>3. SameMutexes(tcb, pc, ecb, tcb, pc, ecb')
  <2>1. \A t \in Tasks : Owns(ecb, t) => Live(pc[t])
    BY <1>1, Constants DEF OwnersOK, FreeMutex, OwnedMutex, Owns, LiveSet
  <2> QED
    BY <2>1 DEF SameMutexes
<1>4. OwnersOK(tcb, pc, ecb') /\ HoldsOK(tcb, pc, ecb', holds)
  BY <1>1, <1>3, SameOwners
<1>5. Kept(tcb, pc, tcb, pc)
  BY DEF Kept
<1>6. TableOK(OSTCBPrioTbl, tcb, pc, ecb')
  BY <1>1, <1>5, SameTable
<1> QED
  BY <1>2, <1>4, <1>6 DEF KernelInv

LEMMA CreateEventKernel ==
  ASSUME KernelInv, PoolsInv, NEW type \in PostTypes, NEW cnt, NEW ptr,
         CreateEvent(type, cnt, ptr), holds' = holds
  PROVE  KernelInv'
<1> DEFINE e == Head(OSEventFreeList)
<1>1. e \in Events /\ ecb[e].type = "UNUSED"
  BY NextEvent DEF CreateEvent
<1>2. Data(OSRdy, OSEventTbl, tcb, pc, ecb) /\ DOMAIN ecb = Events
  BY DEF KernelInv, PoolsInv, EcbShape
<1>3. ecb' = [ecb EXCEPT ![e] = [type |-> type, cnt |-> cnt, ptr |-> ptr]]
  BY DEF CreateEvent
<1>4. /\ OSEventTbl' = [OSEventTbl EXCEPT ![e] = {}]
      /\ UNCHANGED <<OSRdy, OSPrioCur, OSTCBCur, OSLockNesting, OSTCBPrioTbl, tcb, pc>>
  BY DEF CreateEvent
<1> HIDE DEF e
<1>5. ecb'[e].type = type /\ \A f \in Events \ {e} : ecb'[f] = ecb[f]
  BY <1>1, <1>2, <1>3
<1>6. /\ \A t \in Tasks : pc[t].at = "pend" /\ (tcb[t].multiptr # {} \/ Unans(tcb[t], pc[t]))
                            => e \notin pc[t].on
      /\ OSEventTbl[e] = {}
  BY <1>1, <1>2, UnusedEvent
<1>7. DOMAIN OSEventTbl' = Events /\ \A f \in Events : OSEventTbl'[f] = OSEventTbl[f]
  BY <1>1, <1>2, <1>4, <1>6 DEF Data
<1>8. \A t \in Tasks : TypesFor(tcb[t], pc[t], ecb, ecb')
  <2> TAKE t \in Tasks
  <2>1. Shape(tcb[t], pc[t], ecb)
    BY <1>2 DEF Data
  <2>2. pc[t].at = "pend" => pc[t].on \in SUBSET Events
    BY <2>1 DEF Shape, SingleShape, MultiShape, FlagShape
  <2> QED
    BY <1>5, <1>6, <2>2 DEF TypesFor
<1>9. Mutexes(ecb') = Mutexes(ecb) /\ \A f \in Mutexes(ecb) : ecb'[f] = ecb[f]
  BY <1>1, <1>5 DEF Mutexes, PostTypes
<1> QED
  BY <1>4, <1>7, <1>8, <1>9, EcbStep

\* What an event holds changes, and nobody is waiting for it.
LEMMA StoreStep ==
  ASSUME KernelInv, UNCHANGED taskVars, holds' = holds, SameKinds(ecb, ecb')
  PROVE  KernelInv'
<1>1. \A t \in Tasks : TypesFor(tcb[t], pc[t], ecb, ecb')
  <2> TAKE t \in Tasks
  <2>1. Shape(tcb[t], pc[t], ecb)
    BY DEF KernelInv, Data
  <2> QED
    BY <2>1, KindsStay
<1>2. Mutexes(ecb') = Mutexes(ecb) /\ \A e \in Mutexes(ecb) : ecb'[e] = ecb[e]
  BY DEF SameKinds, Mutexes
<1>3. DOMAIN OSEventTbl = Events
  BY DEF KernelInv, Data
<1> QED
  BY <1>1, <1>2, <1>3, EcbStep DEF taskVars

\* Taking items changes no event's type and no mutex.
LEMMA TakeKeepsKinds ==
  ASSUME PoolsInv, NEW S, Take(S)
  PROVE  SameKinds(ecb, ecb')
<1> SUFFICES ASSUME NEW e \in Events
             PROVE  ecb'[e].type = ecb[e].type /\ (ecb[e].type = "MUTEX" => ecb'[e] = ecb[e])
  BY DEF SameKinds
<1>1. ecb'[e] = IF e \notin S THEN ecb[e]
                ELSE IF ecb[e].type = "SEM" THEN [ecb[e] EXCEPT !.cnt = @ - 1]
                ELSE IF ecb[e].type = "MBOX" THEN [ecb[e] EXCEPT !.ptr = NULL] ELSE ecb[e]
  BY Zenon DEF Take
<1>2. DOMAIN ecb[e] = {"type", "cnt", "ptr"}
  BY DEF PoolsInv, EcbShape
<1>3. [ecb[e] EXCEPT !.cnt = @ - 1].type = ecb[e].type /\ [ecb[e] EXCEPT !.ptr = NULL].type = ecb[e].type
  BY <1>2
<1> QED
  BY <1>1, <1>3

LEMMA TakeNowKernel ==
  ASSUME KernelInv, PoolsInv, NEW S, pc[OSTCBCur] = InTask, OSTCBCur \in Tasks,
         TakeNow(S), holds' = holds
  PROVE  KernelInv'
<1> DEFINE x == OSTCBCur
           k == Returned("NONE", {<<e, FirstMessage(e)>> : e \in S})
<1>1. /\ x \in LiveSet(pc) /\ Runs(tcb[x], pc[x]) /\ Shape(tcb[x], pc[x], ecb) /\ x \in Tasks
  BY CurrentRuns DEF Cur
<1>2. Data(OSRdy, OSEventTbl, tcb, pc, ecb)
  BY DEF KernelInv
<1>3. /\ tcb' = tcb /\ OSRdy' = OSRdy /\ OSEventTbl' = OSEventTbl /\ OSTCBPrioTbl' = OSTCBPrioTbl
      /\ OSLockNesting' = OSLockNesting /\ UNCHANGED schedVars
      /\ pc' = [pc EXCEPT ![x] = k]
  BY DEF TakeNow, schedVars
<1>4. tcb \in [Tasks -> OS_TCB] /\ DOMAIN pc = Tasks
  BY <1>2 DEF Data
<1>5. k.at = "returned" /\ pc[x].at = "task"
  BY DEF Returned, InTask
<1>6. SameKinds(ecb, ecb')
  BY TakeKeepsKinds DEF TakeNow
<1> HIDE DEF x, k
<1>7. pc'[x] = k /\ DOMAIN pc' = Tasks /\ \A t \in Tasks \ {x} : pc'[t] = pc[t]
  BY <1>1, <1>3, <1>4
<1>8. OutShape(tcb[x]) /\ tcb[x].stat = {} /\ tcb[x].dly = 0
  BY <1>1, <1>5, ShapeOfRunning DEF Shape
<1>9. Shape(tcb[x], k, ecb) /\ ~Unans(tcb[x], k) /\ Runs(tcb[x], k)
  BY <1>5, <1>8, ShapeOfOut
<1>10. OneChanges(x, tcb, pc, tcb', pc', ecb)
  BY <1>3, <1>4, <1>5, <1>7, <1>9 DEF OneChanges, Live
<1>11. OSRdy' = OSRdy \cup {tcb[x].prio}
  BY <1>1, <1>2, <1>3, InLists
<1>12. ~Unans(tcb[x], pc[x]) /\ \A e : ~Got(tcb[x], pc[x], e) /\ ~Got(tcb'[x], pc'[x], e)
  BY <1>5, <1>7 DEF Unans, Got
<1>13. OSLockNesting' \in {0, 1} /\ Scheduled
  BY <1>3, ReadyAdded DEF KernelInv, Scheduled
<1> QED
  BY <1>1, <1>3, <1>5, <1>6, <1>7, <1>9, <1>10, <1>11, <1>12, <1>13, ListedStep

\* The running task starts to wait: it leaves the ready list and enters the wait
\* lists of the events it is to wait for.
LEMMA WaitStep ==
  ASSUME KernelInv, OSTCBCur \in Tasks, pc[OSTCBCur] = InTask, OSLockNesting = 0,
         NEW c \in OS_TCB, NEW k, c.prio = Cur.prio, k.at = "pend",
         Shape(c, k, ecb), Unans(c, k), ~Runs(c, k), k.on \in SUBSET Events,
         ~Owns(ecb, OSTCBCur), \A e \in Mutexes(ecb) : e \notin k.on,
         tcb' = [tcb EXCEPT ![OSTCBCur] = c], pc' = [pc EXCEPT ![OSTCBCur] = k],
         OSRdy' = OSRdy \ {Cur.prio}, OSEventTbl' = EnterWaitLists(OSEventTbl, k.on, Cur.prio),
         UNCHANGED <<OSLockNesting, OSTCBPrioTbl, ecb, holds>>, OS_Sched
  PROVE  KernelInv'
<1> DEFINE x == OSTCBCur
<1>1. x \in Tasks /\ x \in LiveSet(pc) /\ tcb[x].prio = Cur.prio
  BY CurrentRuns DEF Cur
<1>2. Data(OSRdy, OSEventTbl, tcb, pc, ecb)
  BY DEF KernelInv
<1>3. tcb \in [Tasks -> OS_TCB] /\ DOMAIN pc = Tasks
  BY <1>2 DEF Data
<1>4. pc[x].at = "task"
  BY DEF InTask
<1>5. tcb' = [tcb EXCEPT ![x] = c] /\ pc' = [pc EXCEPT ![x] = k] /\ ~Owns(ecb, x)
  OBVIOUS
<1> HIDE DEF x
<1>6. /\ tcb' \in [Tasks -> OS_TCB] /\ DOMAIN pc' = Tasks /\ tcb'[x] = c /\ pc'[x] = k
      /\ \A t \in Tasks \ {x} : tcb'[t] = tcb[t] /\ pc'[t] = pc[t]
  BY <1>1, <1>3, <1>5
<1>7. OneChanges(x, tcb, pc, tcb', pc', ecb)
  BY <1>1, <1>6 DEF OneChanges, Live
<1>8. OneListed(x, tcb[x].prio, OSRdy, OSEventTbl, OSRdy', OSEventTbl', tcb', pc')
  <2>1. DOMAIN OSEventTbl' = Events
    BY DEF EnterWaitLists
  <2>2. ASSUME NEW e \in Events
        PROVE  OSEventTbl'[e] = IF e \in k.on THEN OSEventTbl[e] \cup {tcb[x].prio}
                                              ELSE OSEventTbl[e] \ {tcb[x].prio}
    <3>1. ~Unans(tcb[x], pc[x])
      BY <1>4 DEF Unans
    <3>2. OSEventTbl[e] \ {tcb[x].prio} = OSEventTbl[e]
      BY <1>1, <1>2, <3>1, WaitsAgree
    <3>3. OSEventTbl'[e] = IF e \in k.on THEN OSEventTbl[e] \cup {tcb[x].prio} ELSE OSEventTbl[e]
      BY <1>1 DEF EnterWaitLists
    <3> QED
      BY <3>2, <3>3
  <2> QED
    BY <1>1, <1>6, <2>1, <2>2 DEF OneListed
<1>9. Quiet(x, tcb[x], pc[x], tcb'[x], pc'[x], ecb)
  BY <1>4, <1>5, <1>6 DEF Quiet, Got
<1>10. SameKinds(ecb, ecb') /\ OSLockNesting' \in {0, 1} /\ Scheduled
  BY DEF SameKinds, Scheduled
<1> QED
  BY <1>1, <1>7, <1>8, <1>9, <1>10, OneStep

\* The notes of OSMutexPend keep a task that owns a mutex out of other pends.
LEMMA NoOwnerPends ==
  ASSUME NotesKept, NEW t \in Tasks, pc[t].at # "pend", pc'[t].at = "pend"
  PROVE  ~Owns(ecb, t)
<1>1. OwnsMutex(t) <=> Owns(ecb, t)
  BY DEF OwnsMutex, IsMutex, Owner, Owns, Mutexes
<1> QED
  BY <1>1 DEF NotesKept

LEMMA WaitingFields ==
  ASSUME NEW c \in OS_TCB, NEW bits \in SUBSET StatBits, NEW timeout \in 0..MaxDly,
         NEW d, d = WaitingTCB(c, bits, timeout)
  PROVE  /\ d \in OS_TCB /\ d.prio = c.prio /\ d.stat = c.stat \cup bits /\ d.statpend = "OK"
         /\ d.dly = timeout /\ d.eventptr = c.eventptr /\ d.multiptr = c.multiptr
<1> DEFINE d1 == [c EXCEPT !.stat = @ \cup bits]
           d2 == [d1 EXCEPT !.statpend = "OK"]
           d3 == [d2 EXCEPT !.dly = timeout]
<1>1. /\ d1 \in OS_TCB /\ d1.prio = c.prio /\ d1.stat = c.stat \cup bits /\ d1.dly = c.dly
      /\ d1.eventptr = c.eventptr /\ d1.multiptr = c.multiptr /\ d1.statpend = c.statpend
  BY DEF OS_TCB
<1> HIDE DEF d1
<1>2. /\ d2 \in OS_TCB /\ d2.prio = c.prio /\ d2.stat = c.stat \cup bits /\ d2.statpend = "OK"
      /\ d2.eventptr = c.eventptr /\ d2.multiptr = c.multiptr
  BY <1>1 DEF OS_TCB
<1> HIDE DEF d2
<1>3. /\ d3 \in OS_TCB /\ d3.prio = c.prio /\ d3.stat = c.stat \cup bits /\ d3.statpend = "OK"
      /\ d3.dly = timeout /\ d3.eventptr = c.eventptr /\ d3.multiptr = c.multiptr
  BY <1>2, TasksAssumption DEF OS_TCB
<1> HIDE DEF d3
<1>4. d = d3
  BY DEF d1, d2, d3, WaitingTCB
<1> QED
  BY <1>3, <1>4

LEMMA PendOnKernel ==
  ASSUME KernelInv, PoolsInv, NEW name, NEW type \in PostTypes, NEW e \in Events,
         NEW timeout \in 0..MaxDly, NEW svc \in SinglePends \ {"OSMutexPend"},
         CanPend(name, e, type), PendOn(svc, e, timeout), NotesKept, holds' = holds
  PROVE  KernelInv'
<1>1. OSTCBCur \in Tasks /\ pc[OSTCBCur] = InTask /\ OSLockNesting = 0 /\ ecb[e].type = type
  BY DEF CanPend, TaskCall
<1>2. CASE TakeNow({e})
  BY <1>1, <1>2, TakeNowKernel
<1>3. CASE /\ OS_EventTaskWait(svc, ecb[e].type, e, timeout)
           /\ UNCHANGED <<calls, OSLockNesting, OSTCBPrioTbl, eventVars>>
           /\ OS_Sched
  <2> DEFINE x == OSTCBCur
             d == WaitingTCB(tcb[x], {type}, timeout)
             c == [d EXCEPT !.eventptr = e]
             k == Pending(svc, {e})
  <2>1. /\ x \in LiveSet(pc) /\ Runs(tcb[x], pc[x]) /\ Shape(tcb[x], pc[x], ecb) /\ tcb[x] \in OS_TCB
        /\ Cur.prio = tcb[x].prio
    BY <1>1, CurrentRuns DEF Cur
  <2>2. pc[x].at = "task" /\ k.at = "pend" /\ k.svc = svc /\ k.on = {e}
    BY <1>1 DEF InTask, Pending
  <2>3. OutShape(tcb[x]) /\ tcb[x].stat = {}
    BY <2>1, <2>2, ShapeOfRunning DEF Shape
  <2>4. /\ tcb' = [tcb EXCEPT ![x] = c] /\ pc' = [pc EXCEPT ![x] = k]
        /\ OSEventTbl' = EnterWaitLists(OSEventTbl, {e}, Cur.prio) /\ OSRdy' = OSRdy \ {Cur.prio}
        /\ UNCHANGED <<OSLockNesting, OSTCBPrioTbl, ecb, holds>> /\ OS_Sched
    BY <1>1, <1>3 DEF OS_EventTaskWait, eventVars
  <2>5. {type} \in SUBSET StatBits /\ type \in EventTypes /\ type # "MUTEX"
    BY DEF StatBits, OS_STAT_PEND_ANY, PostTypes, EventTypes
  <2>6. /\ d \in OS_TCB /\ d.prio = tcb[x].prio /\ d.stat = {type} /\ d.statpend = "OK"
        /\ d.multiptr = {}
    BY <2>1, <2>3, <2>5, WaitingFields DEF OutShape
  <2> HIDE DEF d, k
  <2>7. c \in OS_TCB /\ c.prio = tcb[x].prio /\ WaitingSingle(c, k, e, type)
    BY <2>2, <2>5, <2>6 DEF OS_TCB, WaitingSingle
  <2> HIDE DEF c
  <2>8. Shape(c, k, ecb) /\ Unans(c, k) /\ ~Runs(c, k)
    BY <1>1, <2>5, <2>7, ShapeOfWaiting
  <2>9. DOMAIN pc = Tasks
    BY DEF KernelInv, Data
  <2>10. pc'[x] = k
    BY <1>1, <2>4, <2>9
  <2> HIDE DEF x
  <2>11. ~Owns(ecb, x)
    BY <1>1, <2>2, <2>10, NoOwnerPends DEF x
  <2>12. \A f \in Mutexes(ecb) : f \notin k.on
    BY <1>1, <2>2, <2>5 DEF Mutexes
  <2> QED
    BY <1>1, <2>1, <2>2, <2>4, <2>7, <2>8, <2>11, <2>12, WaitStep DEF x
<1> QED
  BY <1>2, <1>3 DEF PendOn

LEMMA PendMultiKernel ==
  ASSUME KernelInv, PoolsInv, NEW S \in SUBSET Events, S # {}, NEW timeout \in 0..MaxDly,
         OSEventPendMulti(S, timeout), NotesKept, holds' = holds
  PROVE  KernelInv'
<1> DEFINE bits == {ecb[e].type : e \in S} \cup {"MULTI"}
<1>1. /\ OSTCBCur \in Tasks /\ pc[OSTCBCur] = InTask /\ OSLockNesting = 0
      /\ \A e \in S : ecb[e].type \in PostTypes
  BY DEF OSEventPendMulti, TaskCall, PostTypes
<1>2. CASE TakeNow({e \in S : Available(e)})
  BY <1>1, <1>2, TakeNowKernel
<1>3. CASE /\ OS_EventTaskWaitMulti("OSEventPendMulti", bits, S, timeout)
           /\ UNCHANGED <<calls, OSLockNesting, OSTCBPrioTbl, eventVars>>
           /\ OS_Sched
  <2> DEFINE x == OSTCBCur
             d == WaitingTCB(tcb[x], bits, timeout)
             d1 == [d EXCEPT !.eventptr = NULL]
             c == [d1 EXCEPT !.multiptr = S]
             k == Pending("OSEventPendMulti", S)
  <2>1. /\ x \in LiveSet(pc) /\ Runs(tcb[x], pc[x]) /\ Shape(tcb[x], pc[x], ecb) /\ tcb[x] \in OS_TCB
        /\ Cur.prio = tcb[x].prio
    BY <1>1, CurrentRuns DEF Cur
  <2>2. pc[x].at = "task" /\ k.at = "pend" /\ k.svc = "OSEventPendMulti" /\ k.on = S
    BY <1>1 DEF InTask, Pending
  <2>3. OutShape(tcb[x]) /\ tcb[x].stat = {}
    BY <2>1, <2>2, ShapeOfRunning DEF Shape
  <2>4. /\ tcb' = [tcb EXCEPT ![x] = c] /\ pc' = [pc EXCEPT ![x] = k]
        /\ OSEventTbl' = EnterWaitLists(OSEventTbl, S, Cur.prio) /\ OSRdy' = OSRdy \ {Cur.prio}
        /\ UNCHANGED <<OSLockNesting, OSTCBPrioTbl, ecb, holds>> /\ OS_Sched
    BY <1>3 DEF OS_EventTaskWaitMulti, eventVars
  <2>5. bits \in SUBSET StatBits
    BY <1>1 DEF StatBits, OS_STAT_PEND_ANY, PostTypes
  <2> HIDE DEF bits
  <2>6. /\ d \in OS_TCB /\ d.prio = tcb[x].prio /\ d.stat = bits /\ d.statpend = "OK"
    <3>1. tcb[x].stat \cup bits = bits
      BY <2>3
    <3>2. d \in OS_TCB /\ d.prio = tcb[x].prio /\ d.stat = tcb[x].stat \cup bits /\ d.statpend = "OK"
      BY <2>1, <2>5, WaitingFields
    <3> QED
      BY <3>1, <3>2
  <2> HIDE DEF d, k
  <2>7. d1 \in OS_TCB /\ d1.prio = tcb[x].prio /\ d1.stat = bits /\ d1.statpend = "OK" /\ d1.eventptr = NULL
    BY <2>6 DEF OS_TCB
  <2> HIDE DEF d1
  <2>8. c \in OS_TCB /\ c.prio = tcb[x].prio /\ WaitingMulti(c, k, S, {ecb[e].type : e \in S})
    BY <2>2, <2>7 DEF OS_TCB, WaitingMulti, bits
  <2> HIDE DEF c
  <2>9. Shape(c, k, ecb) /\ Unans(c, k) /\ ~Runs(c, k)
    BY <1>1, <2>8, ShapeOfWaiting
  <2>10. pc'[x] = k
    BY <1>1, <2>4 DEF KernelInv, Data
  <2> HIDE DEF x
  <2>11. ~Owns(ecb, x)
    BY <1>1, <2>2, <2>10, NoOwnerPends DEF x
  <2>12. \A f \in Mutexes(ecb) : f \notin k.on
    BY <1>1, <2>2 DEF Mutexes, PostTypes
  <2> QED
    BY <1>1, <2>1, <2>2, <2>4, <2>8, <2>9, <2>11, <2>12, WaitStep DEF x
<1> QED
  BY <1>2, <1>3 DEF OSEventPendMulti

LEMMA PostKernel ==
  ASSUME KernelInv, NEW e \in Events, ecb[e].type \in PostTypes, NEW msg \in Msgs \cup {NULL},
         NEW all \in BOOLEAN, NEW sched \in BOOLEAN, PostToWaiters(e, msg, all, sched), holds' = holds
  PROVE  KernelInv'
<1> DEFINE W == IF all THEN Waiters(e) ELSE {HighestWaiter(e)}
<1>1. /\ OSEventTbl[e] # {} /\ ReadyWaiters(W, e, msg, "OK") /\ ecb' = ecb
      /\ OS_Sched \/ UNCHANGED schedVars
  BY DEF PostToWaiters, eventVars
<1>2. W \in SUBSET WaitSet(tcb, pc, e)
  BY <1>1, WaitersOf
<1>3. OthersKept(e, ecb, ecb')
  BY <1>1 DEF OthersKept
<1> HIDE DEF W
<1> QED
  BY <1>1, <1>2, <1>3, AnswersStep

LEMMA AbortKernel ==
  ASSUME KernelInv, NEW e \in Events, ecb[e].type \in PostTypes,
         NEW all \in BOOLEAN, AbortWaiters(e, all), holds' = holds
  PROVE  KernelInv'
<1> DEFINE W == IF all THEN Waiters(e) ELSE {HighestWaiter(e)}
<1>1. OSEventTbl[e] # {} /\ ReadyWaiters(W, e, NULL, "ABORT") /\ ecb' = ecb /\ OS_Sched
  BY DEF AbortWaiters, eventVars
<1>2. W \in SUBSET WaitSet(tcb, pc, e)
  BY <1>1, WaitersOf
<1>3. OthersKept(e, ecb, ecb')
  BY <1>1 DEF OthersKept
<1> HIDE DEF W
<1> QED
  BY <1>1, <1>2, <1>3, AnswersStep

LEMMA DeleteKernel ==
  ASSUME KernelInv, PoolsInv, Hazards = {}, NEW e \in Events, ecb[e].type \in PostTypes,
         NEW always \in BOOLEAN, DeleteEvent(e, always), holds' = holds
  PROVE  KernelInv'
<1> DEFINE W == Waiters(e)
<1>1. /\ ReadyWaiters(W, e, NULL, "OK") /\ ecb' = [ecb EXCEPT ![e] = UnusedECB]
      /\ OS_Sched \/ UNCHANGED schedVars
      /\ \A t \in Tasks : e \notin tcb[t].multiptr
  BY DEF DeleteEvent
<1>2. W = WaitSet(tcb, pc, e)
  BY WaitersOf
<1>3. DOMAIN ecb = Events
  BY DEF PoolsInv, EcbShape
<1>4. OthersKept(e, ecb, ecb') /\ ecb'[e].type # "MUTEX"
  BY <1>1, <1>3 DEF OthersKept, UnusedECB
<1> HIDE DEF W
<1> QED
  BY <1>1, <1>2, <1>4, AnswersStep

\* What is stored in one event changes.
LEMMA StoreOne ==
  ASSUME PoolsInv, NEW e \in Events, ecb[e].type \in PostTypes,
         \/ \E n : ecb' = [ecb EXCEPT ![e].cnt = n]
         \/ \E m : ecb' = [ecb EXCEPT ![e].ptr = m]
         \/ ecb' = ecb
  PROVE  SameKinds(ecb, ecb')
<1>1. DOMAIN ecb = Events /\ DOMAIN ecb[e] = {"type", "cnt", "ptr"}
  BY DEF PoolsInv, EcbShape
<1>2. CASE \E n : ecb' = [ecb EXCEPT ![e].cnt = n]
  BY <1>1, <1>2 DEF SameKinds, PostTypes
<1>3. CASE \E m : ecb' = [ecb EXCEPT ![e].ptr = m]
  BY <1>1, <1>3 DEF SameKinds, PostTypes
<1>4. CASE ecb' = ecb
  BY <1>4 DEF SameKinds
<1> QED
  BY <1>2, <1>3, <1>4

LEMMA AcceptKernel ==
  ASSUME KernelInv, PoolsInv, holds' = holds, NEW name, NEW e \in Events, NEW type,
         Accept(name, e, type)
  PROVE  KernelInv'
<1>1. CASE TaskCall(name) /\ TakeNow({e})
  BY <1>1, TakeNowKernel DEF TaskCall
<1>2. CASE Take({e}) /\ UNCHANGED taskVars
  BY <1>2, TakeKeepsKinds, StoreStep
<1> QED
  BY <1>1, <1>2 DEF Accept

LEMMA SemKernel ==
  ASSUME KernelInv, PoolsInv, Hazards = {}, NotesKept, holds' = holds, NEW e \in Events, SemCall(e)
  PROVE  KernelInv'
<1>1. ASSUME NEW timeout \in 0..MaxDly, OSSemPend(e, timeout)
      PROVE  KernelInv'
  <2>1. "SEM" \in PostTypes /\ "OSSemPend" \in SinglePends \ {"OSMutexPend"}
    BY DEF PostTypes, SinglePends
  <2> QED
    BY <1>1, <2>1, PendOnKernel DEF OSSemPend
<1>2. CASE OSSemAccept(e)
  BY <1>2, AcceptKernel DEF OSSemAccept, PostTypes
<1>3. CASE OSSemPost(e)
  <2>1. ecb[e].type \in PostTypes
    BY <1>3 DEF OSSemPost, PostTypes
  <2>2. CASE PostToWaiters(e, NULL, FALSE, TRUE)
    BY <2>1, <2>2, PostKernel
  <2>3. CASE ecb' = [ecb EXCEPT ![e].cnt = @ + 1] /\ UNCHANGED taskVars
    <3>1. SameKinds(ecb, ecb')
      BY <2>1, <2>3, StoreOne
    <3> QED
      BY <2>3, <3>1, StoreStep
  <2> QED
    BY <1>3, <2>2, <2>3 DEF OSSemPost, taskVars
<1>4. ASSUME NEW cnt \in 0..SemMax, OSSemSet(e, cnt)
      PROVE  KernelInv'
  <2>1. SameKinds(ecb, ecb')
    BY <1>4, StoreOne DEF OSSemSet, PostTypes
  <2> QED
    BY <1>4, <2>1, StoreStep DEF OSSemSet, taskVars
<1>5. ASSUME NEW all \in BOOLEAN, OSSemPendAbort(e, all)
      PROVE  KernelInv'
  BY <1>5, AbortKernel DEF OSSemPendAbort, PostTypes
<1>6. ASSUME NEW all \in BOOLEAN, OSSemDel(e, all)
      PROVE  KernelInv'
  BY <1>6, DeleteKernel DEF OSSemDel, PostTypes
<1> QED
  BY <1>1, <1>2, <1>3, <1>4, <1>5, <1>6 DEF SemCall

LEMMA MboxPostKernel ==
  ASSUME KernelInv, PoolsInv, holds' = holds, NEW e \in Events, NEW msg \in Msgs,
         NEW all \in BOOLEAN, NEW sched \in BOOLEAN, OSMboxPostOpt(e, msg, all, sched)
  PROVE  KernelInv'
<1>1. ecb[e].type \in PostTypes
  BY DEF OSMboxPostOpt, PostTypes
<1>2. CASE PostToWaiters(e, msg, all, sched)
  BY <1>1, <1>2, PostKernel
<1>3. CASE ecb' = [ecb EXCEPT ![e].ptr = msg] /\ UNCHANGED taskVars
  <2>1. SameKinds(ecb, ecb')
    BY <1>1, <1>3, StoreOne
  <2> QED
    BY <1>3, <2>1, StoreStep
<1> QED
  BY <1>2, <1>3 DEF OSMboxPostOpt, taskVars

LEMMA MboxKernel ==
  ASSUME KernelInv, PoolsInv, Hazards = {}, NotesKept, holds' = holds, NEW e \in Events, MboxCall(e)
  PROVE  KernelInv'
<1>1. ASSUME NEW timeout \in 0..MaxDly, OSMboxPend(e, timeout)
      PROVE  KernelInv'
  <2>1. "MBOX" \in PostTypes /\ "OSMboxPend" \in SinglePends \ {"OSMutexPend"}
    BY DEF PostTypes, SinglePends
  <2> QED
    BY <1>1, <2>1, PendOnKernel DEF OSMboxPend
<1>2. CASE OSMboxAccept(e)
  BY <1>2, AcceptKernel DEF OSMboxAccept, PostTypes
<1>3. ASSUME NEW msg \in Msgs, OSMboxPost(e, msg)
      PROVE  KernelInv'
  BY <1>3, MboxPostKernel DEF OSMboxPost
<1>4. ASSUME NEW msg \in Msgs, NEW all \in BOOLEAN, NEW sched \in BOOLEAN,
             OSMboxPostOpt(e, msg, all, sched)
      PROVE  KernelInv'
  BY <1>4, MboxPostKernel
<1>5. ASSUME NEW all \in BOOLEAN, OSMboxPendAbort(e, all)
      PROVE  KernelInv'
  BY <1>5, AbortKernel DEF OSMboxPendAbort, PostTypes
<1>6. ASSUME NEW all \in BOOLEAN, OSMboxDel(e, all)
      PROVE  KernelInv'
  BY <1>6, DeleteKernel DEF OSMboxDel, PostTypes
<1> QED
  BY <1>1, <1>2, <1>3, <1>4, <1>5, <1>6 DEF MboxCall

LEMMA QPostKernel ==
  ASSUME KernelInv, PoolsInv, holds' = holds, NEW e \in Events, NEW msg \in Msgs \cup {NULL},
         NEW front \in BOOLEAN, NEW all \in BOOLEAN, NEW sched \in BOOLEAN,
         OSQPostOpt(e, msg, front, all, sched)
  PROVE  KernelInv'
<1>1. ecb[e].type \in PostTypes
  BY DEF OSQPostOpt, PostTypes
<1>2. CASE PostToWaiters(e, msg, all, sched)
  BY <1>1, <1>2, PostKernel
<1>3. CASE ecb' = ecb /\ UNCHANGED taskVars
  <2>1. SameKinds(ecb, ecb')
    BY <1>1, <1>3, StoreOne
  <2> QED
    BY <1>3, <2>1, StoreStep
<1> QED
  BY <1>2, <1>3 DEF OSQPostOpt, taskVars

LEMMA QKernel ==
  ASSUME KernelInv, PoolsInv, Hazards = {}, NotesKept, holds' = holds, NEW e \in Events, QCall(e)
  PROVE  KernelInv'
<1>1. ASSUME NEW timeout \in 0..MaxDly, OSQPend(e, timeout)
      PROVE  KernelInv'
  <2>1. "Q" \in PostTypes /\ "OSQPend" \in SinglePends \ {"OSMutexPend"}
    BY DEF PostTypes, SinglePends
  <2> QED
    BY <1>1, <2>1, PendOnKernel DEF OSQPend
<1>2. CASE OSQAccept(e)
  BY <1>2, AcceptKernel DEF OSQAccept, PostTypes
<1>3. CASE OSQFlush(e)
  <2>1. SameKinds(ecb, ecb')
    BY <1>3 DEF OSQFlush, SameKinds
  <2> QED
    BY <1>3, <2>1, StoreStep DEF OSQFlush, taskVars
<1>4. ASSUME NEW msg \in Msgs \cup {NULL}, OSQPost(e, msg) \/ OSQPostFront(e, msg)
      PROVE  KernelInv'
  <2>1. CASE OSQPost(e, msg)
    BY <2>1, QPostKernel DEF OSQPost
  <2>2. CASE OSQPostFront(e, msg)
    BY <2>2, QPostKernel DEF OSQPostFront
  <2> QED
    BY <1>4, <2>1, <2>2
<1>5. ASSUME NEW msg \in Msgs \cup {NULL}, NEW front \in BOOLEAN, NEW all \in BOOLEAN,
             NEW sched \in BOOLEAN,
             OSQPostOpt(e, msg, front, all, sched)
      PROVE  KernelInv'
  BY <1>5, QPostKernel
<1>6. ASSUME NEW all \in BOOLEAN, OSQPendAbort(e, all)
      PROVE  KernelInv'
  BY <1>6, AbortKernel DEF OSQPendAbort, PostTypes
<1>7. ASSUME NEW all \in BOOLEAN, OSQDel(e, all)
      PROVE  KernelInv'
  BY <1>7, DeleteKernel DEF OSQDel, PostTypes
<1> QED
  BY <1>1, <1>2, <1>3, <1>4, <1>5, <1>6, <1>7 DEF QCall

LEMMA EventsKernel ==
  ASSUME KernelInv, PoolsInv, Hazards = {}, NotesKept, holds' = holds, EventsNext
  PROVE  KernelInv'
<1>1. ASSUME NEW cnt \in 0..SemMax, OSSemCreate(cnt)
      PROVE  KernelInv'
  BY <1>1, CreateEventKernel DEF OSSemCreate, PostTypes
<1>2. ASSUME NEW msg \in Msgs \cup {NULL}, OSMboxCreate(msg)
      PROVE  KernelInv'
  BY <1>2, CreateEventKernel DEF OSMboxCreate, PostTypes
<1>3. CASE OSQCreate
  BY <1>3, CreateEventKernel DEF OSQCreate, PostTypes
<1>4. ASSUME NEW e \in Events, SemCall(e) \/ MboxCall(e) \/ QCall(e)
      PROVE  KernelInv'
  BY <1>4, SemKernel, MboxKernel, QKernel
<1>5. ASSUME NEW S \in (SUBSET Events) \ {{}}, NEW timeout \in 0..MaxDly, OSEventPendMulti(S, timeout)
      PROVE  KernelInv'
  <2>1. S \in SUBSET Events /\ S # {}
    OBVIOUS
  <2> QED
    BY <1>5, <2>1, PendMultiKernel
<1> QED
  BY <1>1, <1>2, <1>3, <1>4, <1>5 DEF EventsNext

-----------------------------------------------------------------------------
(* The return from a pend *)

LEMMA LeftFields ==
  ASSUME NEW c \in OS_TCB, NEW d,
         d = [c EXCEPT !.stat = OS_STAT_RDY, !.statpend = "OK", !.eventptr = NULL,
                       !.multiptr = {}, !.msg = NULL]
  PROVE  d \in OS_TCB /\ d.prio = c.prio /\ d.dly = c.dly /\ OutShape(d) /\ d.stat = {}
<1> DEFINE d1 == [c EXCEPT !.stat = {}]
           d2 == [d1 EXCEPT !.statpend = "OK"]
           d3 == [d2 EXCEPT !.eventptr = NULL]
           d4 == [d3 EXCEPT !.multiptr = {}]
           d5 == [d4 EXCEPT !.msg = NULL]
<1>1. d1 \in OS_TCB /\ d1.prio = c.prio /\ d1.dly = c.dly /\ d1.stat = {}
  BY DEF OS_TCB
<1> HIDE DEF d1
<1>2. d2 \in OS_TCB /\ d2.prio = c.prio /\ d2.dly = c.dly /\ d2.stat = {} /\ d2.statpend = "OK"
  BY <1>1 DEF OS_TCB
<1> HIDE DEF d2
<1>3. /\ d3 \in OS_TCB /\ d3.prio = c.prio /\ d3.dly = c.dly /\ d3.stat = {} /\ d3.statpend = "OK"
      /\ d3.eventptr = NULL
  BY <1>2 DEF OS_TCB
<1> HIDE DEF d3
<1>4. /\ d4 \in OS_TCB /\ d4.prio = c.prio /\ d4.dly = c.dly /\ d4.stat = {} /\ d4.statpend = "OK"
      /\ d4.eventptr = NULL /\ d4.multiptr = {}
  BY <1>3 DEF OS_TCB
<1> HIDE DEF d4
<1>5. /\ d5 \in OS_TCB /\ d5.prio = c.prio /\ d5.dly = c.dly /\ d5.stat = {} /\ d5.statpend = "OK"
      /\ d5.eventptr = NULL /\ d5.multiptr = {}
  BY <1>4 DEF OS_TCB
<1> HIDE DEF d5
<1>6. d = d5
  BY DEF d1, d2, d3, d4, d5, OS_STAT_RDY
<1> QED
  BY <1>5, <1>6 DEF OutShape

\* The running task leaves its pend, out of the wait lists it may still be in.
LEMMA ReturnStep ==
  ASSUME KernelInv, OSTCBCur \in Tasks, pc[OSTCBCur].at = "pend",
         NEW c \in OS_TCB, NEW k, c.prio = Cur.prio, c.dly = Cur.dly, OutShape(c), c.stat = {},
         k.at \in {"task", "returned"},
         k.at = "task" => pc[OSTCBCur].svc # "OSMutexPend",
         tcb' = [tcb EXCEPT ![OSTCBCur] = c], pc' = [pc EXCEPT ![OSTCBCur] = k],
         \/ OSEventTbl' = OSEventTbl /\ (~Unans(Cur, pc[OSTCBCur]) \/ pc[OSTCBCur].on = {})
         \/ Withdraw(pc[OSTCBCur].on),
         UNCHANGED <<OSRdy, OSPrioCur, OSTCBCur, OSLockNesting, OSTCBPrioTbl, ecb>>,
         holds' = [holds EXCEPT ![OSTCBCur] =
                     @ \cup {e \in Mutexes(ecb) : Got(Cur, pc[OSTCBCur], e)}]
  PROVE  KernelInv'
<1> DEFINE x == OSTCBCur
<1>1. /\ x \in LiveSet(pc) /\ Runs(tcb[x], pc[x]) /\ Shape(tcb[x], pc[x], ecb) /\ x \in Tasks
      /\ tcb[x] = Cur /\ pc[x].at = "pend"
  BY CurrentRuns DEF Cur
<1>2. /\ Data(OSRdy, OSEventTbl, tcb, pc, ecb) /\ OwnersOK(tcb, pc, ecb)
      /\ HoldsOK(tcb, pc, ecb, holds) /\ TableOK(OSTCBPrioTbl, tcb, pc, ecb)
  BY DEF KernelInv
<1>3. tcb \in [Tasks -> OS_TCB] /\ DOMAIN pc = Tasks
  BY <1>2 DEF Data
<1>4. tcb[x].dly = 0
  BY <1>1, ShapeOfRunning
<1>5. Shape(c, k, ecb) /\ ~Unans(c, k) /\ Runs(c, k)
  BY <1>1, <1>4, ShapeOfOut
<1>6. /\ tcb' = [tcb EXCEPT ![x] = c] /\ pc' = [pc EXCEPT ![x] = k]
      /\ holds' = [holds EXCEPT ![x] = @ \cup {e \in Mutexes(ecb) : Got(tcb[x], pc[x], e)}]
  BY <1>1
<1>7. /\ DOMAIN OSEventTbl' = Events
      /\ \A e \in Events : OSEventTbl'[e] = OSEventTbl[e] \ {tcb[x].prio}
  <2>1. ASSUME OSEventTbl' = OSEventTbl, ~Unans(tcb[x], pc[x]) \/ pc[x].on = {}
        PROVE  /\ DOMAIN OSEventTbl' = Events
               /\ \A e \in Events : OSEventTbl'[e] = OSEventTbl[e] \ {tcb[x].prio}
    <3>1. \A e \in Events : OSEventTbl[e] \ {tcb[x].prio} = OSEventTbl[e]
      BY <1>1, <1>2, <2>1, WaitsAgree
    <3> QED
      BY <1>2, <2>1, <3>1 DEF Data
  <2>2. ASSUME Withdraw(pc[x].on)
        PROVE  /\ DOMAIN OSEventTbl' = Events
               /\ \A e \in Events : OSEventTbl'[e] = OSEventTbl[e] \ {tcb[x].prio}
    <3>1. \A e \in Events : e \notin pc[x].on => OSEventTbl[e] \ {tcb[x].prio} = OSEventTbl[e]
      BY <1>1, <1>2, WaitsAgree
    <3> QED
      BY <1>1, <2>2, <3>1 DEF Withdraw
  <2> QED
    BY <1>1, <2>1, <2>2
<1> HIDE DEF x
<1>8. /\ tcb' \in [Tasks -> OS_TCB] /\ DOMAIN pc' = Tasks /\ tcb'[x] = c /\ pc'[x] = k
      /\ \A t \in Tasks \ {x} : tcb'[t] = tcb[t] /\ pc'[t] = pc[t]
  BY <1>1, <1>3, <1>6
<1>9. OneChanges(x, tcb, pc, tcb', pc', ecb)
  BY <1>1, <1>5, <1>8 DEF OneChanges, Live
<1>10. OneListed(x, tcb[x].prio, OSRdy, OSEventTbl, OSRdy', OSEventTbl', tcb', pc')
  <2>1. OSRdy' = OSRdy \cup {tcb[x].prio}
    BY <1>1, <1>2, InLists
  <2> QED
    BY <1>5, <1>7, <1>8, <2>1 DEF OneListed
<1>11. Data(OSRdy', OSEventTbl', tcb', pc', ecb) /\ Kept(tcb, pc, tcb', pc')
  BY <1>1, <1>2, <1>9, <1>10, OneData
<1>12. TableOK(OSTCBPrioTbl, tcb', pc', ecb)
  BY <1>2, <1>11, SameTable
<1>13. HasPrio(OSTCBCur, OSPrioCur, tcb', pc')
  BY <1>11, SamePrio
<1>14. OwnersOK(tcb', pc', ecb) /\ HoldsOK(tcb', pc', ecb, holds')
  <2>1. \A t \in Tasks : Shape(tcb[t], pc[t], ecb)
    BY <1>2 DEF Data
  <2>2. tcb'[x].prio = tcb[x].prio
    BY <1>1, <1>8
  <2>3. CASE k.at = "returned"
    <3>1. pc'[x].at = "returned"
      BY <1>8, <2>3
    <3>2. LeavesPend(x, tcb, pc, ecb, holds, tcb', pc', holds')
      BY <1>1, <1>6, <1>8, <2>2, <3>1 DEF LeavesPend
    <3> QED
      BY <1>2, <2>1, <3>2, LeftPend
  <2>4. CASE k.at = "task"
    <3>1. \A e : ~Got(tcb[x], pc[x], e) /\ ~Got(tcb'[x], pc'[x], e)
      BY <1>8, <2>4 DEF Got, x
    <3>2. holds' = holds
      BY <1>1, <1>2, <1>6, <3>1 DEF HoldsOK
    <3>3. SameMutexes(tcb, pc, ecb, tcb', pc', ecb)
      <4>1. ASSUME NEW e \in Mutexes(ecb)
            PROVE  /\ WaitSet(tcb', pc', e) \subseteq WaitSet(tcb, pc, e)
                   /\ \A t \in Tasks : Got(tcb'[t], pc'[t], e) <=> Got(tcb[t], pc[t], e)
        BY <1>5, <1>8, <3>1 DEF WaitSet
      <4>2. \A t \in Tasks : Owns(ecb, t) => Live(pc[t])
        BY <1>2, Constants DEF OwnersOK, FreeMutex, OwnedMutex, Owns, LiveSet
      <4>3. \A t \in Tasks : pc'[t].at = "pend" => pc[t].at = "pend"
        BY <1>8, <2>4
      <4> QED
        BY <1>11, <4>1, <4>2, <4>3 DEF SameMutexes, Kept
    <3>4. OwnersOK(tcb', pc', ecb) /\ HoldsOK(tcb', pc', ecb, holds)
      BY <1>2, <3>3, SameOwners
    <3> QED
      BY <3>2, <3>4
  <2> QED
    BY <2>3, <2>4
<1> QED
  BY <1>11, <1>12, <1>13, <1>14 DEF KernelInv

\* The second half of a pend, other than OSFlagPend.
LEMMA PendReturnsKernel ==
  ASSUME KernelInv, SwitchReturns = TRUE, MutexPendReturns
  PROVE  KernelInv'
<1> DEFINE x == OSTCBCur
           d == [tcb[x] EXCEPT !.stat = OS_STAT_RDY, !.statpend = "OK", !.eventptr = NULL,
                               !.multiptr = {}, !.msg = NULL]
<1>1. /\ x \in Tasks /\ pc[x].at = "pend" /\ pc[x].svc # "OSFlagPend" /\ Cur = tcb[x]
      /\ IF pc[x].svc = "OSEventPendMulti" THEN PendMultiTail ELSE PendTail
      /\ UNCHANGED <<OSRdy, OSPrioCur, OSTCBCur, OSLockNesting, OSTCBPrioTbl, ecb>>
  BY DEF MutexPendReturns, PendReturns, eventVars, Cur
<1>2. /\ Runs(tcb[x], pc[x]) /\ Shape(tcb[x], pc[x], ecb) /\ tcb[x] \in OS_TCB
  BY <1>1, CurrentRuns
<1>3. DOMAIN pc = Tasks /\ holds \in [Tasks -> SUBSET Events]
  BY DEF KernelInv, Data, HoldsOK
<1>4. Unans(tcb[x], pc[x]) <=> tcb[x].statpend = "TO"
  BY <1>1, <1>2 DEF Runs, Unans
<1> DEFINE Leaves(err) == /\ tcb' = [tcb EXCEPT ![x] = d]
                          /\ pc'[x].err = err
                          /\ \E k : k.at = "returned" /\ pc' = [pc EXCEPT ![x] = k]
<1>5. ASSUME NEW err, NEW got, LeavePend(err, got)
      PROVE  Leaves(err)
  <2>1. Returned(err, got).at = "returned" /\ Returned(err, got).err = err
    BY DEF Returned
  <2>2. tcb' = [tcb EXCEPT ![x] = d] /\ pc' = [pc EXCEPT ![x] = Returned(err, got)]
    BY <1>5 DEF LeavePend
  <2> QED
    BY <1>1, <1>3, <2>1, <2>2
<1> HIDE DEF d, Leaves
<1>6. \/ tcb[x].statpend = "TO" /\ Withdraw(pc[x].on) /\ Leaves("TO")
      \/ /\ tcb[x].statpend # "TO" /\ OSEventTbl' = OSEventTbl
         /\ \/ Leaves("NONE")
            \/ Leaves("ABORT") /\ tcb[x].statpend = "ABORT"
  <2>1. CASE pc[x].svc = "OSEventPendMulti"
    <3>1. MultiShape(tcb[x], pc[x], ecb)
      BY <1>1, <1>2, <2>1 DEF Shape, SinglePends
    <3>2. tcb[x].eventptr = NULL => tcb[x].statpend = "TO"
      BY <1>1, <1>4, <3>1 DEF Unans, MultiShape
    <3>3. tcb[x].statpend # "TO" => ecb[tcb[x].eventptr].type # "UNUSED"
      BY <3>1, <3>2 DEF MultiShape, PostTypes
    <3>4. PendMultiTail
      BY <1>1, <2>1
    <3>5. CASE PendTimedOut /\ tcb[x].statpend = "TO"
      BY <1>5, <3>5 DEF PendTimedOut
    <3>6. CASE OSEventTbl' = OSEventTbl /\ tcb[x].statpend = "ABORT" /\ LeavePend("ABORT", Answer(Cur.eventptr))
      BY <1>5, <3>6
    <3>7. CASE OSEventTbl' = OSEventTbl /\ tcb[x].statpend = "OK" /\ LeavePend("NONE", Answer(Cur.eventptr))
      BY <1>5, <3>7
    <3> QED
      BY <1>1, <3>2, <3>3, <3>4, <3>5, <3>6, <3>7 DEF PendMultiTail
  <2>2. CASE pc[x].svc # "OSEventPendMulti"
    <3>1. PendTail
      BY <1>1, <2>2
    <3>2. CASE PendTimedOut /\ tcb[x].statpend = "TO"
      BY <1>5, <3>2 DEF PendTimedOut
    <3>3. CASE OSEventTbl' = OSEventTbl /\ tcb[x].statpend = "ABORT" /\ LeavePend("ABORT", Answer(Cur.eventptr))
      BY <1>5, <3>3
    <3>4. CASE OSEventTbl' = OSEventTbl /\ tcb[x].statpend = "OK" /\ LeavePend("NONE", Answer(Cur.eventptr))
      BY <1>5, <3>4
    <3> QED
      BY <1>1, <3>1, <3>2, <3>3, <3>4 DEF PendTail
  <2> QED
    BY <2>1, <2>2
<1>7. PICK k : k.at = "returned" /\ pc' = [pc EXCEPT ![x] = k]
  BY <1>6 DEF Leaves
<1>8. d \in OS_TCB /\ d.prio = tcb[x].prio /\ d.dly = tcb[x].dly /\ OutShape(d) /\ d.stat = {}
  BY <1>2, LeftFields DEF d
<1>9. holds' = [holds EXCEPT ![x] = @ \cup {e \in Mutexes(ecb) : Got(tcb[x], pc[x], e)}]
  <2>1. holds' = IF pc[x].svc = "OSMutexPend" /\ pc'[x].err = "NONE"
                 THEN [holds EXCEPT ![x] = @ \cup {e \in pc[x].on : IsMutex(e)}] ELSE holds
    BY DEF MutexPendReturns
  <2>2. CASE pc[x].svc = "OSMutexPend" /\ pc'[x].err = "NONE"
    <3>1. SingleShape(tcb[x], pc[x], ecb)
      BY <1>1, <1>2, <2>2 DEF Shape
    <3>2. tcb[x].statpend # "TO"
      BY <1>6, <2>2 DEF Leaves
    <3>3. {e \in pc[x].on : IsMutex(e)} = {e \in Mutexes(ecb) : Got(tcb[x], pc[x], e)}
      BY <1>1, <1>4, <2>2, <3>1, <3>2 DEF SingleShape, Got, IsMutex, Mutexes
    <3> QED
      BY <2>1, <2>2, <3>3
  <2>3. CASE ~(pc[x].svc = "OSMutexPend" /\ pc'[x].err = "NONE")
    <3>1. pc[x].svc = "OSMutexPend" => tcb[x].statpend # "ABORT"
      <4> SUFFICES ASSUME pc[x].svc = "OSMutexPend"
                   PROVE  tcb[x].statpend # "ABORT"
        OBVIOUS
      <4>1. SingleShape(tcb[x], pc[x], ecb)
        BY <1>1, <1>2 DEF Shape
      <4> QED
        BY <4>1 DEF SingleShape
    <3>2. pc[x].svc = "OSMutexPend" => tcb[x].statpend = "TO"
      BY <1>6, <2>3, <3>1 DEF Leaves
    <3>3. {e \in Mutexes(ecb) : Got(tcb[x], pc[x], e)} = {}
      BY <1>4, <3>2 DEF Got
    <3> QED
      BY <1>3, <2>1, <2>3, <3>3
  <2> QED
    BY <2>2, <2>3
<1>10. tcb' = [tcb EXCEPT ![x] = d]
  BY <1>6 DEF Leaves
<1>11. \/ OSEventTbl' = OSEventTbl /\ (~Unans(tcb[x], pc[x]) \/ pc[x].on = {})
       \/ Withdraw(pc[x].on)
  BY <1>4, <1>6
<1> QED
  BY <1>1, <1>7, <1>8, <1>9, <1>10, <1>11, ReturnStep

-----------------------------------------------------------------------------
(* The mutexes *)

LEMMA OwnersAre ==
  /\ \A e : PCP(e) = Ceil(ecb[e]) /\ OwnerPrio(e) = Saved(ecb[e]) /\ Owner(e) = ecb[e].ptr
  /\ \A e : HasCeiling(e) <=> Ceil(ecb[e]) # 255
  /\ \A e : Raised(e) <=> RaisedIn(ecb[e], tcb)
  /\ \A e \in Events : IsMutex(e) <=> e \in Mutexes(ecb)
BY DEF PCP, Ceil, OwnerPrio, Saved, Owner, HasCeiling, OS_PRIO_MUTEX_CEIL_DIS, Raised, RaisedIn,
       IsMutex, Mutexes

\* An event becomes a mutex, or one changes.
MutexSet(e, c, p, t, ecbs, ecbs2) ==
  \/ ecbs2 = [ecbs EXCEPT ![e] = [type |-> "MUTEX", cnt |-> MutexCnt(c, p), ptr |-> t]]
  \/ ecbs2 = [ecbs EXCEPT ![e].cnt = MutexCnt(c, p), ![e].ptr = t] /\ ecbs[e].type = "MUTEX"

LEMMA SetMutex ==
  ASSUME PoolsInv, NEW e \in Events, NEW c \in 0..255, NEW p \in 0..255, NEW t,
         MutexSet(e, c, p, t, ecb, ecb')
  PROVE  MutexIs(ecb'[e], c, p, t) /\ OthersKept(e, ecb, ecb')
<1>1. DOMAIN ecb = Events /\ DOMAIN ecb[e] = {"type", "cnt", "ptr"}
  BY DEF PoolsInv, EcbShape
<1>2. MutexCnt(c, p) \div 256 = c /\ MutexCnt(c, p) % 256 = p
  BY CntParts, Zenon
<1> DEFINE n == MutexCnt(c, p)
<1>3. n \div 256 = c /\ n % 256 = p
  BY <1>2
<1>4. \/ ecb' = [ecb EXCEPT ![e] = [type |-> "MUTEX", cnt |-> n, ptr |-> t]]
      \/ ecb' = [ecb EXCEPT ![e].cnt = n, ![e].ptr = t] /\ ecb[e].type = "MUTEX"
  BY DEF MutexSet
<1> HIDE DEF n
<1>5. ecb'[e].type = "MUTEX" /\ ecb'[e].cnt = n /\ ecb'[e].ptr = t
  BY <1>1, <1>4
<1>6. \A f \in Events \ {e} : ecb'[f] = ecb[f]
  BY <1>1, <1>4
<1> QED
  BY <1>3, <1>5, <1>6 DEF MutexIs, OthersKept, Ceil, Saved

LEMMA CreateMutexKernel ==
  ASSUME KernelInv, PoolsInv, Hazards = {}, NEW pcp \in PCPs, OSMutexCreate(pcp)
  PROVE  KernelInv'
<1> DEFINE e == Head(OSEventFreeList)
<1>1. e \in Events /\ ecb[e].type = "UNUSED"
  BY NextEvent DEF OSMutexCreate
<1>2. /\ Data(OSRdy, OSEventTbl, tcb, pc, ecb) /\ OwnersOK(tcb, pc, ecb)
      /\ HoldsOK(tcb, pc, ecb, holds) /\ TableOK(OSTCBPrioTbl, tcb, pc, ecb)
  BY DEF KernelInv
<1>3. /\ pcp # 255 => OSTCBPrioTbl[pcp] = NULL
      /\ \A t \in Tasks : pc[t].at = "pend" /\ pc[t].svc = "OSMutexPend" => e \notin pc[t].on
      /\ ecb' = [ecb EXCEPT ![e] = [type |-> "MUTEX", cnt |-> MutexCnt(pcp, 255), ptr |-> NULL]]
      /\ OSEventTbl' = [OSEventTbl EXCEPT ![e] = {}]
      /\ OSTCBPrioTbl' = IF pcp = 255 THEN OSTCBPrioTbl
                         ELSE [OSTCBPrioTbl EXCEPT ![pcp] = OS_TCB_RESERVED]
      /\ UNCHANGED <<OSRdy, OSPrioCur, OSTCBCur, OSLockNesting, tcb, pc, holds>>
  BY DEF OSMutexCreate, PendsOnDeleted, OS_PRIO_MUTEX_CEIL_DIS, OS_MUTEX_AVAILABLE
<1> HIDE DEF e
<1>4. pcp \in 0..255 /\ 255 \in 0..255
  BY CeilIsPrio
<1>5. MutexIs(ecb'[e], pcp, 255, NULL) /\ OthersKept(e, ecb, ecb')
  <2>1. MutexSet(e, pcp, 255, NULL, ecb, ecb')
    BY <1>3 DEF MutexSet
  <2> QED
    BY <1>1, <1>4, <2>1, SetMutex, Zenon
<1>6. /\ WaitSet(tcb, pc, e) = {} /\ OSEventTbl[e] = {}
      /\ \A t \in Tasks : pc[t].at = "pend" /\ (tcb[t].multiptr # {} \/ Unans(tcb[t], pc[t]))
                            => e \notin pc[t].on
  BY <1>1, <1>2, UnusedEvent
<1>7. e \notin Mutexes(ecb)
  BY <1>1 DEF Mutexes
<1>8. Creates(e, pcp, OSTCBPrioTbl, tcb, pc, ecb, ecb')
  BY <1>1, <1>3, <1>5, <1>6, <1>7 DEF Creates
<1>9. /\ OwnersOK(tcb, pc, ecb') /\ HoldsOK(tcb, pc, ecb', holds)
      /\ TableOK(OSTCBPrioTbl', tcb, pc, ecb')
  <2>1. /\ OwnersOK(tcb, pc, ecb') /\ HoldsOK(tcb, pc, ecb', holds)
        /\ TableOK(IF pcp = 255 THEN OSTCBPrioTbl ELSE [OSTCBPrioTbl EXCEPT ![pcp] = OS_TCB_RESERVED],
                   tcb, pc, ecb')
    BY <1>2, <1>8, CreatedMutex
  <2> QED
    BY <1>3, <2>1
<1>10. Data(OSRdy, OSEventTbl', tcb, pc, ecb')
  <2>1. \A t \in Tasks : TypesFor(tcb[t], pc[t], ecb, ecb')
    <3> TAKE t \in Tasks
    <3>1. Shape(tcb[t], pc[t], ecb)
      BY <1>2 DEF Data
    <3>2. pc[t].at = "pend" => pc[t].on \in SUBSET Events
      BY <3>1 DEF Shape, SingleShape, MultiShape, FlagShape
    <3> QED
      BY <1>5, <1>6, <3>2 DEF TypesFor, OthersKept
  <2>2. Data(OSRdy, OSEventTbl, tcb, pc, ecb')
    BY <1>2, <2>1, EventsData
  <2>3. DOMAIN OSEventTbl' = Events /\ \A f \in Events : OSEventTbl'[f] = OSEventTbl[f]
    BY <1>1, <1>2, <1>3, <1>6 DEF Data
  <2> QED
    BY <2>2, <2>3 DEF Data
<1> QED
  BY <1>3, <1>9, <1>10 DEF KernelInv

LEMMA TakeMutexKernel ==
  ASSUME KernelInv, PoolsInv, NEW e \in Events, TaskCall("OSMutex"), IsMutex(e),
         holds[OSTCBCur] = {}, TakeMutex(e)
  PROVE  KernelInv'
<1> DEFINE x == OSTCBCur
           k == Returned("NONE", {<<e, NULL>>})
<1>1. /\ x \in LiveSet(pc) /\ Runs(tcb[x], pc[x]) /\ Shape(tcb[x], pc[x], ecb) /\ x \in Tasks
      /\ pc[x] = InTask /\ tcb[x].prio \in Prios
  BY CurrentRuns DEF Cur, TaskCall
<1>2. /\ Data(OSRdy, OSEventTbl, tcb, pc, ecb) /\ OwnersOK(tcb, pc, ecb)
      /\ HoldsOK(tcb, pc, ecb, holds) /\ TableOK(OSTCBPrioTbl, tcb, pc, ecb)
  BY DEF KernelInv
<1>3. e \in Mutexes(ecb) /\ Saved(ecb[e]) = 255
  BY OwnersAre DEF TakeMutex, OS_MUTEX_AVAILABLE
<1>4. /\ ecb' = [ecb EXCEPT ![e].cnt = MutexCnt(Ceil(ecb[e]), tcb[x].prio), ![e].ptr = x]
      /\ holds' = [holds EXCEPT ![x] = @ \cup {e}] /\ pc' = [pc EXCEPT ![x] = k]
      /\ UNCHANGED <<OSRdy, OSPrioCur, OSTCBCur, OSLockNesting, OSTCBPrioTbl, tcb, OSEventTbl>>
  BY OwnersAre DEF TakeMutex, GiveMutex
<1>5. k.at = "returned" /\ pc[x].at = "task" /\ holds[x] = {}
  BY <1>1 DEF Returned, InTask
<1> HIDE DEF x, k
<1>6. tcb \in [Tasks -> OS_TCB] /\ DOMAIN pc = Tasks
  BY <1>2 DEF Data
<1>7. pc'[x] = k /\ DOMAIN pc' = Tasks /\ \A t \in Tasks \ {x} : pc'[t] = pc[t]
  BY <1>1, <1>4, <1>6
<1>8. OutShape(tcb[x]) /\ tcb[x].stat = {} /\ tcb[x].dly = 0
  BY <1>1, <1>5, ShapeOfRunning DEF Shape
<1>9. Shape(tcb[x], k, ecb) /\ ~Unans(tcb[x], k) /\ Runs(tcb[x], k)
  BY <1>5, <1>8, ShapeOfOut
<1>10. OneChanges(x, tcb, pc, tcb', pc', ecb)
  BY <1>4, <1>5, <1>6, <1>7, <1>9 DEF OneChanges, Live
<1>11. OneListed(x, tcb[x].prio, OSRdy, OSEventTbl, OSRdy', OSEventTbl', tcb', pc')
  <2>1. OSRdy' = OSRdy \cup {tcb[x].prio}
    BY <1>1, <1>2, <1>4, InLists
  <2>2. ~Unans(tcb[x], pc[x])
    BY <1>5 DEF Unans
  <2>3. \A f \in Events : OSEventTbl[f] \ {tcb[x].prio} = OSEventTbl[f]
    BY <1>1, <1>2, <2>2, WaitsAgree
  <2> QED
    BY <1>2, <1>4, <1>7, <1>9, <2>1, <2>3 DEF OneListed, Data
<1>12. Data(OSRdy', OSEventTbl', tcb', pc', ecb) /\ Kept(tcb, pc, tcb', pc')
  BY <1>1, <1>2, <1>10, <1>11, OneData
<1>13. MutexIs(ecb'[e], Ceil(ecb[e]), tcb[x].prio, x) /\ OthersKept(e, ecb, ecb')
  <2>1. Ceil(ecb[e]) \in 0..255 /\ tcb[x].prio \in 0..255
    <3>1. Ceil(ecb[e]) \in PCPs
      BY <1>2, <1>3 DEF OwnersOK
    <3>2. Ceil(ecb[e]) \in 0..255
      BY <3>1, CeilIsPrio
    <3>3. Prios \subseteq 0..255
      BY TasksAssumption
    <3> QED
      BY <1>1, <3>2, <3>3
  <2>2. ecb[e].type = "MUTEX"
    BY DEF IsMutex
  <2>3. MutexSet(e, Ceil(ecb[e]), tcb[x].prio, x, ecb, ecb')
    BY <1>4, <2>2 DEF MutexSet
  <2> QED
    BY <2>1, <2>3, SetMutex, Zenon
<1>14. Data(OSRdy', OSEventTbl', tcb', pc', ecb')
  <2>1. \A t \in Tasks : TypesFor(tcb'[t], pc'[t], ecb, ecb')
    <3> TAKE t \in Tasks
    <3>1. Shape(tcb'[t], pc'[t], ecb)
      BY <1>12 DEF Data
    <3>2. pc'[t].at = "pend" => pc'[t].on \in SUBSET Events
      BY <3>1 DEF Shape, SingleShape, MultiShape, FlagShape
    <3>3. \A f \in Events : ecb'[f].type = ecb[f].type
      BY <1>3, <1>13 DEF OthersKept, MutexIs, Mutexes
    <3> QED
      BY <3>2, <3>3 DEF TypesFor
  <2> QED
    BY <1>12, <2>1, EventsData
<1>15. pc'[x].at = "returned" /\ pc[x].at # "pend"
  BY <1>5, <1>7
<1>16. /\ OwnersOK(tcb, pc', ecb') /\ TableOK(OSTCBPrioTbl, tcb, pc', ecb')
       /\ HoldsOK(tcb, pc', ecb', [holds EXCEPT ![x] = @ \cup {e}])
  BY <1>1, <1>2, <1>3, <1>5, <1>7, <1>13, <1>15, TakenMutex
<1>17. HasPrio(OSTCBCur, OSPrioCur, tcb', pc')
  BY <1>12, SamePrio
<1> QED
  BY <1>4, <1>14, <1>16, <1>17 DEF KernelInv

\* The owner of a mutex waits for nothing, and its TCB names an event only on
\* its way out of OSMutexPend, when it is ready.
LEMMA OwnerAwake ==
  ASSUME NEW rdy, NEW tbl, NEW tcbs, NEW pcs, NEW ecbs, NEW hs, Data(rdy, tbl, tcbs, pcs, ecbs),
         HoldsOK(tcbs, pcs, ecbs, hs), NEW e \in Mutexes(ecbs), NEW o \in LiveSet(pcs),
         ecbs[e].ptr = o
  PROVE  /\ ~Unans(tcbs[o], pcs[o])
         /\ tcbs[o].prio \notin rdy => tcbs[o].eventptr = NULL
<1>1. o \in Tasks /\ Shape(tcbs[o], pcs[o], ecbs) /\ Live(pcs[o])
  BY DEF Data, LiveSet
<1>2. e \in hs[o] \/ Got(tcbs[o], pcs[o], e)
  BY <1>1 DEF HoldsOK
<1>3. CASE e \in hs[o]
  <2>1. pcs[o].at # "pend"
    BY <1>1, <1>3 DEF HoldsOK
  <2> QED
    BY <1>1, <2>1 DEF Unans, Live, Shape, OutShape
<1>4. CASE Got(tcbs[o], pcs[o], e)
  <2>1. "SUSPEND" \notin tcbs[o].stat /\ ~Unans(tcbs[o], pcs[o]) /\ pcs[o].at = "pend"
    BY <1>1, <1>4 DEF Got, Shape, SingleShape
  <2>2. Runs(tcbs[o], pcs[o])
    BY <1>1, <2>1 DEF Runs
  <2> QED
    BY <2>1, <2>2, InLists
<1> QED
  BY <1>2, <1>3, <1>4

\* Task x starts to wait for a mutex that another has.
StartsToWait(x, e, tcbs, pcs, ecbs, hs, tcbs2, pcs2) ==
  /\ x \in LiveSet(pcs) /\ pcs[x].at # "pend" /\ hs[x] = {}
  /\ e \in Mutexes(ecbs) /\ OwnedMutex(ecbs[e], tcbs, pcs)
  /\ Live(pcs2[x]) /\ pcs2[x].on = {e} /\ Unans(tcbs2[x], pcs2[x]) /\ tcbs2[x].prio = tcbs[x].prio
  /\ \A t \in Tasks \ {x} : tcbs2[t] = tcbs[t] /\ pcs2[t] = pcs[t]

LEMMA WaitingForMutex ==
  ASSUME NEW tcbs, NEW pcs, NEW ecbs, NEW hs, OwnersOK(tcbs, pcs, ecbs),
         HoldsOK(tcbs, pcs, ecbs, hs), NEW x, NEW e, NEW tcbs2, NEW pcs2,
         StartsToWait(x, e, tcbs, pcs, ecbs, hs, tcbs2, pcs2)
  PROVE  OwnersOK(tcbs2, pcs2, ecbs) /\ HoldsOK(tcbs2, pcs2, ecbs, hs)
<1>0. /\ x \in LiveSet(pcs) /\ pcs[x].at # "pend" /\ hs[x] = {}
      /\ e \in Mutexes(ecbs) /\ OwnedMutex(ecbs[e], tcbs, pcs)
      /\ Live(pcs2[x]) /\ pcs2[x].on = {e} /\ Unans(tcbs2[x], pcs2[x])
      /\ tcbs2[x].prio = tcbs[x].prio
      /\ \A t \in Tasks \ {x} : tcbs2[t] = tcbs[t] /\ pcs2[t] = pcs[t]
  BY DEF StartsToWait
<1>1. /\ x \in Tasks /\ LiveSet(pcs2) = LiveSet(pcs)
      /\ \A t \in Tasks : tcbs2[t].prio = tcbs[t].prio
  BY <1>0 DEF LiveSet
<1>2. ASSUME NEW f \in Mutexes(ecbs), OwnedMutex(ecbs[f], tcbs, pcs)
      PROVE  OwnedMutex(ecbs[f], tcbs2, pcs2)
  <2>1. ecbs[f].ptr \in Tasks
    BY <1>2 DEF OwnedMutex, LiveSet
  <2> QED
    BY <1>1, <1>2, <2>1 DEF OwnedMutex, RaisedIn
<1>3. \A f \in Mutexes(ecbs) \ {e} : WaitSet(tcbs2, pcs2, f) \subseteq WaitSet(tcbs, pcs, f)
  BY <1>0 DEF WaitSet
<1>4. OwnersOK(tcbs2, pcs2, ecbs)
  <2>1. ASSUME NEW f \in Mutexes(ecbs)
        PROVE  \/ FreeMutex(ecbs[f]) /\ WaitSet(tcbs2, pcs2, f) = {}
               \/ OwnedMutex(ecbs[f], tcbs2, pcs2)
    <3>1. CASE f = e
      BY <1>0, <1>2, <3>1
    <3>2. CASE f # e
      <4>1. \/ FreeMutex(ecbs[f]) /\ WaitSet(tcbs, pcs, f) = {}
            \/ OwnedMutex(ecbs[f], tcbs, pcs)
        BY DEF OwnersOK
      <4> QED
        BY <1>2, <1>3, <3>2, <4>1
    <3> QED
      BY <3>1, <3>2
  <2> QED
    BY <2>1 DEF OwnersOK
<1>5. \A t \in Tasks : \A f : Got(tcbs2[t], pcs2[t], f) <=> Got(tcbs[t], pcs[t], f)
  <2>1. \A f : ~Got(tcbs2[x], pcs2[x], f) /\ ~Got(tcbs[x], pcs[x], f)
    BY <1>0 DEF Got
  <2> QED
    BY <1>0, <2>1
<1>6. \A t \in Tasks : pcs2[t].at = "pend" => hs[t] = {}
  BY <1>0 DEF HoldsOK
<1>7. HoldsOK(tcbs2, pcs2, ecbs, hs)
  BY <1>5, <1>6 DEF HoldsOK
<1> QED
  BY <1>4, <1>7

\* The owner of e at the ceiling, if it has to be raised, and the priority table.
PromotedTCBs(e) ==
  [t \in Tasks |-> IF t = Owner(e) /\ MustPromote(e) THEN [tcb[t] EXCEPT !.prio = PCP(e)]
                                                     ELSE tcb[t]]
PromotedTable(e) == IF MustPromote(e) THEN WithPCP(e, Owner(e)) ELSE OSTCBPrioTbl

\* The raise, as OSMutexPend does it before the running task waits.
LEMMA Promotion ==
  ASSUME KernelInv, NEW e \in Events, IsMutex(e), OwnerPrio(e) # 255
  PROVE  /\ Data(PromotedRdy(e), OSEventTbl, PromotedTCBs(e), pc, ecb)
         /\ OwnersOK(PromotedTCBs(e), pc, ecb) /\ HoldsOK(PromotedTCBs(e), pc, ecb, holds)
         /\ TableOK(PromotedTable(e), PromotedTCBs(e), pc, ecb)
         /\ PromotedTbl(e) = OSEventTbl /\ OwnedMutex(ecb[e], PromotedTCBs(e), pc)
<1> DEFINE o == ecb[e].ptr
           c == Ceil(ecb[e])
           T == PromotedTCBs(e)
<1>1. /\ Data(OSRdy, OSEventTbl, tcb, pc, ecb) /\ OwnersOK(tcb, pc, ecb)
      /\ HoldsOK(tcb, pc, ecb, holds) /\ TableOK(OSTCBPrioTbl, tcb, pc, ecb)
  BY DEF KernelInv
<1>2. e \in Mutexes(ecb) /\ Owner(e) = o /\ PCP(e) = c /\ Saved(ecb[e]) # 255
      /\ (HasCeiling(e) <=> c # 255)
  BY OwnersAre
<1>3. OwnedMutex(ecb[e], tcb, pc)
  BY <1>1, <1>2 DEF OwnersOK, FreeMutex
<1>4. o \in LiveSet(pc) /\ o \in Tasks
  BY <1>3 DEF OwnedMutex, LiveSet
<1>5. ~Unans(tcb[o], pc[o]) /\ (tcb[o].prio \notin OSRdy => tcb[o].eventptr = NULL)
  BY <1>1, <1>2, <1>4, OwnerAwake
<1>6. PromotedTbl(e) = OSEventTbl
  BY <1>2, <1>5 DEF PromotedTbl
<1>7. tcb \in [Tasks -> OS_TCB] /\ \A t \in Tasks : Shape(tcb[t], pc[t], ecb)
  BY <1>1 DEF Data
<1>8. CASE ~MustPromote(e)
  <2>1. T = tcb
    BY <1>7, <1>8 DEF PromotedTCBs
  <2>2. PromotedRdy(e) = OSRdy /\ PromotedTable(e) = OSTCBPrioTbl
    BY <1>8 DEF PromotedRdy, PromotedTable
  <2> QED
    BY <1>1, <1>3, <1>6, <2>1, <2>2 DEF T
<1>9. CASE MustPromote(e)
  <2>1. c # 255 /\ tcb[o].prio > c
    BY <1>2, <1>9 DEF MustPromote
  <2>2. ~RaisedIn(ecb[e], tcb)
    <3>1. tcb[o].prio \in Nat
      BY <1>4, <1>7, IdleIsApart DEF OS_TCB
    <3> QED
      BY <2>1, <3>1 DEF RaisedIn
  <2>3. c \in Prios /\ Fresh(c, tcb, pc)
    BY <1>1, <1>2, <2>1, <2>2, NoneAtCeiling
  <2>4. c \in AllPrios
    BY <2>3, Constants
  <2>5. T = [t \in Tasks |-> IF t = o THEN [tcb[t] EXCEPT !.prio = c] ELSE tcb[t]]
    BY <1>2, <1>9 DEF PromotedTCBs
  <2>6. PromotedRdy(e) = (IF tcb[o].prio \in OSRdy THEN (OSRdy \ {tcb[o].prio}) \cup {c} ELSE OSRdy)
    BY <1>2, <1>9 DEF PromotedRdy
  <2>7. PromotedTable(e) = [OSTCBPrioTbl EXCEPT ![c] = o]
    BY <1>2, <1>9, <2>1 DEF PromotedTable, WithPCP
  <2> HIDE DEF T, o, c
  <2>8. T \in [Tasks -> OS_TCB] /\ Moved(o, c, tcb, T)
    <3>1. [tcb[o] EXCEPT !.prio = c] \in OS_TCB
      BY <1>4, <1>7, <2>4 DEF OS_TCB
    <3>2. SamePlaces(tcb[o], [tcb[o] EXCEPT !.prio = c]) /\ [tcb[o] EXCEPT !.prio = c].prio = c
      BY <1>4, <1>7 DEF OS_TCB, SamePlaces
    <3>3. T[o] = [tcb[o] EXCEPT !.prio = c] /\ \A t \in Tasks \ {o} : T[t] = tcb[t]
      BY <1>4, <2>5
    <3>4. T \in [Tasks -> OS_TCB]
      BY <1>7, <2>5, <3>1
    <3> QED
      BY <3>2, <3>3, <3>4 DEF Moved
  <2>9. Falls(o, e, tcb, T, pc, ecb)
    <3>1. \A f \in Mutexes(ecb) : ecb[f].ptr = o => f = e
      BY <1>1, <1>2, <1>4, <1>7, OwnsOne DEF o
    <3>2. ecb[e].ptr = o /\ Ceil(ecb[e]) = c
      BY DEF o, c
    <3> QED
      BY <1>2, <1>4, <2>1, <2>8, <3>1, <3>2 DEF Falls, Moved
  <2>10. MovedLists(o, c, OSRdy, OSEventTbl, tcb, pc, PromotedRdy(e), OSEventTbl)
    BY <1>1, <1>5, <2>6 DEF MovedLists, Data, WaitSet
  <2>11. Data(PromotedRdy(e), OSEventTbl, T, pc, ecb)
    BY <1>1, <1>4, <2>3, <2>8, <2>10, MovedData
  <2>12. OwnersOK(T, pc, ecb) /\ HoldsOK(T, pc, ecb, holds)
    BY <1>1, <2>8, <2>9, MovedOwners DEF c
  <2>13. TableOK(PromotedTable(e), T, pc, ecb)
    <3>1. TableOK([OSTCBPrioTbl EXCEPT ![Ceil(ecb[e])] = o], T, pc, ecb)
      BY <1>1, <2>2, <2>8, <2>9, RaisedTable DEF c
    <3> QED
      BY <2>7, <3>1 DEF c
  <2>14. OwnedMutex(ecb[e], T, pc)
    BY <1>2, <2>12 DEF OwnersOK, FreeMutex
  <2> QED
    BY <1>6, <2>11, <2>12, <2>13, <2>14 DEF T
<1> QED
  BY <1>8, <1>9

LEMMA MutexWaitKernel ==
  ASSUME KernelInv, NEW e \in Events, NEW timeout \in 0..MaxDly, OSMutexPend(e, timeout),
         ~TakeMutex(e)
  PROVE  KernelInv'
<1> DEFINE x == OSTCBCur
           T == PromotedTCBs(e)
           d == WaitingTCB(tcb[x], {"MUTEX"}, timeout)
           c == [d EXCEPT !.eventptr = e]
           k == Pending("OSMutexPend", {e})
<1>1. /\ TaskCall("OSMutex") /\ IsMutex(e) /\ OSLockNesting = 0 /\ holds[x] = {}
      /\ OwnerPrio(e) # 255
      /\ tcb' = [t \in Tasks |-> IF t = x THEN [WaitingTCB(tcb[t], {"MUTEX"}, timeout) EXCEPT !.eventptr = e]
                                 ELSE IF t = Owner(e) /\ MustPromote(e)
                                      THEN [tcb[t] EXCEPT !.prio = PCP(e)] ELSE tcb[t]]
      /\ OSTCBPrioTbl' = PromotedTable(e)
      /\ OSEventTbl' = EnterWaitLists(PromotedTbl(e), {e}, Cur.prio)
      /\ OSRdy' = PromotedRdy(e) \ {Cur.prio}
      /\ pc' = [pc EXCEPT ![x] = k]
      /\ OSLockNesting' = OSLockNesting /\ ecb' = ecb /\ holds' = holds /\ OS_Sched
  BY DEF OSMutexPend, OS_MUTEX_AVAILABLE, PromotedTable, eventVars
<1>2. /\ x \in LiveSet(pc) /\ Runs(tcb[x], pc[x]) /\ Shape(tcb[x], pc[x], ecb) /\ x \in Tasks
      /\ pc[x] = InTask /\ tcb[x].prio \in Prios /\ Cur.prio = tcb[x].prio /\ tcb[x] \in OS_TCB
  BY <1>1, CurrentRuns DEF Cur, TaskCall
<1>3. /\ Data(PromotedRdy(e), OSEventTbl, T, pc, ecb)
      /\ OwnersOK(T, pc, ecb) /\ HoldsOK(T, pc, ecb, holds)
      /\ TableOK(PromotedTable(e), T, pc, ecb)
      /\ PromotedTbl(e) = OSEventTbl /\ OwnedMutex(ecb[e], T, pc)
  BY <1>1, Promotion
<1>4. e \in Mutexes(ecb) /\ Owner(e) = ecb[e].ptr /\ ecb[e].type = "MUTEX"
  BY <1>1, OwnersAre DEF Mutexes
<1>5. pc[x].at = "task" /\ k.at = "pend" /\ k.svc = "OSMutexPend" /\ k.on = {e}
  BY <1>2 DEF InTask, Pending
<1>6. Owner(e) # x
  <2>1. ecb[e].ptr = x => Owns(ecb, x)
    BY <1>4 DEF Owns
  <2>2. HoldsOK(tcb, pc, ecb, holds)
    BY DEF KernelInv
  <2> QED
    BY <1>1, <1>2, <1>4, <1>5, <2>1, <2>2, HoldersOwn
<1>7. T[x] = tcb[x] /\ T \in [Tasks -> OS_TCB]
  BY <1>2, <1>3, <1>6 DEF PromotedTCBs, Data
<1>8. tcb'[x] = c /\ \A t \in Tasks \ {x} : tcb'[t] = T[t]
  BY <1>1, <1>2 DEF PromotedTCBs
<1>9. OutShape(tcb[x]) /\ tcb[x].stat = {} /\ tcb[x].dly = 0
  BY <1>2, <1>5, ShapeOfRunning DEF Shape
<1>10. c \in OS_TCB /\ c.prio = tcb[x].prio /\ WaitingSingle(c, k, e, "MUTEX")
  <2>1. {"MUTEX"} \in SUBSET StatBits
    BY DEF StatBits, OS_STAT_PEND_ANY
  <2> HIDE DEF c, k
  <2>2. /\ d \in OS_TCB /\ d.prio = tcb[x].prio /\ d.stat = tcb[x].stat \cup {"MUTEX"} /\ d.statpend = "OK"
        /\ d.dly = timeout /\ d.eventptr = tcb[x].eventptr /\ d.multiptr = tcb[x].multiptr
    BY <1>2, <2>1, WaitingFields
  <2> HIDE DEF d
  <2>3. /\ c \in OS_TCB /\ c.prio = d.prio /\ c.stat = d.stat /\ c.statpend = d.statpend
        /\ c.eventptr = e /\ c.multiptr = d.multiptr
    BY <2>2 DEF OS_TCB, c
  <2> QED
    BY <1>5, <1>9, <2>2, <2>3 DEF WaitingSingle, OutShape, SinglePends
<1> HIDE DEF T, d, c, k
<1>11. Shape(c, k, ecb) /\ Unans(c, k) /\ ~Runs(c, k)
  BY <1>4, <1>10, ShapeOfWaiting DEF EventTypes
<1>12. DOMAIN pc = Tasks
  BY <1>3 DEF Data
<1>13. pc'[x] = k /\ DOMAIN pc' = Tasks /\ \A t \in Tasks \ {x} : pc'[t] = pc[t]
  BY <1>1, <1>2, <1>12
<1>14. tcb' \in [Tasks -> OS_TCB]
  <2>1. tcb' = [t \in Tasks |-> tcb'[t]]
    BY <1>1
  <2>2. \A t \in Tasks : tcb'[t] \in OS_TCB
    BY <1>7, <1>8, <1>10
  <2> QED
    BY <2>1, <2>2
<1>15. OneChanges(x, T, pc, tcb', pc', ecb)
  BY <1>5, <1>7, <1>8, <1>10, <1>11, <1>13, <1>14 DEF OneChanges, Live
<1>16. OneListed(x, T[x].prio, PromotedRdy(e), OSEventTbl, OSRdy', OSEventTbl', tcb', pc')
  <2>1. OSRdy' = PromotedRdy(e) \ {tcb[x].prio}
    BY <1>1, <1>2
  <2>2. OSEventTbl' = [f \in Events |-> IF f \in {e} THEN OSEventTbl[f] \cup {tcb[x].prio} ELSE OSEventTbl[f]]
    BY <1>1, <1>2, <1>3 DEF EnterWaitLists
  <2>3. ~Unans(T[x], pc[x])
    BY <1>5 DEF Unans
  <2>4. \A f \in Events : OSEventTbl[f] \ {tcb[x].prio} = OSEventTbl[f]
    BY <1>2, <1>3, <1>7, <2>3, WaitsAgree
  <2> QED
    BY <1>5, <1>7, <1>8, <1>11, <1>13, <2>1, <2>2, <2>4 DEF OneListed
<1>17. Data(OSRdy', OSEventTbl', tcb', pc', ecb) /\ Kept(T, pc, tcb', pc')
  BY <1>2, <1>3, <1>15, <1>16, OneData
<1>18. OwnersOK(tcb', pc', ecb) /\ HoldsOK(tcb', pc', ecb, holds)
  <2>1. StartsToWait(x, e, T, pc, ecb, holds, tcb', pc')
    BY <1>1, <1>2, <1>3, <1>4, <1>5, <1>7, <1>8, <1>10, <1>11, <1>13 DEF StartsToWait, Live
  <2> QED
    BY <1>3, <2>1, WaitingForMutex
<1>19. TableOK(OSTCBPrioTbl', tcb', pc', ecb')
  <2>1. TableOK(PromotedTable(e), tcb', pc', ecb)
    BY <1>3, <1>17, SameTable
  <2> QED
    BY <1>1, <2>1
<1>20. HasPrio(OSTCBCur, OSPrioCur, tcb', pc')
  <2>1. tcb'[x].prio = tcb[x].prio /\ x \in LiveSet(pc') /\ x # IdleTask
    BY <1>2, <1>5, <1>8, <1>10, <1>13, Constants DEF LiveSet, Live
  <2>2. tcb[x].prio = OSPrioCur
    BY <1>2, <2>1, CurrentRuns
  <2> QED
    BY <2>1, <2>2 DEF HasPrio, x
<1>21. OSPrioCur' \in OSRdy' /\ HasPrio(OSTCBCur', OSPrioCur', tcb', pc')
  BY <1>1, <1>17, <1>19, <1>20, CurrentKept DEF Scheduled
<1> QED
  BY <1>1, <1>17, <1>18, <1>19, <1>21 DEF KernelInv

\* OSMutex_RdyAtPrio: the running task, if it is raised for e, falls back.
LEMMA Lowering ==
  ASSUME KernelInv, NEW e \in Events, IsMutex(e), OSTCBCur \in Tasks,
         Raised(e) => Owner(e) = OSTCBCur
  PROVE  /\ Data(LoweredRdy(e), OSEventTbl, LoweredTCBs(e), pc, ecb)
         /\ OwnersOK(LoweredTCBs(e), pc, ecb) /\ HoldsOK(LoweredTCBs(e), pc, ecb, holds)
         /\ TableOK(WithPCP(e, OS_TCB_RESERVED), LoweredTCBs(e), pc, ecb)
         /\ ~RaisedIn(ecb[e], LoweredTCBs(e))
         /\ HasPrio(OSTCBCur, LoweredPrioCur(e), LoweredTCBs(e), pc)
         /\ LoweredPrioCur(e) \in LoweredRdy(e)
         /\ \A t \in WaitSet(tcb, pc, e) : LoweredTCBs(e)[t] = tcb[t]
         /\ WaitSet(LoweredTCBs(e), pc, e) = WaitSet(tcb, pc, e)
<1> DEFINE o == OSTCBCur
           c == Ceil(ecb[e])
           s == Saved(ecb[e])
           T == LoweredTCBs(e)
<1>1. /\ Data(OSRdy, OSEventTbl, tcb, pc, ecb) /\ OwnersOK(tcb, pc, ecb)
      /\ HoldsOK(tcb, pc, ecb, holds) /\ TableOK(OSTCBPrioTbl, tcb, pc, ecb)
      /\ OSPrioCur \in OSRdy /\ HasPrio(OSTCBCur, OSPrioCur, tcb, pc)
  BY DEF KernelInv
<1>2. /\ e \in Mutexes(ecb) /\ Owner(e) = ecb[e].ptr /\ PCP(e) = c /\ OwnerPrio(e) = s
      /\ HasCeiling(e) <=> c # 255
      /\ Raised(e) <=> RaisedIn(ecb[e], tcb)
  BY OwnersAre
<1>3. OSTCBPrioTbl \in [AllPrios -> Tasks \cup {IdleTask, NULL, OS_TCB_RESERVED}]
  BY <1>1 DEF TableOK
<1>4. CASE ~Raised(e)
  <2>1. T = tcb /\ LoweredRdy(e) = OSRdy /\ LoweredPrioCur(e) = OSPrioCur
    BY <1>4 DEF LoweredTCBs, LoweredRdy, LoweredPrioCur
  <2>2. WithPCP(e, OS_TCB_RESERVED) = OSTCBPrioTbl
    <3>1. CASE c = 255
      BY <1>2, <3>1 DEF WithPCP
    <3>2. CASE c # 255
      <4>1. OSTCBPrioTbl[c] = OS_TCB_RESERVED /\ c \in AllPrios
        BY <1>1, <1>2, <1>4, <3>2, NoneAtCeiling, Constants
      <4> HIDE DEF c
      <4>2. [OSTCBPrioTbl EXCEPT ![c] = OS_TCB_RESERVED] = OSTCBPrioTbl
        BY <1>3, <4>1
      <4> QED
        BY <1>2, <3>2, <4>2 DEF WithPCP
    <3> QED
      BY <3>1, <3>2
  <2> QED
    BY <1>1, <1>2, <1>4, <2>1, <2>2
<1>5. CASE Raised(e)
  <2>1. /\ RaisedIn(ecb[e], tcb) /\ ecb[e].ptr = o /\ c # 255 /\ tcb[o].prio = c /\ HasCeiling(e)
        /\ Owner(e) = o
    BY <1>2, <1>5 DEF RaisedIn
  <2>2. s \in Prios /\ s # c
    BY <1>1, <1>2, <2>1, Constants DEF OwnersOK, OwnedMutex, FreeMutex
  <2>3. o \in LiveSet(pc) /\ o \in Tasks /\ OSPrioCur = c
    BY <1>1, <2>1, Constants DEF HasPrio
  <2>4. ~Unans(tcb[o], pc[o])
    BY <1>1, <1>2, <2>1, <2>3, OwnerAwake
  <2>5. tcb \in [Tasks -> OS_TCB] /\ (\A t \in Tasks : Shape(tcb[t], pc[t], ecb)) /\ s \in AllPrios
    BY <1>1, <2>2, Constants DEF Data
  <2>6. /\ T = [tcb EXCEPT ![o].prio = s] /\ LoweredPrioCur(e) = s
        /\ LoweredRdy(e) = (OSRdy \ {c}) \cup {s}
        /\ WithPCP(e, OS_TCB_RESERVED) = [OSTCBPrioTbl EXCEPT ![c] = OS_TCB_RESERVED]
    BY <1>2, <1>5, <2>1 DEF LoweredTCBs, LoweredRdy, LoweredPrioCur, WithPCP
  <2>7. Fresh(s, tcb, pc)
    <3>1. OSTCBPrioTbl[s] = o
      BY <1>1, <1>2, <2>1, <2>2, <2>3 DEF TableOK
    <3>2. \A t \in LiveSet(pc) : tcb[t].prio \in Prios => OSTCBPrioTbl[tcb[t].prio] = t
      BY <1>1, TableGives
    <3> QED
      BY <2>1, <2>2, <3>1, <3>2 DEF Fresh
  <2> HIDE DEF T, o, c, s
  <2>8. T \in [Tasks -> OS_TCB] /\ Moved(o, s, tcb, T)
    <3>1. [tcb[o] EXCEPT !.prio = s] \in OS_TCB
      BY <2>3, <2>5 DEF OS_TCB
    <3>2. SamePlaces(tcb[o], [tcb[o] EXCEPT !.prio = s]) /\ [tcb[o] EXCEPT !.prio = s].prio = s
      BY <2>3, <2>5 DEF OS_TCB, SamePlaces
    <3>3. T[o] = [tcb[o] EXCEPT !.prio = s] /\ \A t \in Tasks \ {o} : T[t] = tcb[t]
      BY <2>3, <2>5, <2>6
    <3>4. T \in [Tasks -> OS_TCB]
      BY <2>3, <2>5, <2>6, <3>1
    <3> QED
      BY <3>2, <3>3, <3>4 DEF Moved
  <2>9. Falls(o, e, tcb, T, pc, ecb)
    <3>1. \A f \in Mutexes(ecb) : ecb[f].ptr = o => f = e
      BY <1>1, <1>2, <2>1, <2>3, <2>5, OwnsOne
    <3>2. Ceil(ecb[e]) = c
      BY DEF c
    <3> QED
      BY <1>2, <2>1, <2>3, <2>8, <3>1, <3>2 DEF Falls, Moved
  <2>10. c \in OSRdy
    BY <1>1, <2>3
  <2>11. MovedLists(o, s, OSRdy, OSEventTbl, tcb, pc, LoweredRdy(e), OSEventTbl)
    BY <1>1, <2>1, <2>4, <2>6, <2>10 DEF MovedLists, Data, WaitSet
  <2>12. Data(LoweredRdy(e), OSEventTbl, T, pc, ecb)
    BY <1>1, <2>2, <2>3, <2>7, <2>8, <2>11, MovedData
  <2>13. OwnersOK(T, pc, ecb) /\ HoldsOK(T, pc, ecb, holds)
    BY <1>1, <2>8, <2>9, MovedOwners DEF s
  <2>14. TableOK(WithPCP(e, OS_TCB_RESERVED), T, pc, ecb) /\ ~RaisedIn(ecb[e], T)
    <3>1. Moved(o, Saved(ecb[e]), tcb, T)
      BY <2>8 DEF s
    <3>2. /\ TableOK([OSTCBPrioTbl EXCEPT ![Ceil(ecb[e])] = OS_TCB_RESERVED], T, pc, ecb)
          /\ ~RaisedIn(ecb[e], T)
      BY <1>1, <2>1, <2>9, <3>1, LoweredTable
    <3> QED
      BY <2>6, <3>2 DEF c
  <2>15. HasPrio(o, LoweredPrioCur(e), T, pc) /\ LoweredPrioCur(e) \in LoweredRdy(e)
    BY <2>3, <2>6, <2>8 DEF HasPrio, Moved
  <2>16. \A t \in WaitSet(tcb, pc, e) : T[t] = tcb[t]
    BY <2>4, <2>8 DEF WaitSet, Moved
  <2>17. WaitSet(T, pc, e) = WaitSet(tcb, pc, e)
    <3>1. \A t \in Tasks : Unans(T[t], pc[t]) <=> Unans(tcb[t], pc[t])
      BY <2>8 DEF Moved, SamePlaces, Unans, PendBits
    <3> QED
      BY <3>1 DEF WaitSet
  <2> QED
    BY <2>12, <2>13, <2>14, <2>15, <2>16, <2>17 DEF T, o
<1> QED
  BY <1>4, <1>5

\* The waiters W of e are answered by the task that has fallen back.
LEMMA LoweredAnswers ==
  ASSUME KernelInv, NEW e \in Events, IsMutex(e), OSTCBCur \in Tasks,
         Raised(e) => Owner(e) = OSTCBCur,
         NEW W \in SUBSET WaitSet(tcb, pc, e), LowerAndReady(e, W),
         OthersKept(e, ecb, ecb'), ecb'[e].type = "MUTEX" \/ W = WaitSet(tcb, pc, e)
  PROVE  /\ Data(OSRdy', OSEventTbl', tcb', pc', ecb')
         /\ Answers(W, LoweredTCBs(e), pc, tcb') /\ pc' = pc /\ OSLockNesting' = OSLockNesting
         /\ LoweredPrioCur(e) \in OSRdy' /\ HasPrio(OSTCBCur, LoweredPrioCur(e), tcb', pc')
<1> DEFINE T == LoweredTCBs(e)
           R == LoweredRdy(e)
           p == LoweredPrioCur(e)
<1>1. /\ Data(R, OSEventTbl, T, pc, ecb) /\ HasPrio(OSTCBCur, p, T, pc) /\ p \in R
      /\ \A t \in WaitSet(tcb, pc, e) : T[t] = tcb[t]
      /\ WaitSet(T, pc, e) = WaitSet(tcb, pc, e)
  BY Lowering
<1>2. /\ tcb' = AnsweredTCBs(T, W, e, NULL, "MUTEX", "OK")
      /\ OSRdy' = R \cup Readied(W) /\ OSEventTbl' = WaitListsWithout(W, e)
      /\ OSLockNesting' = OSLockNesting /\ pc' = pc
  BY DEF LowerAndReady
<1> HIDE DEF T, R, p
<1>3. ecb[e].type = "MUTEX" /\ e \in Mutexes(ecb)
  BY DEF IsMutex, Mutexes
<1>4. T \in [Tasks -> OS_TCB] /\ (\A t \in Tasks : Shape(T[t], pc[t], ecb)) /\ W \in SUBSET Tasks
  BY <1>1 DEF Data, WaitSet
<1>5. ByAnswer(W, e, "MUTEX", "OK", T, tcb')
  BY <1>2, <1>4, AnsweredFields
<1>6. TypesStay(W, T, pc, ecb, ecb')
  <2> SUFFICES ASSUME NEW t \in Tasks, pc[t].at = "pend",
                      T[t].multiptr # {} \/ (Unans(T[t], pc[t]) /\ t \notin W),
                      NEW f \in pc[t].on
               PROVE  ecb'[f].type = ecb[f].type
    <3>1. \A t \in W : pc[t].at = "pend"
      BY DEF WaitSet, Unans
    <3> QED
      BY <3>1 DEF TypesStay, TypesFor
  <2>1. Shape(T[t], pc[t], ecb)
    BY <1>4
  <2>2. f \in Events
    BY <2>1 DEF Shape, SingleShape, MultiShape, FlagShape
  <2>3. CASE f # e
    BY <2>2, <2>3 DEF OthersKept
  <2>4. CASE f = e /\ T[t].multiptr # {}
    <3>1. ecb[e].type \in PostTypes
      BY <2>1, <2>4 DEF Shape, SingleShape, MultiShape, FlagShape
    <3> QED
      BY <1>3, <3>1 DEF PostTypes
  <2>5. CASE f = e /\ Unans(T[t], pc[t]) /\ t \notin W
    BY <1>1, <1>3, <2>5 DEF WaitSet
  <2> QED
    BY <2>3, <2>4, <2>5
<1>7. Answering(W, e, "OK", T, pc, ecb, tcb', ecb')
  BY <1>1, <1>3, <1>5, <1>6 DEF Answering
<1>8. AnsweredLists(W, e, R, OSEventTbl, T, OSRdy', OSEventTbl')
  <2>1. \A t \in W : T[t] = tcb[t]
    BY <1>1
  <2>2. Readied(W) = PriosOf(T, {t \in W : "SUSPEND" \notin T[t].stat})
    BY <2>1 DEF Readied, PriosOf
  <2>3. \A f : {tcb[t].prio : t \in {u \in W : f = e \/ f \in tcb[u].multiptr}}
               = PriosOf(T, {t \in W : f = e \/ f \in T[t].multiptr})
    BY <2>1 DEF PriosOf
  <2> QED
    BY <1>2, <2>2, <2>3 DEF AnsweredLists, WaitListsWithout
<1>9. Data(OSRdy', OSEventTbl', tcb', pc, ecb') /\ Answers(W, T, pc, tcb')
  BY <1>1, <1>7, <1>8, AnsweredData
<1>10. p \in OSRdy' /\ HasPrio(OSTCBCur, p, tcb', pc)
  <2>1. Kept(T, pc, tcb', pc)
    BY <1>9, AnsweredSets
  <2> QED
    BY <1>1, <1>2, <2>1 DEF HasPrio, Kept, LiveSet
<1> QED
  BY <1>2, <1>9, <1>10 DEF T, p

\* OS_Sched, or without any W no OS_Sched, in LowerAndReady.
LEMMA LoweredCurrent ==
  ASSUME NEW e, NEW W, LowerAndReady(e, W),
         Data(OSRdy', OSEventTbl', tcb', pc', ecb'), TableOK(OSTCBPrioTbl', tcb', pc', ecb'),
         LoweredPrioCur(e) \in OSRdy', HasPrio(OSTCBCur, LoweredPrioCur(e), tcb', pc')
  PROVE  OSPrioCur' \in OSRdy' /\ HasPrio(OSTCBCur', OSPrioCur', tcb', pc')
<1>1. CASE W # {}
  <2>1. SchedFrom(LoweredPrioCur(e))
    BY <1>1 DEF LowerAndReady
  <2> QED
    BY <2>1, SchedKeepsCurrent
<1>2. CASE W = {}
  <2>1. OSPrioCur' = LoweredPrioCur(e) /\ OSTCBCur' = OSTCBCur
    BY <1>2 DEF LowerAndReady
  <2> QED
    BY <2>1
<1> QED
  BY <1>1, <1>2

LEMMA MutexPostKernel ==
  ASSUME KernelInv, PoolsInv, NEW e \in Events, OSMutexPost(e)
  PROVE  KernelInv'
<1> DEFINE x == OSTCBCur
           c == Ceil(ecb[e])
           w == HighestWaiter(e)
           T == LoweredTCBs(e)
           B == WithPCP(e, OS_TCB_RESERVED)
           h == [holds EXCEPT ![x] = @ \ {e}]
<1>1. /\ IsMutex(e) /\ x \in Tasks /\ pc[x] = InTask /\ Owner(e) = x
      /\ OSTCBPrioTbl' = B /\ holds' = h
  BY DEF OSMutexPost, TaskCall
<1>2. e \in Mutexes(ecb) /\ Owner(e) = ecb[e].ptr /\ PCP(e) = c /\ ecb[e].type = "MUTEX"
  BY <1>1, OwnersAre DEF Mutexes
<1>3. pc[x].at # "pend"
  BY <1>1 DEF InTask
<1>4. /\ Data(LoweredRdy(e), OSEventTbl, T, pc, ecb)
      /\ OwnersOK(T, pc, ecb) /\ HoldsOK(T, pc, ecb, holds)
      /\ TableOK(B, T, pc, ecb) /\ ~RaisedIn(ecb[e], T)
      /\ \A t \in WaitSet(tcb, pc, e) : T[t] = tcb[t]
      /\ WaitSet(T, pc, e) = WaitSet(tcb, pc, e)
  BY <1>1, Lowering
<1>5. T \in [Tasks -> OS_TCB] /\ \A t \in Tasks : Shape(T[t], pc[t], ecb)
  BY <1>4 DEF Data
<1>6. /\ OSEventTbl[e] = {} <=> WaitSet(tcb, pc, e) = {}
      /\ OSEventTbl[e] # {} => w \in WaitSet(tcb, pc, e)
  BY WaitersOf
<1>7. c \in 0..255 /\ 255 \in 0..255
  <2>1. c \in PCPs
    BY <1>2, <1>4 DEF OwnersOK
  <2> QED
    BY <2>1, CeilIsPrio
<1>8. OSLockNesting \in {0, 1}
  BY DEF KernelInv
<1>9. ASSUME OSEventTbl[e] # {}, HandOver(e, w), LowerAndReady(e, {w})
      PROVE  KernelInv'
  <2>1. w \in WaitSet(tcb, pc, e) /\ w \in WaitSet(T, pc, e) /\ T[w] = tcb[w]
    BY <1>4, <1>6, <1>9
  <2>2. tcb[w].prio \in Prios
    <3>1. w \in LiveSet(pc)
      BY <2>1, SetsAreLive
    <3> QED
      BY <3>1 DEF KernelInv, Data
  <2>3. ecb' = [ecb EXCEPT ![e].cnt = MutexCnt(c, tcb[w].prio), ![e].ptr = w]
    BY <1>2, <1>9 DEF HandOver, GiveMutex
  <2> HIDE DEF w, c, T, B, h, x
  <2>4. MutexIs(ecb'[e], c, tcb[w].prio, w) /\ OthersKept(e, ecb, ecb')
    <3>1. MutexSet(e, c, tcb[w].prio, w, ecb, ecb')
      BY <1>2, <2>3 DEF MutexSet
    <3>2. Prios \subseteq 0..255
      BY TasksAssumption
    <3>3. tcb[w].prio \in 0..255
      BY <2>2, <3>2
    <3> QED
      BY <1>7, <3>1, <3>3, SetMutex, Zenon
  <2>5. /\ Data(OSRdy', OSEventTbl', tcb', pc', ecb')
        /\ Answers({w}, T, pc, tcb') /\ pc' = pc /\ OSLockNesting' = OSLockNesting
        /\ LoweredPrioCur(e) \in OSRdy' /\ HasPrio(OSTCBCur, LoweredPrioCur(e), tcb', pc')
    <3>1. {w} \in SUBSET WaitSet(tcb, pc, e) /\ ecb'[e].type = "MUTEX"
      BY <2>1, <2>4 DEF MutexIs
    <3> QED
      BY <1>1, <1>9, <2>4, <3>1, LoweredAnswers DEF T, x
  <2>6. MutexIs(ecb'[e], Ceil(ecb[e]), T[w].prio, w) /\ T[w].prio \in Prios /\ ecb[e].ptr = x
    BY <1>1, <1>2, <2>1, <2>2, <2>4 DEF c
  <2>7. /\ OwnersOK(tcb', pc, ecb') /\ TableOK(B, tcb', pc, ecb')
        /\ HoldsOK(tcb', pc, ecb', [holds EXCEPT ![x] = @ \ {e}])
    BY <1>1, <1>2, <1>3, <1>4, <1>5, <2>1, <2>4, <2>5, <2>6, PassedMutex
  <2>8. TableOK(OSTCBPrioTbl', tcb', pc', ecb')
    BY <1>1, <2>5, <2>7
  <2>9. OSPrioCur' \in OSRdy' /\ HasPrio(OSTCBCur', OSPrioCur', tcb', pc')
    BY <1>9, <2>5, <2>8, LoweredCurrent
  <2> QED
    BY <1>1, <1>8, <2>5, <2>7, <2>8, <2>9 DEF KernelInv, h
<1>10. ASSUME OSEventTbl[e] = {}, LowerAndReady(e, {}),
              ecb' = [ecb EXCEPT ![e].cnt = MutexCnt(PCP(e), OS_MUTEX_AVAILABLE), ![e].ptr = NULL]
       PROVE  KernelInv'
  <2>1. WaitSet(tcb, pc, e) = {} /\ WaitSet(T, pc, e) = {}
    BY <1>4, <1>6, <1>10
  <2>2. ecb' = [ecb EXCEPT ![e].cnt = MutexCnt(c, 255), ![e].ptr = NULL]
    BY <1>2, <1>10 DEF OS_MUTEX_AVAILABLE
  <2> HIDE DEF w, c, T, B, h, x
  <2>3. MutexIs(ecb'[e], c, 255, NULL) /\ OthersKept(e, ecb, ecb')
    <3>1. MutexSet(e, c, 255, NULL, ecb, ecb')
      BY <1>2, <2>2 DEF MutexSet
    <3> QED
      BY <1>7, <3>1, SetMutex, Zenon
  <2>4. /\ Data(OSRdy', OSEventTbl', tcb', pc', ecb')
        /\ pc' = pc /\ OSLockNesting' = OSLockNesting
        /\ LoweredPrioCur(e) \in OSRdy' /\ HasPrio(OSTCBCur, LoweredPrioCur(e), tcb', pc')
    <3>1. {} \in SUBSET WaitSet(tcb, pc, e) /\ ecb'[e].type = "MUTEX"
      BY <2>3 DEF MutexIs
    <3> QED
      BY <1>1, <1>10, <2>3, <3>1, LoweredAnswers DEF x
  <2>5. tcb' = T
    <3>1. tcb' = AnsweredTCBs(T, {}, e, NULL, "MUTEX", "OK")
      BY <1>10 DEF LowerAndReady, T
    <3> QED
      BY <1>5, <3>1 DEF AnsweredTCBs
  <2>6. MutexIs(ecb'[e], Ceil(ecb[e]), 255, NULL) /\ ecb[e].ptr = x
    BY <1>1, <1>2, <2>3 DEF c
  <2>7. /\ OwnersOK(T, pc, ecb') /\ TableOK(B, T, pc, ecb')
        /\ HoldsOK(T, pc, ecb', [holds EXCEPT ![x] = @ \ {e}])
    BY <1>1, <1>2, <1>3, <1>4, <2>1, <2>3, <2>6, FreedMutex
  <2>8. TableOK(OSTCBPrioTbl', tcb', pc', ecb')
    BY <1>1, <2>4, <2>5, <2>7
  <2>9. OSPrioCur' \in OSRdy' /\ HasPrio(OSTCBCur', OSPrioCur', tcb', pc')
    BY <1>10, <2>4, <2>8, LoweredCurrent
  <2> QED
    BY <1>1, <1>8, <2>4, <2>5, <2>7, <2>8, <2>9 DEF KernelInv, h
<1> QED
  BY <1>9, <1>10 DEF OSMutexPost

LEMMA MutexDelKernel ==
  ASSUME KernelInv, PoolsInv, Hazards = {}, NEW e \in Events, NEW always \in BOOLEAN,
         OSMutexDel(e, always)
  PROVE  KernelInv'
<1> DEFINE c == Ceil(ecb[e])
           T == LoweredTCBs(e)
           B == WithPCP(e, OS_TCB_RESERVED)
           h == [t \in Tasks |-> holds[t] \ {e}]
<1>1. /\ IsMutex(e) /\ OSTCBCur \in Tasks
      /\ OSTCBPrioTbl' = WithPCP(e, NULL) /\ holds' = h
      /\ ecb' = [ecb EXCEPT ![e] = UnusedECB]
  BY DEF OSMutexDel, TaskCall
<1>2. /\ e \in Mutexes(ecb) /\ PCP(e) = c /\ (HasCeiling(e) <=> c # 255)
      /\ (Raised(e) <=> RaisedIn(ecb[e], tcb)) /\ ecb[e].type = "MUTEX"
  BY <1>1, OwnersAre DEF Mutexes
<1>3. OthersKept(e, ecb, ecb') /\ ecb'[e].type # "MUTEX"
  <2>1. DOMAIN ecb = Events
    BY DEF PoolsInv, EcbShape
  <2> QED
    BY <1>1, <2>1 DEF OthersKept, UnusedECB
<1>4. OSLockNesting \in {0, 1}
  BY DEF KernelInv
<1>5. /\ Waiters(e) = WaitSet(tcb, pc, e)
      /\ OSEventTbl[e] = {} <=> WaitSet(tcb, pc, e) = {}
  BY WaitersOf
<1>6. /\ Data(OSRdy, OSEventTbl, tcb, pc, ecb) /\ OwnersOK(tcb, pc, ecb)
      /\ HoldsOK(tcb, pc, ecb, holds) /\ TableOK(OSTCBPrioTbl, tcb, pc, ecb)
  BY DEF KernelInv
<1>7. c # 255 => c \in AllPrios
  BY <1>2, <1>6, CeilIsPrio, Constants DEF OwnersOK
<1>8. OSTCBPrioTbl \in [AllPrios -> Tasks \cup {IdleTask, NULL, OS_TCB_RESERVED}]
  BY <1>6 DEF TableOK
<1>9. ASSUME Raised(e) /\ Owner(e) # OSTCBCur => "DeleteOwned" \in Hazards,
             LowerAndReady(e, Waiters(e))
      PROVE  KernelInv'
  <2> DEFINE W == WaitSet(tcb, pc, e)
  <2>1. (Raised(e) => Owner(e) = OSTCBCur) /\ LowerAndReady(e, W)
    BY <1>5, <1>9
  <2>2. /\ Data(LoweredRdy(e), OSEventTbl, T, pc, ecb)
        /\ OwnersOK(T, pc, ecb) /\ HoldsOK(T, pc, ecb, holds)
        /\ TableOK(B, T, pc, ecb) /\ ~RaisedIn(ecb[e], T)
        /\ WaitSet(T, pc, e) = W
    BY <1>1, <2>1, Lowering
  <2>3. /\ Data(OSRdy', OSEventTbl', tcb', pc', ecb')
        /\ Answers(W, T, pc, tcb') /\ pc' = pc /\ OSLockNesting' = OSLockNesting
        /\ LoweredPrioCur(e) \in OSRdy' /\ HasPrio(OSTCBCur, LoweredPrioCur(e), tcb', pc')
    BY <1>1, <1>3, <2>1, LoweredAnswers
  <2>4. \A t \in Tasks : Shape(T[t], pc[t], ecb)
    BY <2>2 DEF Data
  <2> HIDE DEF T, B, W, h
  <2>5. Answers(WaitSet(T, pc, e), T, pc, tcb')
    BY <2>2, <2>3
  <2>6. /\ OwnersOK(tcb', pc, ecb')
        /\ TableOK(IF Ceil(ecb[e]) = 255 THEN B ELSE [B EXCEPT ![Ceil(ecb[e])] = NULL], tcb', pc, ecb')
        /\ HoldsOK(tcb', pc, ecb', [t \in Tasks |-> holds[t] \ {e}])
    BY <1>2, <1>3, <2>2, <2>4, <2>5, DeletedMutex
  <2>7. (IF c = 255 THEN B ELSE [B EXCEPT ![c] = NULL]) = WithPCP(e, NULL)
    <3>1. CASE c = 255
      BY <1>2, <3>1 DEF WithPCP, B
    <3>2. CASE c # 255
      <4>1. c \in AllPrios /\ B = [OSTCBPrioTbl EXCEPT ![c] = OS_TCB_RESERVED]
            /\ WithPCP(e, NULL) = [OSTCBPrioTbl EXCEPT ![c] = NULL]
        BY <1>2, <1>7, <3>2 DEF WithPCP, B
      <4> HIDE DEF c
      <4>2. [B EXCEPT ![c] = NULL] = [OSTCBPrioTbl EXCEPT ![c] = NULL]
        BY <1>8, <4>1
      <4> QED
        BY <3>2, <4>1, <4>2
    <3> QED
      BY <3>1, <3>2
  <2>8. TableOK(OSTCBPrioTbl', tcb', pc', ecb')
    BY <1>1, <2>3, <2>6, <2>7
  <2>9. OSPrioCur' \in OSRdy' /\ HasPrio(OSTCBCur', OSPrioCur', tcb', pc')
    BY <2>1, <2>3, <2>8, LoweredCurrent
  <2> QED
    BY <1>1, <1>4, <2>3, <2>6, <2>8, <2>9 DEF KernelInv, h
<1>10. ASSUME OSEventTbl[e] = {}, Raised(e) => "DeleteRaised" \in Hazards,
              UNCHANGED <<calls, OSRdy, OSPrioCur, OSTCBCur, OSLockNesting, tcb, OSEventTbl, pc>>
       PROVE  KernelInv'
  <2>1. ~RaisedIn(ecb[e], tcb) /\ WaitSet(tcb, pc, e) = {}
    BY <1>2, <1>5, <1>10
  <2>2. Answers(WaitSet(tcb, pc, e), tcb, pc, tcb) /\ \A t \in Tasks : Shape(tcb[t], pc[t], ecb)
    BY <1>6, <2>1 DEF Answers, Data
  <2> HIDE DEF T, B, h
  <2>3. /\ OwnersOK(tcb, pc, ecb')
        /\ TableOK(IF Ceil(ecb[e]) = 255 THEN OSTCBPrioTbl ELSE [OSTCBPrioTbl EXCEPT ![Ceil(ecb[e])] = NULL],
                   tcb, pc, ecb')
        /\ HoldsOK(tcb, pc, ecb', [t \in Tasks |-> holds[t] \ {e}])
    <3>1. e \in Mutexes(ecb)
      BY <1>2
    <3>2. Answers(WaitSet(tcb, pc, e), tcb, pc, tcb)
      BY <2>2
    <3>3. \A t \in Tasks : Shape(tcb[t], pc[t], ecb)
      BY <2>2
    <3>4. OthersKept(e, ecb, ecb')
      BY <1>3
    <3>5. ecb'[e].type # "MUTEX"
      BY <1>3
    <3>6. ~RaisedIn(ecb[e], tcb)
      BY <2>1
    <3>7. TableOK(OSTCBPrioTbl, tcb, pc, ecb)
      BY <1>6
    <3>8. OwnersOK(tcb, pc, ecb) /\ HoldsOK(tcb, pc, ecb, holds)
      BY <1>6
    <3> QED
      BY ONLY <3>1, <3>2, <3>3, <3>4, <3>5, <3>6, <3>7, <3>8, DeletedMutex
  <2>4. TableOK(WithPCP(e, NULL), tcb, pc, ecb')
    BY <1>2, <2>3 DEF WithPCP
  <2>5. \A t \in Tasks : TypesFor(tcb[t], pc[t], ecb, ecb')
    <3> SUFFICES ASSUME NEW t \in Tasks, pc[t].at = "pend",
                        tcb[t].multiptr # {} \/ Unans(tcb[t], pc[t]), NEW f \in pc[t].on
                 PROVE  ecb'[f].type = ecb[f].type
      BY DEF TypesFor
    <3>1. Shape(tcb[t], pc[t], ecb)
      BY <2>2
    <3>2. f \in Events
      BY <3>1 DEF Shape, SingleShape, MultiShape, FlagShape
    <3>3. f # e
      <4>1. CASE tcb[t].multiptr # {}
        BY <1>2, <3>1, <4>1 DEF Shape, SingleShape, MultiShape, FlagShape, PostTypes
      <4>2. CASE Unans(tcb[t], pc[t])
        BY <2>1, <4>2 DEF WaitSet
      <4> QED
        BY <4>1, <4>2
    <3> QED
      BY <1>3, <3>2, <3>3 DEF OthersKept
  <2>6. Data(OSRdy, OSEventTbl, tcb, pc, ecb')
    BY <1>6, <2>5, EventsData
  <2> QED
    BY <1>1, <1>10, <2>3, <2>4, <2>6 DEF KernelInv, h
<1> QED
  BY <1>9, <1>10 DEF OSMutexDel

LEMMA MutexKernel ==
  ASSUME KernelInv, PoolsInv, Hazards = {}, MutexNext
  PROVE  KernelInv'
<1>1. ASSUME NEW e \in Events, OSMutexAccept(e)
      PROVE  KernelInv'
  BY <1>1, TakeMutexKernel DEF OSMutexAccept
<1>2. ASSUME NEW e \in Events, NEW timeout \in 0..MaxDly, OSMutexPend(e, timeout)
      PROVE  KernelInv'
  <2>1. CASE TakeMutex(e)
    BY <1>2, <2>1, TakeMutexKernel DEF OSMutexPend
  <2>2. CASE ~TakeMutex(e)
    BY <1>2, <2>2, MutexWaitKernel
  <2> QED
    BY <2>1, <2>2
<1> QED
  BY <1>1, <1>2, CreateMutexKernel, MutexPostKernel, MutexDelKernel DEF MutexNext

-----------------------------------------------------------------------------
(* The task services together *)

LEMMA TasksKernel ==
  ASSUME KernelInv, Hazards = {}, TasksNext, NotesKept, ecb' = ecb, holds' = holds
  PROVE  KernelInv'
<1>1. CASE OSTimeTick
  BY <1>1, OSTimeTickKernel
<1>2. CASE TaskStep
  BY <1>2, TaskStepKernel
<1>3. CASE \E ticks \in 1..MaxDly : OSTimeDly(ticks)
  BY <1>3, OSTimeDlyKernel
<1>4. CASE \E p \in Prios : OSTimeDlyResume(p) \/ OSTaskSuspend(p) \/ OSTaskResume(p)
  <2>1. PICK p \in Prios : OSTimeDlyResume(p) \/ OSTaskSuspend(p) \/ OSTaskResume(p)
    BY <1>4
  <2>2. CASE OSTimeDlyResume(p)
    BY <2>2, OSTimeDlyResumeKernel
  <2>3. CASE OSTaskSuspend(p)
    BY <2>3, OSTaskSuspendKernel
  <2>4. CASE OSTaskResume(p)
    BY <2>4, OSTaskResumeKernel
  <2> QED
    BY <2>1, <2>2, <2>3, <2>4
<1>5. CASE \E p \in Prios, q \in NewPrios : OSTaskChangePrio(p, q)
  <2>1. PICK p \in Prios, q \in NewPrios : OSTaskChangePrio(p, q)
    BY <1>5
  <2>2. q \in Prios
    BY TasksAssumption
  <2> QED
    BY <2>1, <2>2, OSTaskChangePrioKernel
<1>6. CASE OSSchedLock \/ OSSchedUnlock
  BY <1>6, LockKernel
<1> QED
  BY <1>1, <1>2, <1>3, <1>4, <1>5, <1>6 DEF TasksNext

-----------------------------------------------------------------------------
(* Event flags: how a pend starts and ends *)

LEMMA TakeFlagsKernel ==
  ASSUME KernelInv, UNCHANGED taskVars, ecb' = ecb, holds' = holds
  PROVE  KernelInv'
<1>1. SameKinds(ecb, ecb')
  BY DEF SameKinds
<1> QED
  BY <1>1, StoreStep

LEMMA FlagBlockKernel ==
  ASSUME KernelInv, NotesKept, TaskCall("OSFlag"), OSLockNesting = 0,
         NEW g, NEW wanted, NEW type, NEW consume, NEW timeout \in 0..MaxDly,
         OS_FlagBlock(g, wanted, type, consume, timeout),
         UNCHANGED <<OSLockNesting, OSTCBPrioTbl, OSEventTbl, ecb, holds>>, OS_Sched
  PROVE  KernelInv'
<1> DEFINE x == OSTCBCur
           c == WaitingTCB(tcb[x], {"FLAG"}, timeout)
           k == Pending("OSFlagPend", {})
<1>1. x \in Tasks /\ pc[x] = InTask
  BY DEF TaskCall
<1>2. /\ x \in LiveSet(pc) /\ Runs(tcb[x], pc[x]) /\ Shape(tcb[x], pc[x], ecb) /\ tcb[x] \in OS_TCB
      /\ Cur.prio = tcb[x].prio
  BY <1>1, CurrentRuns DEF Cur
<1>3. /\ tcb' = [tcb EXCEPT ![x] = c] /\ pc' = [pc EXCEPT ![x] = k]
      /\ OSRdy' = OSRdy \ {tcb[x].prio}
  BY <1>2 DEF OS_FlagBlock
<1>4. pc[x].at = "task" /\ k.at = "pend" /\ k.svc = "OSFlagPend" /\ k.on = {}
  BY <1>1 DEF InTask, Pending
<1>5. OutShape(tcb[x]) /\ tcb[x].stat = {}
  BY <1>2, <1>4, ShapeOfRunning DEF Shape
<1>6. c \in OS_TCB /\ c.prio = tcb[x].prio /\ WaitingFlag(c, k)
  <2>1. {"FLAG"} \in SUBSET StatBits
    BY DEF StatBits, OS_STAT_PEND_ANY
  <2> HIDE DEF k
  <2>2. /\ c \in OS_TCB /\ c.prio = tcb[x].prio /\ c.stat = tcb[x].stat \cup {"FLAG"}
        /\ c.statpend = "OK" /\ c.eventptr = tcb[x].eventptr /\ c.multiptr = tcb[x].multiptr
    BY <1>2, <2>1, WaitingFields
  <2> HIDE DEF c
  <2> QED
    BY <1>4, <1>5, <2>2 DEF WaitingFlag, OutShape
<1> HIDE DEF c, k
<1>7. Shape(c, k, ecb) /\ Unans(c, k) /\ ~Runs(c, k)
  BY <1>6, ShapeOfWaiting
<1>8. Data(OSRdy, OSEventTbl, tcb, pc, ecb)
  BY DEF KernelInv
<1>9. tcb \in [Tasks -> OS_TCB] /\ DOMAIN pc = Tasks
  BY <1>8 DEF Data
<1>10. /\ tcb' \in [Tasks -> OS_TCB] /\ DOMAIN pc' = Tasks /\ tcb'[x] = c /\ pc'[x] = k
       /\ \A t \in Tasks \ {x} : tcb'[t] = tcb[t] /\ pc'[t] = pc[t]
  BY <1>1, <1>3, <1>6, <1>9
<1>11. ~Owns(ecb, x)
  BY <1>1, <1>4, <1>10, NoOwnerPends
<1> HIDE DEF x
<1>12. OneChanges(x, tcb, pc, tcb', pc', ecb)
  BY <1>4, <1>6, <1>7, <1>10 DEF OneChanges, Live
<1>13. OneListed(x, tcb[x].prio, OSRdy, OSEventTbl, OSRdy', OSEventTbl', tcb', pc')
  <2>1. ~Unans(tcb[x], pc[x])
    BY <1>4 DEF Unans
  <2>2. \A e \in Events : OSEventTbl[e] \ {tcb[x].prio} = OSEventTbl[e]
    BY <1>2, <1>8, <2>1, WaitsAgree
  <2>3. DOMAIN OSEventTbl = Events
    BY <1>8 DEF Data
  <2> QED
    BY <1>3, <1>4, <1>7, <1>10, <2>2, <2>3 DEF OneListed
<1>14. Quiet(x, tcb[x], pc[x], tcb'[x], pc'[x], ecb)
  BY <1>4, <1>10, <1>11 DEF Quiet, Got
<1>15. SameKinds(ecb, ecb') /\ OSLockNesting' \in {0, 1} /\ Scheduled
  BY DEF SameKinds, Scheduled
<1> QED
  BY <1>2, <1>12, <1>13, <1>14, <1>15, OneStep

LEMMA FlagReturnsKernel ==
  ASSUME KernelInv, FlagPendReturns, ecb' = ecb, holds' = holds
  PROVE  KernelInv'
<1> DEFINE x == OSTCBCur
           d1 == [tcb[x] EXCEPT !.stat = {}]
           d == [d1 EXCEPT !.statpend = "OK"]
<1>1. /\ x \in Tasks /\ pc[x].at = "pend" /\ pc[x].svc = "OSFlagPend" /\ Cur = tcb[x]
      /\ FlagPendTimedOut \/ FlagPendAnswered
      /\ pc' = [pc EXCEPT ![x] = InTask] /\ OSEventTbl' = OSEventTbl
      /\ UNCHANGED <<OSRdy, OSPrioCur, OSTCBCur, OSLockNesting, OSTCBPrioTbl, ecb>>
  BY DEF FlagPendReturns, Cur
<1>2. Runs(tcb[x], pc[x]) /\ Shape(tcb[x], pc[x], ecb) /\ tcb[x] \in OS_TCB
  BY <1>1, CurrentRuns
<1>3. FlagShape(tcb[x], pc[x])
  BY <1>1, <1>2 DEF Shape, SinglePends
<1>4. tcb \in [Tasks -> OS_TCB] /\ holds \in [Tasks -> SUBSET Events]
  BY DEF KernelInv, Data, HoldsOK
<1>5. InTask.at = "task" /\ pc[x].on = {}
  BY <1>3 DEF InTask, FlagShape
<1>6. \A e : ~Got(tcb[x], pc[x], e)
  BY <1>1 DEF Got
<1>7. holds' = [holds EXCEPT ![x] = @ \cup {e \in Mutexes(ecb) : Got(tcb[x], pc[x], e)}]
  BY <1>1, <1>4, <1>6
<1>8. ASSUME NEW c \in OS_TCB, c.prio = tcb[x].prio, c.dly = tcb[x].dly, OutShape(c), c.stat = {},
             tcb' = [tcb EXCEPT ![x] = c]
      PROVE  KernelInv'
  BY <1>1, <1>5, <1>7, <1>8, ReturnStep
<1>9. CASE FlagPendTimedOut
  <2>1. d1 \in OS_TCB /\ d1.prio = tcb[x].prio /\ d1.dly = tcb[x].dly /\ d1.stat = {}
        /\ d1.eventptr = tcb[x].eventptr /\ d1.multiptr = tcb[x].multiptr
    BY <1>2 DEF OS_TCB
  <2>2. tcb' = [tcb EXCEPT ![x] = d]
    BY <1>1, <1>4, <1>9 DEF FlagPendTimedOut, OS_STAT_RDY
  <2> HIDE DEF d1
  <2>3. /\ d \in OS_TCB /\ d.prio = tcb[x].prio /\ d.dly = tcb[x].dly /\ d.stat = {}
        /\ d.eventptr = tcb[x].eventptr /\ d.multiptr = tcb[x].multiptr /\ d.statpend = "OK"
    BY <2>1 DEF OS_TCB
  <2> HIDE DEF d
  <2>4. OutShape(d)
    BY <1>3, <2>3 DEF OutShape, FlagShape
  <2> QED
    BY <1>8, <2>2, <2>3, <2>4
<1>10. CASE FlagPendAnswered
  <2>1. tcb[x].statpend = "OK" /\ tcb' = [tcb EXCEPT ![x] = tcb[x]]
    BY <1>1, <1>4, <1>10 DEF FlagPendAnswered
  <2>2. PendBits(tcb[x]) = {} /\ "SUSPEND" \notin tcb[x].stat
    BY <1>1, <1>2, <1>3, <2>1 DEF Runs, Unans, FlagShape
  <2>3. tcb[x].stat = {} /\ OutShape(tcb[x])
    BY <1>3, <2>1, <2>2 DEF PendBits, OS_STAT_PEND_ANY, FlagShape, OutShape
  <2> QED
    BY <1>2, <1>8, <2>1, <2>3
<1> QED
  BY <1>1, <1>9, <1>10

-----------------------------------------------------------------------------
(* OS_FlagTaskRdy for tasks that wait for flags *)

InFlagPend(k) == k.at = "pend" /\ k.svc = "OSFlagPend"

\* What OS_FlagTaskRdy makes of the TCB c.
FlagReady(c, d) ==
  /\ d \in OS_TCB /\ d.prio = c.prio /\ d.dly = 0 /\ d.stat = c.stat \ {"FLAG"}
  /\ d.statpend = "OK" /\ d.eventptr = c.eventptr /\ d.multiptr = c.multiptr

LEMMA FlagReadyFields ==
  ASSUME NEW c \in OS_TCB, NEW d,
         d = [c EXCEPT !.dly = 0, !.stat = @ \ {"FLAG"}, !.statpend = "OK"]
  PROVE  FlagReady(c, d)
<1> DEFINE d1 == [c EXCEPT !.dly = 0]
           d2 == [d1 EXCEPT !.stat = @ \ {"FLAG"}]
           d3 == [d2 EXCEPT !.statpend = "OK"]
<1>1. /\ d1 \in OS_TCB /\ d1.prio = c.prio /\ d1.dly = 0 /\ d1.stat = c.stat
      /\ d1.eventptr = c.eventptr /\ d1.multiptr = c.multiptr
  BY TasksAssumption DEF OS_TCB
<1> HIDE DEF d1
<1>2. /\ d2 \in OS_TCB /\ d2.prio = c.prio /\ d2.dly = 0 /\ d2.stat = c.stat \ {"FLAG"}
      /\ d2.eventptr = c.eventptr /\ d2.multiptr = c.multiptr
  BY <1>1 DEF OS_TCB
<1> HIDE DEF d2
<1>3. FlagReady(c, d3)
  BY <1>2 DEF OS_TCB, FlagReady
<1> HIDE DEF d3
<1>4. d = d3
  BY DEF d1, d2, d3
<1> QED
  BY <1>3, <1>4

LEMMA ShapeOfFlagReady ==
  ASSUME NEW c, NEW d, NEW k, NEW ecbs, Shape(c, k, ecbs), InFlagPend(k), Unans(c, k),
         FlagReady(c, d)
  PROVE  /\ Shape(d, k, ecbs) /\ ~Unans(d, k) /\ k.on = {}
         /\ Runs(d, k) <=> d.stat = {}
         /\ Runs(c, k) => Runs(d, k)
<1>1. FlagShape(c, k) /\ k.at = "pend" /\ k.svc = "OSFlagPend"
  BY DEF Shape, SinglePends, InFlagPend
<1>2. /\ d.stat \subseteq {"SUSPEND"} /\ d.statpend = "OK" /\ d.dly = 0
      /\ d.eventptr = NULL /\ d.multiptr = {}
  BY <1>1 DEF FlagShape, FlagReady
<1>3. PendBits(d) = {}
  BY <1>2 DEF PendBits, OS_STAT_PEND_ANY
<1>4. ~Unans(d, k)
  BY <1>2, <1>3 DEF Unans
<1>5. Shape(d, k, ecbs)
  BY <1>1, <1>2, <1>4 DEF Shape, WaitShape, FlagShape
<1>6. Runs(d, k) <=> d.stat = {}
  BY <1>1, <1>2, <1>4 DEF Runs, Live
<1>7. Runs(c, k) => d.stat = {}
  BY <1>1 DEF Runs, FlagShape, FlagReady
<1> QED
  BY <1>1, <1>4, <1>5, <1>6, <1>7 DEF FlagShape

LEMMA FlagsAnsweredKernel ==
  ASSUME KernelInv, NEW W \in SUBSET Tasks,
         \A t \in W : InFlagPend(pc[t]) /\ Unans(tcb[t], pc[t]),
         NEW rdy, OS_FlagTaskRdy(W, rdy), ecb' = ecb, holds' = holds,
         OS_Sched \/ UNCHANGED schedVars
  PROVE  KernelInv'
<1>1. /\ Data(OSRdy, OSEventTbl, tcb, pc, ecb) /\ tcb \in [Tasks -> OS_TCB]
      /\ \A t \in Tasks : Shape(tcb[t], pc[t], ecb)
  BY DEF KernelInv, Data
<1>2. /\ tcb' = [t \in Tasks |-> IF t \in W
           THEN [tcb[t] EXCEPT !.dly = 0, !.stat = @ \ {"FLAG"}, !.statpend = "OK"] ELSE tcb[t]]
      /\ OSRdy' = OSRdy \cup {tcb'[t].prio : t \in {u \in W : tcb'[u].stat = {}}}
      /\ UNCHANGED <<OSLockNesting, OSTCBPrioTbl, OSEventTbl, pc>>
  BY Zenon DEF OS_FlagTaskRdy, OS_STAT_RDY
<1>3. ASSUME NEW t \in W
      PROVE  FlagReady(tcb[t], tcb'[t])
  <2>1. tcb'[t] = [tcb[t] EXCEPT !.dly = 0, !.stat = @ \ {"FLAG"}, !.statpend = "OK"]
    BY <1>2
  <2>2. tcb[t] \in OS_TCB
    BY <1>1
  <2> QED
    BY <2>1, <2>2, FlagReadyFields
<1>4. \A t \in Tasks \ W : tcb'[t] = tcb[t]
  BY <1>2, Zenon
<1>5. ASSUME NEW t \in W
      PROVE  /\ Shape(tcb'[t], pc[t], ecb) /\ ~Unans(tcb'[t], pc[t]) /\ pc[t].on = {}
             /\ Runs(tcb'[t], pc[t]) <=> tcb'[t].stat = {}
             /\ Runs(tcb[t], pc[t]) => Runs(tcb'[t], pc[t])
  <2>1. Shape(tcb[t], pc[t], ecb) /\ InFlagPend(pc[t]) /\ Unans(tcb[t], pc[t])
    BY <1>1
  <2> QED
    BY <1>3, <2>1, ShapeOfFlagReady
<1>6. tcb' \in [Tasks -> OS_TCB] /\ \A t \in Tasks : tcb'[t].prio = tcb[t].prio
  <2>1. \A t \in Tasks : tcb'[t] \in OS_TCB /\ tcb'[t].prio = tcb[t].prio
    BY <1>1, <1>3, <1>4 DEF FlagReady
  <2>2. tcb' = [t \in Tasks |-> tcb'[t]]
    BY <1>2, Zenon
  <2> QED
    BY <2>1, <2>2
<1>7. Ends(W, tcb, pc, tcb', ecb)
  BY <1>1, <1>4, <1>5, <1>6 DEF Ends
<1>8. EndsListed(W, OSRdy, OSEventTbl, tcb, pc, OSRdy', OSEventTbl', tcb')
  <2>1. {u \in W : tcb'[u].stat = {}} = {t \in W : Runs(tcb'[t], pc[t])}
    BY <1>5
  <2>2. OSRdy' = OSRdy \cup PriosOf(tcb, {t \in W : Runs(tcb'[t], pc[t])})
    <3> DEFINE S == {u \in W : tcb'[u].stat = {}}
    <3>1. OSRdy' = OSRdy \cup {tcb'[t].prio : t \in S} /\ S = {t \in W : Runs(tcb'[t], pc[t])}
      BY <1>2, <2>1, Zenon
    <3>2. \A t \in S : tcb'[t].prio = tcb[t].prio
      BY <1>6
    <3> HIDE DEF S
    <3>3. {tcb'[t].prio : t \in S} = {tcb[t].prio : t \in S}
      BY <3>2
    <3> QED
      BY <3>1, <3>3 DEF PriosOf
  <2>3. ASSUME NEW e \in Events
        PROVE  OSEventTbl'[e] = OSEventTbl[e] \ PriosOf(tcb,
                 {t \in W : e \in pc[t].on /\ Unans(tcb[t], pc[t]) /\ ~Unans(tcb'[t], pc[t])})
    <3>1. {t \in W : e \in pc[t].on /\ Unans(tcb[t], pc[t]) /\ ~Unans(tcb'[t], pc[t])} = {}
      BY <1>5
    <3>2. PriosOf(tcb, {}) = {}
      BY DEF PriosOf
    <3> QED
      BY <1>2, <3>1, <3>2, Zenon
  <2> QED
    BY <1>1, <1>2, <2>2, <2>3, Zenon DEF EndsListed, Data
<1>9. W \in SUBSET LiveSet(pc)
  BY DEF LiveSet, Live, InFlagPend
<1>10. Data(OSRdy', OSEventTbl', tcb', pc', ecb')
  <2>1. Data(OSRdy', OSEventTbl', tcb', pc, ecb)
    BY <1>1, <1>7, <1>8, <1>9, ManyData
  <2> QED
    BY <1>2, <2>1, Zenon
<1>11. Kept(tcb, pc, tcb', pc')
  BY <1>2, <1>6, Zenon DEF Kept
<1>12. SameMutexes(tcb, pc, ecb, tcb', pc', ecb')
  <2>1. \A e : WaitSet(tcb', pc', e) = WaitSet(tcb, pc, e)
    BY <1>2, <1>4, <1>5, Zenon DEF WaitSet
  <2>2. \A t \in Tasks : \A e : Got(tcb'[t], pc'[t], e) <=> Got(tcb[t], pc[t], e)
    BY <1>2, <1>4, Zenon DEF Got, InFlagPend
  <2>3. \A t \in Tasks : Owns(ecb, t) => t \in LiveSet(pc)
    BY Constants DEF KernelInv, OwnersOK, FreeMutex, OwnedMutex, Owns
  <2> QED
    BY <1>2, <1>11, <2>1, <2>2, <2>3, Zenon DEF SameMutexes, Kept, LiveSet
<1>13. Scheduled /\ OSLockNesting' \in {0, 1}
  BY <1>2, ReadyAdded, Zenon DEF Scheduled, KernelInv
<1> QED
  BY <1>2, <1>10, <1>11, <1>12, <1>13, OtherStep, Zenon

-----------------------------------------------------------------------------
(* The nodes of the tasks inside OSFlagPend *)

FlagWaits(c, k) == InFlagPend(k) /\ Unans(c, k)

UnusedGrps(grps) == {g \in FlagGrps : grps[g].type = "UNUSED"}

\* The groups, the nodes and the free list are of their types; every task that
\* waits has its node in the one group it names, and no other task has.
NodesOK(grps, nodes, tcbs, pcs) ==
  /\ grps \in [FlagGrps -> OS_FLAG_GRP]
  /\ DOMAIN nodes = Tasks
  /\ \A t \in Tasks : nodes[t] \in OS_FLAG_NODE \/ (nodes[t] = NULL /\ ~InFlagPend(pcs[t]))
  /\ \A t \in Tasks : FlagWaits(tcbs[t], pcs[t]) => grps[nodes[t].grp].type = "FLAG"
  /\ \A g \in FlagGrps, t \in Tasks :
       t \in grps[g].waitlist <=> FlagWaits(tcbs[t], pcs[t]) /\ nodes[t].grp = g

NodesInv ==
  /\ NodesOK(OSFlagTbl, node, tcb, pc)
  /\ OSFlagFreeList \in Seq(FlagGrps) /\ Lists(OSFlagFreeList, UnusedGrps(OSFlagTbl))

LEMMA NodesSafe ==
  ASSUME NodesInv
  PROVE  FlagNodesExact
<1>1. NodesOK(OSFlagTbl, node, tcb, pc)
  BY DEF NodesInv
<1>2. \A t : FlagWaits(tcb[t], pc[t]) <=>
               pc[t].at = "pend" /\ pc[t].svc = "OSFlagPend" /\ Unanswered(t)
  BY DEF FlagWaits, InFlagPend, Unanswered, Unans, InPendMulti, PendBits
<1> QED
  BY <1>1, <1>2 DEF NodesOK, FlagNodesExact, IsGroup

\* Every task stays inside its OSFlagPend, or outside, and its wait with it.
FlagPendsStay ==
  \A t \in Tasks :
    /\ InFlagPend(pc'[t]) <=> InFlagPend(pc[t])
    /\ FlagWaits(tcb'[t], pc'[t]) <=> FlagWaits(tcb[t], pc[t])

LEMMA NodesQuiet ==
  ASSUME NodesInv, FlagPendsStay, UNCHANGED flagVars
  PROVE  NodesInv'
<1>1. NodesOK(OSFlagTbl, node, tcb', pc')
  BY DEF NodesInv, NodesOK, FlagPendsStay
<1>2. OSFlagTbl' = OSFlagTbl /\ node' = node /\ OSFlagFreeList' = OSFlagFreeList
  BY DEF flagVars
<1> QED
  BY <1>1, <1>2 DEF NodesInv

\* A task that waits for an event is not inside OSFlagPend.
LEMMA NoFlagWaiter ==
  ASSUME KernelInv, NEW e \in Events, NEW t \in WaitSet(tcb, pc, e)
  PROVE  ~InFlagPend(pc[t])
<1>1. Shape(tcb[t], pc[t], ecb) /\ pc[t].at = "pend" /\ e \in pc[t].on
  BY DEF KernelInv, Data, WaitSet, Unans
<1> QED
  BY <1>1 DEF Shape, SinglePends, FlagShape, InFlagPend

\* The running task changes, and is not inside OSFlagPend before or after.
LEMMA FlagPendsOfOne ==
  ASSUME KernelInv, NEW x, NEW c, NEW k,
         tcb' = tcb \/ tcb' = [tcb EXCEPT ![x] = c],
         pc' = pc \/ pc' = [pc EXCEPT ![x] = k],
         ~InFlagPend(pc[x]), ~InFlagPend(k)
  PROVE  FlagPendsStay
<1>1. DOMAIN tcb = Tasks /\ DOMAIN pc = Tasks
  BY DEF KernelInv, Data
<1>2. \A t \in Tasks \ {x} : tcb'[t] = tcb[t] /\ pc'[t] = pc[t]
  BY <1>1
<1>3. x \in Tasks => ~InFlagPend(pc'[x])
  BY <1>1
<1> QED
  BY <1>2, <1>3 DEF FlagPendsStay, FlagWaits

\* No task moves, and those that are inside OSFlagPend wait as before.
LEMMA FlagPendsOfMany ==
  ASSUME pc' = pc,
         \A t \in Tasks : InFlagPend(pc[t]) => (Unans(tcb'[t], pc[t]) <=> Unans(tcb[t], pc[t]))
  PROVE  FlagPendsStay
BY DEF FlagPendsStay, FlagWaits

\* In a call of a task, that task is not inside OSFlagPend.
LEMMA CallerPlace ==
  ASSUME NEW name, TaskCall(name)
  PROVE  OSTCBCur \in Tasks /\ pc[OSTCBCur] = InTask /\ ~InFlagPend(pc[OSTCBCur])
BY DEF TaskCall, InTask, InFlagPend

-----------------------------------------------------------------------------
(* The other services leave the tasks inside OSFlagPend alone *)

LEMMA SameFlagPends ==
  ASSUME tcb' = tcb, pc' = pc
  PROVE  FlagPendsStay
BY DEF FlagPendsStay, FlagWaits

LEMMA TakeNowFlags ==
  ASSUME KernelInv, ~InFlagPend(pc[OSTCBCur]), NEW S, TakeNow(S)
  PROVE  FlagPendsStay
<1> DEFINE k == Returned("NONE", {<<e, FirstMessage(e)>> : e \in S})
<1>1. tcb' = tcb /\ pc' = [pc EXCEPT ![OSTCBCur] = k]
  BY DEF TakeNow
<1>2. ~InFlagPend(k)
  BY DEF Returned, InFlagPend
<1> QED
  BY <1>1, <1>2, FlagPendsOfOne

LEMMA AcceptFlags ==
  ASSUME KernelInv, NEW name, NEW e, NEW type, Accept(name, e, type)
  PROVE  FlagPendsStay
<1>1. CASE TaskCall(name) /\ TakeNow({e})
  BY <1>1, CallerPlace, TakeNowFlags
<1>2. CASE UNCHANGED taskVars
  BY <1>2, SameFlagPends DEF taskVars
<1> QED
  BY <1>1, <1>2 DEF Accept

LEMMA PendOnFlags ==
  ASSUME KernelInv, ~InFlagPend(pc[OSTCBCur]), NEW svc, svc # "OSFlagPend", NEW e, NEW timeout,
         PendOn(svc, e, timeout)
  PROVE  FlagPendsStay
<1>1. CASE TakeNow({e})
  BY <1>1, TakeNowFlags
<1>2. CASE OS_EventTaskWait(svc, ecb[e].type, e, timeout)
  <2> DEFINE c == [WaitingTCB(tcb[OSTCBCur], {ecb[e].type}, timeout) EXCEPT !.eventptr = e]
             k == Pending(svc, {e})
  <2>1. tcb' = [tcb EXCEPT ![OSTCBCur] = c] /\ pc' = [pc EXCEPT ![OSTCBCur] = k]
    BY <1>2 DEF OS_EventTaskWait
  <2>2. ~InFlagPend(k)
    BY DEF Pending, InFlagPend
  <2> QED
    BY <2>1, <2>2, FlagPendsOfOne
<1> QED
  BY <1>1, <1>2 DEF PendOn

LEMMA PendMultiFlags ==
  ASSUME KernelInv, ~InFlagPend(pc[OSTCBCur]), NEW S, NEW timeout, OSEventPendMulti(S, timeout)
  PROVE  FlagPendsStay
<1> DEFINE bits == {ecb[e].type : e \in S} \cup {"MULTI"}
<1>1. CASE TakeNow({e \in S : Available(e)})
  BY <1>1, TakeNowFlags
<1>2. CASE OS_EventTaskWaitMulti("OSEventPendMulti", bits, S, timeout)
  <2> DEFINE c == [WaitingTCB(tcb[OSTCBCur], bits, timeout) EXCEPT !.eventptr = NULL, !.multiptr = S]
             k == Pending("OSEventPendMulti", S)
  <2>1. tcb' = [tcb EXCEPT ![OSTCBCur] = c] /\ pc' = [pc EXCEPT ![OSTCBCur] = k]
    BY <1>2 DEF OS_EventTaskWaitMulti
  <2>2. ~InFlagPend(k)
    BY DEF Pending, InFlagPend
  <2> QED
    BY <2>1, <2>2, FlagPendsOfOne
<1> QED
  BY <1>1, <1>2 DEF OSEventPendMulti

LEMMA AnsweredFlags ==
  ASSUME KernelInv, NEW e \in Events, NEW W \in SUBSET WaitSet(tcb, pc, e),
         NEW msg, NEW pend, ReadyWaiters(W, e, msg, pend)
  PROVE  FlagPendsStay
<1>1. pc' = pc /\ tcb' = AnsweredTCBs(tcb, W, e, msg, ecb[e].type, pend)
  BY DEF ReadyWaiters, OS_EventTaskRdy
<1>2. \A t \in Tasks \ W : tcb'[t] = tcb[t]
  BY <1>1, Zenon DEF AnsweredTCBs
<1>3. \A t \in W : ~InFlagPend(pc[t])
  BY NoFlagWaiter
<1> QED
  BY <1>1, <1>2, <1>3, FlagPendsOfMany

LEMMA PostFlags ==
  ASSUME KernelInv, NEW e \in Events,
         \/ \E msg, all, sched : PostToWaiters(e, msg, all, sched)
         \/ \E all : AbortWaiters(e, all)
         \/ \E always : DeleteEvent(e, always)
  PROVE  FlagPendsStay
<1>1. /\ Waiters(e) \in SUBSET WaitSet(tcb, pc, e)
      /\ OSEventTbl[e] # {} => {HighestWaiter(e)} \in SUBSET WaitSet(tcb, pc, e)
  BY WaitersOf
<1>2. \E W \in SUBSET WaitSet(tcb, pc, e) : \E msg, pend : ReadyWaiters(W, e, msg, pend)
  <2>1. ASSUME NEW msg, NEW all, NEW sched, PostToWaiters(e, msg, all, sched)
        PROVE  \E W \in SUBSET WaitSet(tcb, pc, e) : ReadyWaiters(W, e, msg, "OK")
    BY <1>1, <2>1 DEF PostToWaiters
  <2>2. ASSUME NEW all, AbortWaiters(e, all)
        PROVE  \E W \in SUBSET WaitSet(tcb, pc, e) : ReadyWaiters(W, e, NULL, "ABORT")
    BY <1>1, <2>2 DEF AbortWaiters
  <2>3. ASSUME NEW always, DeleteEvent(e, always)
        PROVE  ReadyWaiters(Waiters(e), e, NULL, "OK")
    BY <2>3 DEF DeleteEvent
  <2> QED
    BY <1>1, <2>1, <2>2, <2>3
<1> QED
  BY <1>2, AnsweredFlags

LEMMA SemFlags ==
  ASSUME KernelInv, NEW e \in Events, SemCall(e)
  PROVE  FlagPendsStay
<1>1. ASSUME NEW timeout, OSSemPend(e, timeout)
      PROVE  FlagPendsStay
  BY <1>1, CallerPlace, PendOnFlags DEF OSSemPend, CanPend
<1>2. CASE OSSemAccept(e)
  BY <1>2, AcceptFlags DEF OSSemAccept
<1>3. CASE OSSemPost(e)
  BY <1>3, PostFlags, SameFlagPends DEF OSSemPost, taskVars
<1>4. ASSUME NEW cnt, OSSemSet(e, cnt)
      PROVE  FlagPendsStay
  BY <1>4, SameFlagPends DEF OSSemSet, taskVars
<1>5. ASSUME NEW all, OSSemPendAbort(e, all) \/ OSSemDel(e, all)
      PROVE  FlagPendsStay
  BY <1>5, PostFlags DEF OSSemPendAbort, OSSemDel
<1> QED
  BY <1>1, <1>2, <1>3, <1>4, <1>5 DEF SemCall

LEMMA MboxFlags ==
  ASSUME KernelInv, NEW e \in Events, MboxCall(e)
  PROVE  FlagPendsStay
<1>1. ASSUME NEW timeout, OSMboxPend(e, timeout)
      PROVE  FlagPendsStay
  BY <1>1, CallerPlace, PendOnFlags DEF OSMboxPend, CanPend
<1>2. CASE OSMboxAccept(e)
  BY <1>2, AcceptFlags DEF OSMboxAccept
<1>3. ASSUME NEW msg, NEW all, NEW sched, OSMboxPostOpt(e, msg, all, sched)
      PROVE  FlagPendsStay
  BY <1>3, PostFlags, SameFlagPends DEF OSMboxPostOpt, taskVars
<1>4. ASSUME NEW all, OSMboxPendAbort(e, all) \/ OSMboxDel(e, all)
      PROVE  FlagPendsStay
  BY <1>4, PostFlags DEF OSMboxPendAbort, OSMboxDel
<1> QED
  BY <1>1, <1>2, <1>3, <1>4 DEF MboxCall, OSMboxPost

LEMMA QFlags ==
  ASSUME KernelInv, NEW e \in Events, QCall(e)
  PROVE  FlagPendsStay
<1>1. ASSUME NEW timeout, OSQPend(e, timeout)
      PROVE  FlagPendsStay
  BY <1>1, CallerPlace, PendOnFlags DEF OSQPend, CanPend
<1>2. CASE OSQAccept(e)
  BY <1>2, AcceptFlags DEF OSQAccept
<1>3. CASE OSQFlush(e)
  BY <1>3, SameFlagPends DEF OSQFlush, taskVars
<1>4. ASSUME NEW msg, NEW front, NEW all, NEW sched, OSQPostOpt(e, msg, front, all, sched)
      PROVE  FlagPendsStay
  BY <1>4, PostFlags, SameFlagPends DEF OSQPostOpt, taskVars
<1>5. ASSUME NEW all, OSQPendAbort(e, all) \/ OSQDel(e, all)
      PROVE  FlagPendsStay
  BY <1>5, PostFlags DEF OSQPendAbort, OSQDel
<1> QED
  BY <1>1, <1>2, <1>3, <1>4, <1>5 DEF QCall, OSQPost, OSQPostFront

LEMMA EventsFlags ==
  ASSUME KernelInv, EventsNext
  PROVE  FlagPendsStay
<1>1. ASSUME NEW type, NEW cnt, NEW ptr, CreateEvent(type, cnt, ptr)
      PROVE  FlagPendsStay
  BY <1>1, SameFlagPends DEF CreateEvent
<1>2. CASE \/ \E cnt \in 0..SemMax : OSSemCreate(cnt)
           \/ \E msg \in Msgs \cup {NULL} : OSMboxCreate(msg)
           \/ OSQCreate
  BY <1>1, <1>2 DEF OSSemCreate, OSMboxCreate, OSQCreate
<1>3. CASE \E e \in Events : SemCall(e) \/ MboxCall(e) \/ QCall(e)
  BY <1>3, SemFlags, MboxFlags, QFlags
<1>4. ASSUME NEW S, NEW timeout, OSEventPendMulti(S, timeout)
      PROVE  FlagPendsStay
  BY <1>4, CallerPlace, PendMultiFlags DEF OSEventPendMulti
<1> QED
  BY <1>2, <1>3, <1>4 DEF EventsNext

LEMMA TasksFlags ==
  ASSUME KernelInv, Hazards = {}, TasksNext, NotesKept, ecb' = ecb, holds' = holds
  PROVE  FlagPendsStay
<1>1. WaitsStay => FlagPendsStay
  BY FlagPendsOfMany DEF WaitsStay
<1>2. CASE OSTimeTick
  BY <1>1, <1>2, OSTimeTickKernel
<1>3. CASE TaskStep
  <2>1. pc' = [pc EXCEPT ![OSTCBCur] = InTask] /\ tcb' = tcb /\ pc[OSTCBCur].at = "returned"
    BY <1>3 DEF TaskStep
  <2>2. ~InFlagPend(pc[OSTCBCur]) /\ ~InFlagPend(InTask)
    BY <2>1 DEF InFlagPend, InTask
  <2> QED
    BY <2>1, <2>2, FlagPendsOfOne
<1>4. CASE \E ticks \in 1..MaxDly : OSTimeDly(ticks)
  BY <1>1, <1>4, OSTimeDlyKernel
<1>5. CASE \E p \in Prios : OSTimeDlyResume(p) \/ OSTaskSuspend(p) \/ OSTaskResume(p)
  <2>1. PICK p \in Prios : OSTimeDlyResume(p) \/ OSTaskSuspend(p) \/ OSTaskResume(p)
    BY <1>5
  <2>2. CASE OSTimeDlyResume(p)
    BY <1>1, <2>2, OSTimeDlyResumeKernel
  <2>3. CASE OSTaskSuspend(p)
    BY <1>1, <2>3, OSTaskSuspendKernel
  <2>4. CASE OSTaskResume(p)
    BY <1>1, <2>4, OSTaskResumeKernel
  <2> QED
    BY <2>1, <2>2, <2>3, <2>4
<1>6. CASE \E p \in Prios, q \in NewPrios : OSTaskChangePrio(p, q)
  <2>1. PICK p \in Prios, q \in NewPrios : OSTaskChangePrio(p, q)
    BY <1>6
  <2>2. q \in Prios
    BY TasksAssumption
  <2> QED
    BY <1>1, <2>1, <2>2, OSTaskChangePrioKernel
<1>7. CASE OSSchedLock \/ OSSchedUnlock
  BY <1>7, SameFlagPends DEF OSSchedLock, OSSchedUnlock
<1> QED
  BY <1>2, <1>3, <1>4, <1>5, <1>6, <1>7 DEF TasksNext

\* A task that owns a mutex falls back, and the tasks of W are answered.
LEMMA LowerAndReadyFlags ==
  ASSUME KernelInv, NEW e \in Events, NEW W \in SUBSET WaitSet(tcb, pc, e), LowerAndReady(e, W)
  PROVE  FlagPendsStay
<1>1. pc' = pc /\ tcb' = AnsweredTCBs(LoweredTCBs(e), W, e, NULL, "MUTEX", "OK")
  BY DEF LowerAndReady
<1>2. tcb \in [Tasks -> OS_TCB]
  BY DEF KernelInv, Data
<1>3. ASSUME NEW t \in Tasks \ W
      PROVE  Unans(tcb'[t], pc[t]) <=> Unans(tcb[t], pc[t])
  <2>1. tcb'[t] = LoweredTCBs(e)[t]
    BY <1>1, Zenon DEF AnsweredTCBs
  <2>2. tcb'[t] = tcb[t] \/ tcb'[t] = [tcb[t] EXCEPT !.prio = OwnerPrio(e)]
    BY <1>2, <2>1 DEF LoweredTCBs
  <2>3. tcb[t] \in OS_TCB
    BY <1>2
  <2>4. /\ tcb'[t].stat = tcb[t].stat /\ tcb'[t].statpend = tcb[t].statpend
        /\ tcb'[t].eventptr = tcb[t].eventptr /\ tcb'[t].multiptr = tcb[t].multiptr
    BY <2>2, <2>3 DEF OS_TCB
  <2> QED
    BY <2>4 DEF Unans, PendBits
<1>4. \A t \in W : ~InFlagPend(pc[t])
  BY NoFlagWaiter
<1> QED
  BY <1>1, <1>3, <1>4, FlagPendsOfMany

LEMMA TakeMutexFlags ==
  ASSUME KernelInv, ~InFlagPend(pc[OSTCBCur]), NEW e, TakeMutex(e)
  PROVE  FlagPendsStay
<1> DEFINE k == Returned("NONE", {<<e, NULL>>})
<1>1. tcb' = tcb /\ pc' = [pc EXCEPT ![OSTCBCur] = k]
  BY DEF TakeMutex
<1>2. ~InFlagPend(k)
  BY DEF Returned, InFlagPend
<1> QED
  BY <1>1, <1>2, FlagPendsOfOne

LEMMA MutexPendFlags ==
  ASSUME KernelInv, NEW e \in Events, NEW timeout, OSMutexPend(e, timeout)
  PROVE  FlagPendsStay
<1> DEFINE x == OSTCBCur
           k == Pending("OSMutexPend", {e})
<1>1. x \in Tasks /\ ~InFlagPend(pc[x])
  BY CallerPlace DEF OSMutexPend
<1>2. CASE TakeMutex(e)
  BY <1>1, <1>2, TakeMutexFlags
<1>3. CASE ~TakeMutex(e)
  <2>1. /\ tcb' = [t \in Tasks |->
             IF t = x THEN [WaitingTCB(tcb[t], {"MUTEX"}, timeout) EXCEPT !.eventptr = e]
             ELSE IF t = Owner(e) /\ MustPromote(e) THEN [tcb[t] EXCEPT !.prio = PCP(e)]
             ELSE tcb[t]]
        /\ pc' = [pc EXCEPT ![x] = k]
    BY <1>3 DEF OSMutexPend
  <2>2. tcb \in [Tasks -> OS_TCB] /\ DOMAIN pc = Tasks
    BY DEF KernelInv, Data
  <2>3. ~InFlagPend(k)
    BY DEF Pending, InFlagPend
  <2>4. pc'[x] = k /\ \A t \in Tasks \ {x} : pc'[t] = pc[t]
    BY <1>1, <2>1, <2>2
  <2>5. ASSUME NEW t \in Tasks \ {x}
        PROVE  Unans(tcb'[t], pc[t]) <=> Unans(tcb[t], pc[t])
    <3>1. tcb'[t] = tcb[t] \/ tcb'[t] = [tcb[t] EXCEPT !.prio = PCP(e)]
      BY <2>1
    <3>2. tcb[t] \in OS_TCB
      BY <2>2
    <3>3. /\ tcb'[t].stat = tcb[t].stat /\ tcb'[t].statpend = tcb[t].statpend
          /\ tcb'[t].eventptr = tcb[t].eventptr /\ tcb'[t].multiptr = tcb[t].multiptr
      BY <3>1, <3>2 DEF OS_TCB
    <3> QED
      BY <3>3 DEF Unans, PendBits
  <2> HIDE DEF k, x
  <2> QED
    BY <1>1, <2>3, <2>4, <2>5 DEF FlagPendsStay, FlagWaits
<1> QED
  BY <1>2, <1>3

LEMMA MutexFlags ==
  ASSUME KernelInv, MutexNext
  PROVE  FlagPendsStay
<1>1. ASSUME NEW pcp \in PCPs, OSMutexCreate(pcp)
      PROVE  FlagPendsStay
  BY <1>1, SameFlagPends DEF OSMutexCreate
<1>2. ASSUME NEW e \in Events, OSMutexAccept(e)
      PROVE  FlagPendsStay
  BY <1>2, CallerPlace, TakeMutexFlags DEF OSMutexAccept
<1>3. ASSUME NEW e \in Events
      PROVE  /\ Waiters(e) \in SUBSET WaitSet(tcb, pc, e)
             /\ OSEventTbl[e] # {} => {HighestWaiter(e)} \in SUBSET WaitSet(tcb, pc, e)
             /\ {} \in SUBSET WaitSet(tcb, pc, e)
  BY <1>3, WaitersOf
<1>4. ASSUME NEW e \in Events, OSMutexPost(e)
      PROVE  FlagPendsStay
  <2>1. \E W \in SUBSET WaitSet(tcb, pc, e) : LowerAndReady(e, W)
    BY <1>3, <1>4 DEF OSMutexPost
  <2> QED
    BY <2>1, LowerAndReadyFlags
<1>5. ASSUME NEW e \in Events, NEW always, OSMutexDel(e, always)
      PROVE  FlagPendsStay
  <2>1. LowerAndReady(e, Waiters(e)) \/ (tcb' = tcb /\ pc' = pc)
    BY <1>5 DEF OSMutexDel
  <2> QED
    BY <1>3, <2>1, LowerAndReadyFlags, SameFlagPends
<1> QED
  BY <1>1, <1>2, <1>4, <1>5, MutexPendFlags DEF MutexNext

LEMMA PendReturnsFlags ==
  ASSUME KernelInv, PendReturns
  PROVE  FlagPendsStay
<1>1. ~InFlagPend(pc[OSTCBCur])
  BY DEF PendReturns, InFlagPend
<1>2. ASSUME NEW err, NEW got, pc' = [pc EXCEPT ![OSTCBCur] = Returned(err, got)],
             tcb' = tcb \/ LeavePend(err, got)
      PROVE  FlagPendsStay
  <2> DEFINE k == Returned(err, got)
             c == [tcb[OSTCBCur] EXCEPT !.stat = OS_STAT_RDY, !.statpend = "OK",
                     !.eventptr = NULL, !.multiptr = {}, !.msg = NULL]
  <2>1. tcb' = tcb \/ tcb' = [tcb EXCEPT ![OSTCBCur] = c]
    BY <1>2 DEF LeavePend
  <2>2. ~InFlagPend(k)
    BY DEF InFlagPend, Returned
  <2> QED
    BY <1>1, <1>2, <2>1, <2>2, FlagPendsOfOne
<1>3. ASSUME NEW err, NEW got, LeavePend(err, got)
      PROVE  FlagPendsStay
  BY <1>2, <1>3 DEF LeavePend
<1>4. CASE PendTimedOut
  BY <1>3, <1>4 DEF PendTimedOut
<1>5. CASE PendTail
  BY <1>3, <1>4, <1>5 DEF PendTail
<1>6. CASE PendMultiTail
  BY <1>2, <1>3, <1>4, <1>6 DEF PendMultiTail
<1>7. CASE ~SwitchReturns
  BY <1>2, <1>7 DEF PendReturns
<1> QED
  BY <1>5, <1>6, <1>7 DEF PendReturns

-----------------------------------------------------------------------------
(* What the steps of the flag services do to the nodes *)

\* Only task x and its links change.
NodeOfOne(x, grps, nodes, tcbs, pcs, grps2, nodes2, tcbs2, pcs2) ==
  /\ grps2 \in [FlagGrps -> OS_FLAG_GRP] /\ DOMAIN nodes2 = Tasks
  /\ \A g \in FlagGrps : grps2[g].type = grps[g].type
  /\ \A g \in FlagGrps : \A t \in Tasks \ {x} : t \in grps2[g].waitlist <=> t \in grps[g].waitlist
  /\ \A t \in Tasks \ {x} : nodes2[t] = nodes[t] /\ tcbs2[t] = tcbs[t] /\ pcs2[t] = pcs[t]
  /\ nodes2[x] \in OS_FLAG_NODE \/ (nodes2[x] = NULL /\ ~InFlagPend(pcs2[x]))
  /\ FlagWaits(tcbs2[x], pcs2[x]) => grps2[nodes2[x].grp].type = "FLAG"
  /\ \A g \in FlagGrps :
       x \in grps2[g].waitlist <=> FlagWaits(tcbs2[x], pcs2[x]) /\ nodes2[x].grp = g

LEMMA NodesOfOne ==
  ASSUME NEW x \in Tasks, NEW grps, NEW nodes, NEW tcbs, NEW pcs, NEW grps2, NEW nodes2,
         NEW tcbs2, NEW pcs2, NodesOK(grps, nodes, tcbs, pcs),
         NodeOfOne(x, grps, nodes, tcbs, pcs, grps2, nodes2, tcbs2, pcs2)
  PROVE  NodesOK(grps2, nodes2, tcbs2, pcs2)
<1>1. ASSUME NEW t \in Tasks
      PROVE  /\ nodes2[t] \in OS_FLAG_NODE \/ (nodes2[t] = NULL /\ ~InFlagPend(pcs2[t]))
             /\ FlagWaits(tcbs2[t], pcs2[t]) => grps2[nodes2[t].grp].type = "FLAG"
             /\ \A g \in FlagGrps : t \in grps2[g].waitlist <=>
                                      FlagWaits(tcbs2[t], pcs2[t]) /\ nodes2[t].grp = g
  <2>1. CASE t = x
    BY <2>1 DEF NodeOfOne
  <2>2. CASE t # x
    <3>1. FlagWaits(tcbs[t], pcs[t]) => nodes[t].grp \in FlagGrps
      BY DEF NodesOK, FlagWaits, OS_FLAG_NODE
    <3> QED
      BY <2>2, <3>1 DEF NodesOK, NodeOfOne
  <2> QED
    BY <2>1, <2>2
<1> QED
  BY <1>1 DEF NodesOK, NodeOfOne

\* The flags of a group change.
WithFlags(grps, g, f) == [grps EXCEPT ![g].flags = f]

LEMMA FlagsOfGroup ==
  ASSUME NEW grps \in [FlagGrps -> OS_FLAG_GRP], NEW g \in FlagGrps, NEW f \in SUBSET Flags
  PROVE  /\ WithFlags(grps, g, f) \in [FlagGrps -> OS_FLAG_GRP]
         /\ \A h \in FlagGrps : /\ WithFlags(grps, g, f)[h].type = grps[h].type
                                /\ WithFlags(grps, g, f)[h].waitlist = grps[h].waitlist
BY DEF OS_FLAG_GRP, WithFlags

LEMMA ConsumedFlags ==
  ASSUME NEW cur \in SUBSET Flags, NEW wanted \in SUBSET Flags, NEW type
  PROVE  FlagsRdy(cur, wanted, type) \in SUBSET Flags /\ Consumed(cur, wanted, type) \in SUBSET Flags
BY DEF FlagsRdy, Consumed

\* Nothing but the flags of the groups changes.
LEMMA NodesStay ==
  ASSUME NEW grps, NEW nodes, NEW tcbs, NEW pcs, NEW grps2, NodesOK(grps, nodes, tcbs, pcs),
         grps2 \in [FlagGrps -> OS_FLAG_GRP],
         \A g \in FlagGrps : grps2[g].type = grps[g].type /\ grps2[g].waitlist = grps[g].waitlist
  PROVE  /\ NodesOK(grps2, nodes, tcbs, pcs)
         /\ UnusedGrps(grps2) = UnusedGrps(grps)
<1>1. \A t \in Tasks : FlagWaits(tcbs[t], pcs[t]) => nodes[t].grp \in FlagGrps
  BY DEF NodesOK, FlagWaits, OS_FLAG_NODE
<1> QED
  BY <1>1 DEF NodesOK, UnusedGrps

\* Group g loses the tasks of W, which are answered.
NodesLoose(g, W, grps, nodes, tcbs, pcs, grps2, nodes2, tcbs2) ==
  /\ grps2 \in [FlagGrps -> OS_FLAG_GRP] /\ DOMAIN nodes2 = Tasks
  /\ W \subseteq grps[g].waitlist
  /\ \A h \in FlagGrps \ {g} : grps2[h] = grps[h]
  /\ grps2[g].waitlist = grps[g].waitlist \ W
  /\ grps2[g].type = grps[g].type \/ grps2[g].waitlist = {}
  /\ \A t \in Tasks \ W : nodes2[t] = nodes[t] /\ tcbs2[t] = tcbs[t]
  /\ \A t \in W : nodes2[t] \in OS_FLAG_NODE /\ ~Unans(tcbs2[t], pcs[t])

LEMMA NodesOfMany ==
  ASSUME NEW g \in FlagGrps, NEW W, NEW grps, NEW nodes, NEW tcbs, NEW pcs, NEW grps2, NEW nodes2,
         NEW tcbs2, NodesOK(grps, nodes, tcbs, pcs),
         NodesLoose(g, W, grps, nodes, tcbs, pcs, grps2, nodes2, tcbs2)
  PROVE  NodesOK(grps2, nodes2, tcbs2, pcs)
<1>1. ASSUME NEW t \in Tasks
      PROVE  /\ nodes2[t] \in OS_FLAG_NODE \/ (nodes2[t] = NULL /\ ~InFlagPend(pcs[t]))
             /\ FlagWaits(tcbs2[t], pcs[t]) => grps2[nodes2[t].grp].type = "FLAG"
             /\ \A h \in FlagGrps : t \in grps2[h].waitlist <=>
                                      FlagWaits(tcbs2[t], pcs[t]) /\ nodes2[t].grp = h
  <2>1. CASE t \in W
    <3>1. ~FlagWaits(tcbs2[t], pcs[t]) /\ nodes2[t] \in OS_FLAG_NODE
      BY <2>1 DEF NodesLoose, FlagWaits
    <3>2. \A h \in FlagGrps \ {g} : t \notin grps[h].waitlist
      BY <2>1 DEF NodesOK, NodesLoose
    <3>3. \A h \in FlagGrps : t \notin grps2[h].waitlist
      BY <2>1, <3>2 DEF NodesLoose
    <3> QED
      BY <3>1, <3>3
  <2>2. CASE t \notin W
    <3>1. nodes2[t] = nodes[t] /\ tcbs2[t] = tcbs[t]
      BY <2>2 DEF NodesLoose
    <3>2. \A h \in FlagGrps : t \in grps2[h].waitlist <=> t \in grps[h].waitlist
      BY <2>2 DEF NodesLoose
    <3>3. FlagWaits(tcbs[t], pcs[t]) => nodes[t].grp \in FlagGrps
      BY DEF NodesOK, FlagWaits, OS_FLAG_NODE
    <3>4. FlagWaits(tcbs[t], pcs[t]) => t \in grps2[nodes[t].grp].waitlist
      BY <3>2, <3>3 DEF NodesOK
    <3>5. FlagWaits(tcbs[t], pcs[t]) => grps2[nodes[t].grp].type = "FLAG"
      BY <3>3, <3>4 DEF NodesOK, NodesLoose
    <3>6. \A h \in FlagGrps :
            t \in grps[h].waitlist <=> FlagWaits(tcbs[t], pcs[t]) /\ nodes[t].grp = h
      BY DEF NodesOK
    <3>7. nodes[t] \in OS_FLAG_NODE \/ (nodes[t] = NULL /\ ~InFlagPend(pcs[t]))
      BY DEF NodesOK
    <3> QED
      BY <3>1, <3>2, <3>5, <3>6, <3>7
  <2> QED
    BY <2>1, <2>2
<1> QED
  BY <1>1 DEF NodesOK, NodesLoose

\* Nobody is linked in a group that is not in use.
LEMMA UnusedGroup ==
  ASSUME NEW grps, NEW nodes, NEW tcbs, NEW pcs, NodesOK(grps, nodes, tcbs, pcs),
         NEW g \in FlagGrps, grps[g].type # "FLAG"
  PROVE  grps[g].waitlist = {}
<1>1. grps[g].waitlist \subseteq Tasks
  BY DEF NodesOK, OS_FLAG_GRP
<1> QED
  BY <1>1 DEF NodesOK

LEMMA OSFlagCreateNodes ==
  ASSUME NodesInv, NEW flags \in SUBSET Flags, OSFlagCreate(flags)
  PROVE  NodesInv'
<1> DEFINE g == Head(OSFlagFreeList)
           r == [type |-> "FLAG", flags |-> flags, waitlist |-> {}]
<1>1. /\ NodesOK(OSFlagTbl, node, tcb, pc) /\ OSFlagFreeList \in Seq(FlagGrps)
      /\ Lists(OSFlagFreeList, UnusedGrps(OSFlagTbl)) /\ OSFlagTbl \in [FlagGrps -> OS_FLAG_GRP]
  BY DEF NodesInv, NodesOK
<1>2. /\ OSFlagFreeList # <<>> /\ OSFlagFreeList' = Tail(OSFlagFreeList)
      /\ OSFlagTbl' = [OSFlagTbl EXCEPT ![g] = r]
      /\ UNCHANGED <<tcb, pc, node>>
  BY DEF OSFlagCreate, taskVars
<1>3. /\ g \in UnusedGrps(OSFlagTbl) /\ g \in FlagGrps /\ OSFlagFreeList' \in Seq(FlagGrps)
      /\ Lists(OSFlagFreeList', UnusedGrps(OSFlagTbl) \ {g})
  BY <1>1, <1>2, TailLists
<1> HIDE DEF g
<1>4. OSFlagTbl[g].type = "UNUSED" /\ OSFlagTbl[g].waitlist = {}
  BY <1>1, <1>3, UnusedGroup DEF UnusedGrps
<1>5. /\ r \in OS_FLAG_GRP /\ r.waitlist = {} /\ r.type = "FLAG"
  BY DEF OS_FLAG_GRP
<1> HIDE DEF r
<1>6. /\ OSFlagTbl' \in [FlagGrps -> OS_FLAG_GRP] /\ OSFlagTbl'[g] = r
      /\ \A h \in FlagGrps \ {g} : OSFlagTbl'[h] = OSFlagTbl[h]
  BY <1>1, <1>2, <1>3, <1>5
<1>7. NodesLoose(g, {}, OSFlagTbl, node, tcb, pc, OSFlagTbl', node, tcb)
  BY <1>1, <1>4, <1>5, <1>6 DEF NodesLoose, NodesOK
<1>8. NodesOK(OSFlagTbl', node, tcb, pc)
  BY <1>1, <1>3, <1>7, NodesOfMany
<1>9. UnusedGrps(OSFlagTbl') = UnusedGrps(OSFlagTbl) \ {g}
  BY <1>4, <1>5, <1>6 DEF UnusedGrps
<1>10. NodesOK(OSFlagTbl', node', tcb', pc')
  BY <1>2, <1>8
<1> QED
  BY <1>3, <1>9, <1>10 DEF NodesInv

LEMMA TakeFlagsNodes ==
  ASSUME NodesInv, NEW g \in FlagGrps, NEW wanted \in SUBSET Flags, NEW type, NEW consume,
         TakeFlags(g, wanted, type, consume)
  PROVE  NodesInv'
<1> DEFINE rdy == FlagsRdy(OSFlagTbl[g].flags, wanted, type)
           f == Consumed(OSFlagTbl[g].flags, rdy, type)
<1>1. NodesOK(OSFlagTbl, node, tcb, pc) /\ OSFlagTbl \in [FlagGrps -> OS_FLAG_GRP]
  BY DEF NodesInv, NodesOK
<1>2. /\ OSFlagTbl' = OSFlagTbl \/ OSFlagTbl' = [OSFlagTbl EXCEPT ![g].flags = f]
      /\ UNCHANGED <<tcb, pc, node, OSFlagFreeList>>
  BY DEF TakeFlags, taskVars
<1>3. f \in SUBSET Flags
  <2>1. OSFlagTbl[g].flags \in SUBSET Flags
    BY <1>1 DEF OS_FLAG_GRP
  <2> QED
    BY <2>1, ConsumedFlags
<1> HIDE DEF f
<1>4. /\ OSFlagTbl' \in [FlagGrps -> OS_FLAG_GRP]
      /\ \A h \in FlagGrps : /\ OSFlagTbl'[h].type = OSFlagTbl[h].type
                             /\ OSFlagTbl'[h].waitlist = OSFlagTbl[h].waitlist
  <2>1. CASE OSFlagTbl' = OSFlagTbl
    BY <1>1, <2>1
  <2>2. CASE OSFlagTbl' = [OSFlagTbl EXCEPT ![g].flags = f]
    <3>1. OSFlagTbl' = WithFlags(OSFlagTbl, g, f)
      BY <2>2 DEF WithFlags
    <3> QED
      BY <1>1, <1>3, <3>1, FlagsOfGroup
  <2> QED
    BY <1>2, <2>1, <2>2
<1>5. NodesOK(OSFlagTbl', node, tcb, pc) /\ UnusedGrps(OSFlagTbl') = UnusedGrps(OSFlagTbl)
  BY <1>1, <1>4, NodesStay
<1>6. NodesOK(OSFlagTbl', node', tcb', pc')
  BY <1>2, <1>5
<1> QED
  BY <1>2, <1>5, <1>6 DEF NodesInv

\* The groups without the links of task x.
WithoutTask(grps, x) == [g \in FlagGrps |-> [grps[g] EXCEPT !.waitlist = @ \ {x}]]

LEMMA Unlinked ==
  ASSUME NEW grps \in [FlagGrps -> OS_FLAG_GRP], NEW x
  PROVE  /\ WithoutTask(grps, x) \in [FlagGrps -> OS_FLAG_GRP]
         /\ \A g \in FlagGrps :
              /\ WithoutTask(grps, x)[g].type = grps[g].type
              /\ WithoutTask(grps, x)[g].waitlist = grps[g].waitlist \ {x}
<1> DEFINE w == WithoutTask(grps, x)
<1>1. ASSUME NEW g \in FlagGrps
      PROVE  /\ w[g] \in OS_FLAG_GRP /\ w[g].type = grps[g].type
             /\ w[g].waitlist = grps[g].waitlist \ {x}
  <2>1. grps[g] \in OS_FLAG_GRP /\ w[g] = [grps[g] EXCEPT !.waitlist = @ \ {x}]
    BY DEF WithoutTask
  <2> HIDE DEF w
  <2> QED
    BY <2>1 DEF OS_FLAG_GRP
<1>2. w = [g \in FlagGrps |-> w[g]]
  BY DEF WithoutTask
<1> HIDE DEF w
<1>3. w \in [FlagGrps -> OS_FLAG_GRP]
  BY <1>1, <1>2
<1>4. \A g \in FlagGrps : w[g].type = grps[g].type /\ w[g].waitlist = grps[g].waitlist \ {x}
  BY <1>1
<1> QED
  BY <1>3, <1>4 DEF w

LEMMA DeleteTaskNodes ==
  ASSUME KernelInv, NodesInv, NEW p \in Prios, DeleteTask(p)
  PROVE  NodesInv'
<1> DEFINE x == OSTCBPrioTbl[p]
           c == NewTCB(InitPrio[x])
<1>1. /\ x \in Tasks /\ tcb' = [tcb EXCEPT ![x] = c] /\ pc' = [pc EXCEPT ![x] = Dormant]
      /\ OSFlagTbl' = [g \in FlagGrps |-> [OSFlagTbl[g] EXCEPT !.waitlist = @ \ {x}]]
      /\ node' = [node EXCEPT ![x] = NULL]
      /\ OSFlagFreeList' = OSFlagFreeList
  BY DEF DeleteTask, OSTaskDel, OS_FlagUnlink
<1>2. /\ NodesOK(OSFlagTbl, node, tcb, pc) /\ OSFlagTbl \in [FlagGrps -> OS_FLAG_GRP]
      /\ DOMAIN node = Tasks /\ DOMAIN tcb = Tasks /\ DOMAIN pc = Tasks
  BY DEF NodesInv, NodesOK, KernelInv, Data
<1> HIDE DEF x, c
<1>3. /\ OSFlagTbl' \in [FlagGrps -> OS_FLAG_GRP]
      /\ \A g \in FlagGrps : /\ OSFlagTbl'[g].type = OSFlagTbl[g].type
                             /\ OSFlagTbl'[g].waitlist = OSFlagTbl[g].waitlist \ {x}
  <2>1. OSFlagTbl' = WithoutTask(OSFlagTbl, x)
    BY <1>1 DEF WithoutTask
  <2>2. OSFlagTbl \in [FlagGrps -> OS_FLAG_GRP]
    BY <1>2
  <2> QED
    BY ONLY <2>1, <2>2, Unlinked
<1>4. /\ pc'[x] = Dormant /\ node'[x] = NULL /\ DOMAIN node' = Tasks
      /\ \A t \in Tasks \ {x} : node'[t] = node[t] /\ tcb'[t] = tcb[t] /\ pc'[t] = pc[t]
  BY <1>1, <1>2
<1>5. ~InFlagPend(pc'[x])
  BY <1>4 DEF InFlagPend, Dormant
<1>6. NodeOfOne(x, OSFlagTbl, node, tcb, pc, OSFlagTbl', node', tcb', pc')
  BY <1>1, <1>3, <1>4, <1>5 DEF NodeOfOne, FlagWaits
<1>7. NodesOK(OSFlagTbl', node', tcb', pc')
  BY <1>1, <1>2, <1>6, NodesOfOne
<1>8. UnusedGrps(OSFlagTbl') = UnusedGrps(OSFlagTbl)
  BY <1>3 DEF UnusedGrps
<1> QED
  BY <1>1, <1>7, <1>8 DEF NodesInv

LEMMA CreateTaskNodes ==
  ASSUME KernelInv, NodesInv, NEW x \in Tasks, CreateTask(x)
  PROVE  NodesInv'
<1> DEFINE c == NewTCB(InitPrio[x])
<1>1. /\ ~Exists(x) /\ tcb' = [tcb EXCEPT ![x] = c] /\ pc' = [pc EXCEPT ![x] = InTask]
      /\ UNCHANGED flagVars
  BY DEF CreateTask, OSTaskCreate
<1>2. ~InFlagPend(pc[x]) /\ ~InFlagPend(InTask)
  BY <1>1 DEF InFlagPend, InTask, Exists
<1>3. FlagPendsStay
  BY <1>1, <1>2, FlagPendsOfOne
<1> QED
  BY <1>1, <1>3, NodesQuiet

LEMMA FlagBlockNodes ==
  ASSUME KernelInv, NodesInv, TaskCall("OSFlag"),
         NEW g \in FlagGrps, IsGroup(g), NEW wanted \in SUBSET Flags, NEW type \in WaitTypes,
         NEW consume \in BOOLEAN, NEW timeout \in 0..MaxDly,
         OS_FlagBlock(g, wanted, type, consume, timeout), OSFlagFreeList' = OSFlagFreeList
  PROVE  NodesInv'
<1> DEFINE x == OSTCBCur
           c == WaitingTCB(tcb[x], {"FLAG"}, timeout)
           k == Pending("OSFlagPend", {})
           n == [grp |-> g, flags |-> wanted, type |-> type, consume |-> consume, rdy |-> {}]
<1>1. x \in Tasks /\ pc[x] = InTask /\ ~InFlagPend(pc[x])
  BY CallerPlace
<1>2. /\ tcb' = [tcb EXCEPT ![x] = c] /\ pc' = [pc EXCEPT ![x] = k] /\ node' = [node EXCEPT ![x] = n]
      /\ OSFlagTbl' = [OSFlagTbl EXCEPT ![g].waitlist = @ \cup {x}]
  <2>1. tcb[x] = Cur
    BY DEF Cur
  <2> QED
    BY <1>1, <2>1 DEF OS_FlagBlock
<1>3. /\ NodesOK(OSFlagTbl, node, tcb, pc) /\ OSFlagTbl \in [FlagGrps -> OS_FLAG_GRP]
      /\ DOMAIN node = Tasks /\ tcb \in [Tasks -> OS_TCB] /\ DOMAIN pc = Tasks
  BY DEF NodesInv, NodesOK, KernelInv, Data
<1>4. n \in OS_FLAG_NODE /\ n.grp = g
  BY DEF OS_FLAG_NODE
<1>5. k.at = "pend" /\ k.svc = "OSFlagPend"
  BY DEF Pending
<1>6. OutShape(tcb[x]) /\ tcb[x] \in OS_TCB
  <2>1. tcb[x] = Cur /\ pc[x].at = "task"
    BY <1>1 DEF Cur, InTask
  <2>2. Shape(tcb[x], pc[x], ecb) /\ tcb[x] \in OS_TCB
    BY <1>1, <2>1, CurrentRuns
  <2> QED
    BY <2>1, <2>2 DEF Shape
<1>7. c.stat = tcb[x].stat \cup {"FLAG"} /\ c.multiptr = tcb[x].multiptr
  <2>1. {"FLAG"} \in SUBSET StatBits
    BY DEF StatBits, OS_STAT_PEND_ANY
  <2> QED
    BY <1>6, <2>1, WaitingFields
<1> HIDE DEF c, k, n
<1>8. FlagWaits(c, k)
  BY <1>5, <1>6, <1>7 DEF FlagWaits, InFlagPend, Unans, PendBits, OS_STAT_PEND_ANY, OutShape
<1> HIDE DEF x
<1>9. /\ OSFlagTbl' \in [FlagGrps -> OS_FLAG_GRP]
      /\ OSFlagTbl'[g].type = OSFlagTbl[g].type
      /\ OSFlagTbl'[g].waitlist = OSFlagTbl[g].waitlist \cup {x}
      /\ \A h \in FlagGrps \ {g} : OSFlagTbl'[h] = OSFlagTbl[h]
  BY <1>1, <1>2, <1>3 DEF OS_FLAG_GRP
<1>10. /\ pc'[x] = k /\ tcb'[x] = c /\ node'[x] = n /\ DOMAIN node' = Tasks
       /\ \A t \in Tasks \ {x} : node'[t] = node[t] /\ tcb'[t] = tcb[t] /\ pc'[t] = pc[t]
  BY <1>1, <1>2, <1>3
<1>11. \A h \in FlagGrps : x \notin OSFlagTbl[h].waitlist
  BY <1>1, <1>3 DEF NodesOK, FlagWaits
<1>12. OSFlagTbl[g].type = "FLAG"
  BY DEF IsGroup
<1>13. NodeOfOne(x, OSFlagTbl, node, tcb, pc, OSFlagTbl', node', tcb', pc')
  <2>1. \A h \in FlagGrps : x \in OSFlagTbl'[h].waitlist <=> h = g
    BY <1>9, <1>11
  <2>2. \A h \in FlagGrps : OSFlagTbl'[h].type = OSFlagTbl[h].type
    BY <1>9
  <2>3. \A h \in FlagGrps : \A t \in Tasks \ {x} :
           t \in OSFlagTbl'[h].waitlist <=> t \in OSFlagTbl[h].waitlist
    BY <1>9
  <2> QED
    BY <1>4, <1>8, <1>9, <1>10, <1>12, <2>1, <2>2, <2>3 DEF NodeOfOne
<1>14. NodesOK(OSFlagTbl', node', tcb', pc')
  BY <1>1, <1>3, <1>13, NodesOfOne
<1>15. UnusedGrps(OSFlagTbl') = UnusedGrps(OSFlagTbl)
  BY <1>9 DEF UnusedGrps
<1> QED
  BY <1>14, <1>15 DEF NodesInv

LEMMA FlagReturnsNodes ==
  ASSUME KernelInv, NodesInv, FlagPendReturns
  PROVE  NodesInv'
<1> DEFINE x == OSTCBCur
<1>1. /\ x \in Tasks /\ InFlagPend(pc[x]) /\ Cur = tcb[x]
      /\ FlagPendTimedOut \/ FlagPendAnswered
      /\ pc' = [pc EXCEPT ![x] = InTask] /\ node' = [node EXCEPT ![x] = NULL]
      /\ OSFlagFreeList' = OSFlagFreeList
  BY DEF FlagPendReturns, Cur, InFlagPend
<1>2. /\ NodesOK(OSFlagTbl, node, tcb, pc) /\ OSFlagTbl \in [FlagGrps -> OS_FLAG_GRP]
      /\ DOMAIN node = Tasks /\ tcb \in [Tasks -> OS_TCB] /\ DOMAIN pc = Tasks
      /\ node[x] \in OS_FLAG_NODE
  BY <1>1 DEF NodesInv, NodesOK, KernelInv, Data
<1>3. Runs(tcb[x], pc[x])
  BY <1>1, CurrentRuns
<1>4. /\ OSFlagTbl' \in [FlagGrps -> OS_FLAG_GRP]
      /\ \A g \in FlagGrps : /\ OSFlagTbl'[g].type = OSFlagTbl[g].type
                             /\ OSFlagTbl'[g].waitlist = OSFlagTbl[g].waitlist \ {x}
      /\ \A t \in Tasks \ {x} : tcb'[t] = tcb[t]
  <2>1. CASE FlagPendTimedOut
    <3>1. OSFlagTbl' = WithoutTask(OSFlagTbl, x)
      BY <2>1 DEF FlagPendTimedOut, OS_FlagUnlink, WithoutTask
    <3>2. \A t \in Tasks \ {x} : tcb'[t] = tcb[t]
      BY <1>2, <2>1 DEF FlagPendTimedOut
    <3>3. OSFlagTbl \in [FlagGrps -> OS_FLAG_GRP]
      BY <1>2
    <3> HIDE DEF x
    <3>4. /\ OSFlagTbl' \in [FlagGrps -> OS_FLAG_GRP]
          /\ \A g \in FlagGrps : /\ OSFlagTbl'[g].type = OSFlagTbl[g].type
                                 /\ OSFlagTbl'[g].waitlist = OSFlagTbl[g].waitlist \ {x}
      BY ONLY <3>1, <3>3, Unlinked
    <3> QED
      BY <3>2, <3>4
  <2>2. CASE FlagPendAnswered
    <3> DEFINE n == node[x]
               f == Consumed(OSFlagTbl[n.grp].flags, n.rdy, n.type)
    <3>1. /\ tcb[x].statpend = "OK" /\ tcb' = tcb
          /\ OSFlagTbl' = OSFlagTbl \/ OSFlagTbl' = [OSFlagTbl EXCEPT ![n.grp].flags = f]
      BY <1>1, <2>2 DEF FlagPendAnswered
    <3>2. n.grp \in FlagGrps /\ n.rdy \in SUBSET Flags
      BY <1>2 DEF OS_FLAG_NODE
    <3>3. f \in SUBSET Flags
      <4>1. OSFlagTbl[n.grp].flags \in SUBSET Flags
        BY <1>2, <3>2 DEF OS_FLAG_GRP
      <4> QED
        BY <3>2, <4>1, ConsumedFlags
    <3>4. \A g \in FlagGrps : x \notin OSFlagTbl[g].waitlist
      <4>1. ~Unans(tcb[x], pc[x])
        BY <1>1, <1>3, <3>1 DEF Runs, InFlagPend
      <4> QED
        BY <1>1, <1>2, <4>1 DEF NodesOK, FlagWaits
    <3> HIDE DEF x, n, f
    <3>5. CASE OSFlagTbl' = OSFlagTbl
      BY <1>2, <3>1, <3>4, <3>5
    <3>6. CASE OSFlagTbl' = [OSFlagTbl EXCEPT ![n.grp].flags = f]
      <4>1. /\ OSFlagTbl' \in [FlagGrps -> OS_FLAG_GRP]
            /\ \A g \in FlagGrps : /\ OSFlagTbl'[g].type = OSFlagTbl[g].type
                                   /\ OSFlagTbl'[g].waitlist = OSFlagTbl[g].waitlist
        <5>1. OSFlagTbl \in [FlagGrps -> OS_FLAG_GRP] /\ n.grp \in FlagGrps /\ f \in SUBSET Flags
          BY <1>2, <3>2, <3>3
        <5>2. OSFlagTbl' = WithFlags(OSFlagTbl, n.grp, f)
          BY <3>6 DEF WithFlags
        <5> QED
          BY <5>1, <5>2, FlagsOfGroup
      <4> QED
        BY <3>1, <3>4, <4>1
    <3> QED
      BY <3>1, <3>5, <3>6
  <2> QED
    BY <1>1, <2>1, <2>2
<1> HIDE DEF x
<1>5. /\ pc'[x] = InTask /\ node'[x] = NULL /\ DOMAIN node' = Tasks
      /\ \A t \in Tasks \ {x} : node'[t] = node[t] /\ pc'[t] = pc[t]
  BY <1>1, <1>2
<1>6. ~InFlagPend(pc'[x])
  BY <1>5 DEF InFlagPend, InTask
<1>7. NodeOfOne(x, OSFlagTbl, node, tcb, pc, OSFlagTbl', node', tcb', pc')
  BY <1>4, <1>5, <1>6 DEF NodeOfOne, FlagWaits
<1>8. NodesOK(OSFlagTbl', node', tcb', pc')
  BY <1>1, <1>2, <1>7, NodesOfOne
<1>9. UnusedGrps(OSFlagTbl') = UnusedGrps(OSFlagTbl)
  BY <1>4 DEF UnusedGrps
<1> QED
  BY <1>1, <1>8, <1>9 DEF NodesInv

\* OS_FlagTaskRdy for tasks linked in a group: they wait for flags, and are
\* answered afterwards.
LEMMA LinkedTasks ==
  ASSUME KernelInv, NodesInv, NEW g \in FlagGrps, NEW W \in SUBSET OSFlagTbl[g].waitlist
  PROVE  W \in SUBSET Tasks /\ \A t \in W : InFlagPend(pc[t]) /\ Unans(tcb[t], pc[t])
<1>1. NodesOK(OSFlagTbl, node, tcb, pc) /\ OSFlagTbl \in [FlagGrps -> OS_FLAG_GRP]
  BY DEF NodesInv, NodesOK
<1>2. OSFlagTbl[g].waitlist \in SUBSET Tasks
  BY <1>1 DEF OS_FLAG_GRP
<1> QED
  BY <1>1, <1>2 DEF NodesOK, FlagWaits

LEMMA ReadyLinked ==
  ASSUME KernelInv, NodesInv, NEW g \in FlagGrps, NEW W \in SUBSET OSFlagTbl[g].waitlist,
         NEW rdy, OS_FlagTaskRdy(W, rdy), \A t \in W : rdy[t] \in SUBSET Flags,
         OSFlagTbl' \in [FlagGrps -> OS_FLAG_GRP],
         \A h \in FlagGrps \ {g} : OSFlagTbl'[h] = OSFlagTbl[h],
         OSFlagTbl'[g].waitlist = OSFlagTbl[g].waitlist \ W,
         OSFlagTbl'[g].type = OSFlagTbl[g].type \/ OSFlagTbl'[g].waitlist = {}
  PROVE  NodesOK(OSFlagTbl', node', tcb', pc')
<1>1. W \in SUBSET Tasks /\ \A t \in W : InFlagPend(pc[t]) /\ Unans(tcb[t], pc[t])
  BY LinkedTasks
<1>2. /\ tcb' = [t \in Tasks |-> IF t \in W
           THEN [tcb[t] EXCEPT !.dly = 0, !.stat = @ \ {"FLAG"}, !.statpend = "OK"] ELSE tcb[t]]
      /\ node' = [t \in Tasks |-> IF t \in W THEN [node[t] EXCEPT !.rdy = rdy[t]] ELSE node[t]]
      /\ pc' = pc
  BY Zenon DEF OS_FlagTaskRdy
<1>3. NodesOK(OSFlagTbl, node, tcb, pc) /\ NodesOK(OSFlagTbl, node, tcb, pc')
  BY <1>2, Zenon DEF NodesInv
<1>4. tcb \in [Tasks -> OS_TCB] /\ \A t \in Tasks : Shape(tcb[t], pc[t], ecb)
  BY DEF KernelInv, Data
<1>5. ASSUME NEW t \in W
      PROVE  node'[t] \in OS_FLAG_NODE /\ ~Unans(tcb'[t], pc'[t])
  <2>1. tcb'[t] = [tcb[t] EXCEPT !.dly = 0, !.stat = @ \ {"FLAG"}, !.statpend = "OK"]
    BY <1>1, <1>2
  <2>2. FlagReady(tcb[t], tcb'[t])
    BY <1>1, <1>4, <2>1, FlagReadyFields, Zenon
  <2>3. Shape(tcb[t], pc[t], ecb) /\ InFlagPend(pc[t]) /\ Unans(tcb[t], pc[t])
    BY <1>1, <1>4
  <2>4. ~Unans(tcb'[t], pc[t])
    BY <2>2, <2>3, ShapeOfFlagReady
  <2>5. node[t] \in OS_FLAG_NODE
    BY <1>1, <1>3, <2>3 DEF NodesOK
  <2>6. node'[t] = [node[t] EXCEPT !.rdy = rdy[t]]
    BY <1>1, <1>2, Zenon
  <2>7. node'[t] \in OS_FLAG_NODE
    BY <2>5, <2>6 DEF OS_FLAG_NODE
  <2> QED
    BY <1>2, <2>4, <2>7
<1>6. DOMAIN node' = Tasks /\ \A t \in Tasks \ W : node'[t] = node[t] /\ tcb'[t] = tcb[t]
  BY <1>2, Zenon
<1>7. NodesLoose(g, W, OSFlagTbl, node, tcb, pc', OSFlagTbl', node', tcb')
  BY <1>5, <1>6 DEF NodesLoose
<1> QED
  BY <1>3, <1>7, NodesOfMany

LEMMA OSFlagPostStep ==
  ASSUME KernelInv, NodesInv, NEW g \in FlagGrps, NEW bits \in SUBSET Flags, NEW set,
         OSFlagPost(g, bits, set), ecb' = ecb, holds' = holds
  PROVE  KernelInv' /\ NodesInv'
<1> DEFINE flags == IF set THEN OSFlagTbl[g].flags \cup bits ELSE OSFlagTbl[g].flags \ bits
           W == AnsweredBy(g, flags)
           rdy == [t \in W |-> FlagsRdy(flags, node[t].flags, node[t].type)]
<1>1. /\ OSFlagTbl' = [OSFlagTbl EXCEPT ![g].flags = flags, ![g].waitlist = @ \ W]
      /\ OS_FlagTaskRdy(W, rdy) /\ OSFlagFreeList' = OSFlagFreeList
      /\ OS_Sched \/ UNCHANGED schedVars
  BY DEF OSFlagPost
<1>2. NodesOK(OSFlagTbl, node, tcb, pc) /\ OSFlagTbl \in [FlagGrps -> OS_FLAG_GRP]
  BY DEF NodesInv, NodesOK
<1>3. OSFlagTbl[g] \in OS_FLAG_GRP
  BY <1>2
<1>4. flags \in SUBSET Flags
  BY <1>3 DEF OS_FLAG_GRP
<1>5. W \in SUBSET OSFlagTbl[g].waitlist
  BY DEF AnsweredBy
<1>6. W \in SUBSET Tasks /\ \A t \in W : InFlagPend(pc[t]) /\ Unans(tcb[t], pc[t])
  <2> HIDE DEF W
  <2> QED
    BY <1>5, LinkedTasks
<1>7. \A t \in W : rdy[t] \in SUBSET Flags
  <2> TAKE t \in W
  <2>1. node[t] \in OS_FLAG_NODE
    BY <1>2, <1>6 DEF NodesOK
  <2>2. node[t].flags \in SUBSET Flags
    BY <2>1 DEF OS_FLAG_NODE
  <2>3. rdy[t] = FlagsRdy(flags, node[t].flags, node[t].type)
    OBVIOUS
  <2> HIDE DEF flags, W
  <2> QED
    BY <1>4, <2>2, <2>3, ConsumedFlags
<1> HIDE DEF flags, W, rdy
<1>8. KernelInv'
  BY <1>1, <1>6, FlagsAnsweredKernel
<1>9. /\ OSFlagTbl' \in [FlagGrps -> OS_FLAG_GRP]
      /\ \A h \in FlagGrps \ {g} : OSFlagTbl'[h] = OSFlagTbl[h]
      /\ OSFlagTbl'[g].waitlist = OSFlagTbl[g].waitlist \ W
      /\ OSFlagTbl'[g].type = OSFlagTbl[g].type
  <2> DEFINE r1 == [OSFlagTbl[g] EXCEPT !.flags = flags]
             r2 == [r1 EXCEPT !.waitlist = @ \ W]
  <2>1. r1 \in OS_FLAG_GRP /\ r1.waitlist = OSFlagTbl[g].waitlist /\ r1.type = OSFlagTbl[g].type
    BY <1>3, <1>4 DEF OS_FLAG_GRP
  <2>2. OSFlagTbl' = [OSFlagTbl EXCEPT ![g] = r2]
    BY <1>1, <1>2
  <2> HIDE DEF r1
  <2>3. /\ r2 \in OS_FLAG_GRP /\ r2.waitlist = OSFlagTbl[g].waitlist \ W
        /\ r2.type = OSFlagTbl[g].type
    BY <2>1 DEF OS_FLAG_GRP
  <2> HIDE DEF r2
  <2> QED
    BY <1>2, <2>2, <2>3
<1>10. NodesOK(OSFlagTbl', node', tcb', pc')
  BY <1>1, <1>5, <1>7, <1>9, ReadyLinked
<1>11. UnusedGrps(OSFlagTbl') = UnusedGrps(OSFlagTbl)
  BY <1>9 DEF UnusedGrps
<1>12. NodesInv'
  BY <1>1, <1>10, <1>11 DEF NodesInv
<1> QED
  BY <1>8, <1>12

LEMMA OSFlagDelStep ==
  ASSUME KernelInv, NodesInv, NEW g \in FlagGrps, NEW always,
         OSFlagDel(g, always), ecb' = ecb, holds' = holds
  PROVE  KernelInv' /\ NodesInv'
<1> DEFINE W == OSFlagTbl[g].waitlist
           rdy == [t \in W |-> {}]
<1>1. /\ OSFlagTbl' = [OSFlagTbl EXCEPT ![g] = UnusedGrp] /\ OSFlagTbl[g].type = "FLAG"
      /\ OS_FlagTaskRdy(W, rdy) /\ OSFlagFreeList' = <<g>> \o OSFlagFreeList
      /\ OS_Sched \/ UNCHANGED schedVars
  BY DEF OSFlagDel, IsGroup
<1>2. /\ NodesOK(OSFlagTbl, node, tcb, pc) /\ OSFlagTbl \in [FlagGrps -> OS_FLAG_GRP]
      /\ OSFlagFreeList \in Seq(FlagGrps) /\ Lists(OSFlagFreeList, UnusedGrps(OSFlagTbl))
  BY DEF NodesInv, NodesOK
<1>3. W \in SUBSET OSFlagTbl[g].waitlist
  OBVIOUS
<1>4. W \in SUBSET Tasks /\ \A t \in W : InFlagPend(pc[t]) /\ Unans(tcb[t], pc[t])
  BY <1>3, LinkedTasks
<1>5. \A t \in W : rdy[t] \in SUBSET Flags
  OBVIOUS
<1> HIDE DEF rdy
<1>6. KernelInv'
  <2> HIDE DEF W
  <2> QED
    BY <1>1, <1>4, FlagsAnsweredKernel
<1>7. UnusedGrp \in OS_FLAG_GRP /\ UnusedGrp.waitlist = {} /\ UnusedGrp.type = "UNUSED"
  BY DEF UnusedGrp, OS_FLAG_GRP
<1>8. /\ OSFlagTbl' \in [FlagGrps -> OS_FLAG_GRP] /\ OSFlagTbl'[g] = UnusedGrp
      /\ \A h \in FlagGrps \ {g} : OSFlagTbl'[h] = OSFlagTbl[h]
  BY <1>1, <1>2, <1>7
<1>9. NodesOK(OSFlagTbl', node', tcb', pc')
  <2>1. OSFlagTbl'[g].waitlist = OSFlagTbl[g].waitlist \ W /\ OSFlagTbl'[g].waitlist = {}
    BY <1>7, <1>8
  <2> HIDE DEF W
  <2> QED
    BY <1>1, <1>3, <1>5, <1>8, <2>1, ReadyLinked
<1>10. UnusedGrps(OSFlagTbl') = UnusedGrps(OSFlagTbl) \cup {g} /\ g \notin UnusedGrps(OSFlagTbl)
  BY <1>1, <1>7, <1>8 DEF UnusedGrps
<1>11. OSFlagFreeList' \in Seq(FlagGrps) /\ Lists(OSFlagFreeList', UnusedGrps(OSFlagTbl'))
  <2>1. /\ <<g>> \o OSFlagFreeList \in Seq(FlagGrps)
        /\ Lists(<<g>> \o OSFlagFreeList, UnusedGrps(OSFlagTbl) \cup {g})
    BY <1>2, <1>10, ConsLists
  <2> QED
    BY <1>1, <1>10, <2>1
<1> QED
  BY <1>6, <1>9, <1>11 DEF NodesInv

LEMMA FlagsStep ==
  ASSUME KernelInv, NodesInv, FlagsNext, NotesKept, ecb' = ecb, holds' = holds
  PROVE  KernelInv' /\ NodesInv'
<1>1. ASSUME NEW flags \in SUBSET Flags, OSFlagCreate(flags)
      PROVE  KernelInv' /\ NodesInv'
  <2>1. UNCHANGED taskVars
    BY <1>1 DEF OSFlagCreate
  <2> QED
    BY <1>1, <2>1, TakeFlagsKernel, OSFlagCreateNodes
<1>2. ASSUME NEW g \in FlagGrps, NEW wanted \in SUBSET Flags, NEW type \in WaitTypes,
             NEW consume \in BOOLEAN, TakeFlags(g, wanted, type, consume)
      PROVE  KernelInv' /\ NodesInv'
  <2>1. UNCHANGED taskVars
    BY <1>2 DEF TakeFlags
  <2> QED
    BY <1>2, <2>1, TakeFlagsKernel, TakeFlagsNodes
<1>3. ASSUME NEW g \in FlagGrps, NEW wanted \in SUBSET Flags, NEW type \in WaitTypes,
             NEW consume \in BOOLEAN, NEW timeout \in 0..MaxDly,
             OSFlagPend(g, wanted, type, consume, timeout)
      PROVE  KernelInv' /\ NodesInv'
  <2>1. CASE TakeFlags(g, wanted, type, consume)
    BY <1>2, <2>1
  <2>2. CASE ~TakeFlags(g, wanted, type, consume)
    <3>1. /\ TaskCall("OSFlag") /\ IsGroup(g) /\ OSLockNesting = 0
          /\ OS_FlagBlock(g, wanted, type, consume, timeout) /\ OS_Sched
          /\ UNCHANGED <<OSLockNesting, OSTCBPrioTbl, OSEventTbl, ecb, holds>>
          /\ OSFlagFreeList' = OSFlagFreeList
      BY <1>3, <2>2 DEF OSFlagPend
    <3> QED
      BY <3>1, FlagBlockKernel, FlagBlockNodes
  <2> QED
    BY <2>1, <2>2
<1>4. CASE FlagPendReturns
  BY <1>4, FlagReturnsKernel, FlagReturnsNodes
<1>5. CASE \E flags \in SUBSET Flags : OSFlagCreate(flags)
  BY <1>1, <1>5
<1>6. CASE \E g \in FlagGrps, type \in WaitTypes, wanted \in (SUBSET Flags) \ {{}}, consume \in BOOLEAN :
             \/ OSFlagAccept(g, wanted, type, consume)
             \/ \E timeout \in 0..MaxDly : OSFlagPend(g, wanted, type, consume, timeout)
  BY <1>2, <1>3, <1>6 DEF OSFlagAccept
<1>7. CASE \E g \in FlagGrps, bits \in (SUBSET Flags) \ {{}}, set \in BOOLEAN : OSFlagPost(g, bits, set)
  BY <1>7, OSFlagPostStep
<1>8. CASE \E g \in FlagGrps, always \in BOOLEAN : OSFlagDel(g, always)
  BY <1>8, OSFlagDelStep
<1> QED
  BY <1>4, <1>5, <1>6, <1>7, <1>8 DEF FlagsNext

-----------------------------------------------------------------------------
(* The start *)

LEMMA KernelInitial ==
  ASSUME Init
  PROVE  KernelInv
<1>1. PICK app \in Applications :
        /\ OSRdy = {InitPrio[t] : t \in app.tasks} \cup {OS_TASK_IDLE_PRIO}
        /\ OSPrioCur = (CHOOSE p \in OSRdy : \A q \in OSRdy : p <= q)
        /\ OSTCBPrioTbl = [p \in AllPrios |->
             IF p = OS_TASK_IDLE_PRIO THEN IdleTask
             ELSE IF \E t \in app.tasks : InitPrio[t] = p
                  THEN CHOOSE t \in app.tasks : InitPrio[t] = p ELSE NULL]
        /\ OSTCBCur = OSTCBPrioTbl[OSPrioCur]
        /\ OSLockNesting = 0
        /\ tcb = [t \in Tasks |-> NewTCB(InitPrio[t])]
        /\ OSEventTbl = [e \in Events |-> {}]
        /\ pc = [t \in Tasks |-> IF t \in app.tasks THEN InTask ELSE Dormant]
  BY DEF Init, TasksInit
<1> DEFINE A == app.tasks
<1>2. A \subseteq Tasks
  BY TasksAssumption
<1> HIDE DEF A
<1>3. /\ OSRdy = {InitPrio[t] : t \in A} \cup {OS_TASK_IDLE_PRIO}
      /\ \A t \in Tasks : pc[t] = IF t \in A THEN InTask ELSE Dormant
      /\ DOMAIN pc = Tasks
      /\ OSTCBPrioTbl = [p \in AllPrios |->
             IF p = OS_TASK_IDLE_PRIO THEN IdleTask
             ELSE IF \E t \in A : InitPrio[t] = p THEN CHOOSE t \in A : InitPrio[t] = p ELSE NULL]
  BY <1>1 DEF A
<1>4. \A t \in Tasks : InitPrio[t] \in Prios
  BY TasksAssumption
<1>5. ASSUME NEW t \in Tasks
      PROVE  /\ tcb[t] \in OS_TCB /\ tcb[t].prio = InitPrio[t] /\ OutShape(tcb[t])
             /\ tcb[t].stat = {} /\ tcb[t].dly = 0
  <2>1. tcb[t] = NewTCB(InitPrio[t])
    BY <1>1
  <2> QED
    BY <1>4, <2>1, FirstTCB
<1>6. ASSUME NEW t \in Tasks
      PROVE  /\ pc[t].at \in {"task", "dormant"}
             /\ pc[t].at = "task" <=> t \in A
  BY <1>3 DEF InTask, Dormant
<1>7. ASSUME NEW t \in Tasks
      PROVE  /\ Shape(tcb[t], pc[t], ecb) /\ ~Unans(tcb[t], pc[t]) /\ \A e : ~Got(tcb[t], pc[t], e)
             /\ Runs(tcb[t], pc[t]) <=> t \in A
             /\ Live(pc[t]) <=> t \in A
  BY <1>5, <1>6 DEF Shape, Unans, Got, Runs, Live
<1>8. LiveSet(pc) = A /\ RunSet(tcb, pc) = A /\ \A e : WaitSet(tcb, pc, e) = {}
  BY <1>2, <1>7 DEF LiveSet, RunSet, WaitSet
<1>9. tcb \in [Tasks -> OS_TCB]
  <2>1. tcb = [t \in Tasks |-> tcb[t]]
    BY <1>1
  <2> QED
    BY <1>5, <2>1
<1>10. Uniq(tcb, pc)
  BY <1>2, <1>5, <1>8, TasksAssumption DEF Uniq
<1>11. PriosOf(tcb, A) = {InitPrio[t] : t \in A} /\ PriosOf(tcb, {}) = {}
  <2>1. \A t \in A : tcb[t].prio = InitPrio[t]
    BY <1>2, <1>5
  <2> QED
    BY <2>1 DEF PriosOf
<1>12. Data(OSRdy, OSEventTbl, tcb, pc, ecb)
  <2>1. \A t \in LiveSet(pc) : tcb[t].prio \in Prios
    BY <1>2, <1>4, <1>5, <1>8
  <2>2. OSRdy = PriosOf(tcb, RunSet(tcb, pc)) \cup {OS_TASK_IDLE_PRIO}
    BY <1>3, <1>8, <1>11
  <2>3. DOMAIN OSEventTbl = Events /\ \A e \in Events : OSEventTbl[e] = PriosOf(tcb, WaitSet(tcb, pc, e))
    BY <1>1, <1>8, <1>11
  <2> QED
    BY <1>3, <1>7, <1>9, <1>10, <2>1, <2>2, <2>3 DEF Data
<1>13. Mutexes(ecb) = {}
  BY DEF Init, EventsInit, UnusedECB, Mutexes
<1>14. OwnersOK(tcb, pc, ecb)
  BY <1>13 DEF OwnersOK
<1>15. HoldsOK(tcb, pc, ecb, holds)
  <2>1. holds = [t \in Tasks |-> {}]
    BY DEF Init, MutexInit
  <2> QED
    BY <1>13, <2>1 DEF HoldsOK
<1>16. ASSUME NEW p \in Prios, NEW t \in Tasks
       PROVE  OSTCBPrioTbl[p] = t <=> t \in A /\ InitPrio[t] = p
  <2>1. OSTCBPrioTbl[p] = IF \E u \in A : InitPrio[u] = p
                          THEN CHOOSE u \in A : InitPrio[u] = p ELSE NULL
    BY <1>3, Constants
  <2>2. \A u, v \in A : InitPrio[u] = InitPrio[v] => u = v
    BY <1>2, TasksAssumption
  <2>3. CASE \E u \in A : InitPrio[u] = p
    <3>1. OSTCBPrioTbl[p] \in A /\ InitPrio[OSTCBPrioTbl[p]] = p
      BY <2>1, <2>3
    <3> QED
      BY <2>2, <3>1
  <2>4. CASE ~\E u \in A : InitPrio[u] = p
    BY <2>1, <2>4, Constants
  <2> QED
    BY <2>3, <2>4
<1>17. /\ OSTCBPrioTbl[OS_TASK_IDLE_PRIO] = IdleTask /\ DOMAIN OSTCBPrioTbl = AllPrios
       /\ \A p \in Prios : OSTCBPrioTbl[p] \in Tasks \cup {NULL}
  <2>1. OSTCBPrioTbl[OS_TASK_IDLE_PRIO] = IdleTask /\ DOMAIN OSTCBPrioTbl = AllPrios
    BY <1>3, Constants
  <2>2. ASSUME NEW p \in Prios
        PROVE  OSTCBPrioTbl[p] \in A \cup {NULL}
    BY <1>3, Constants
  <2> QED
    BY <1>2, <2>1, <2>2
<1>18. TableOK(OSTCBPrioTbl, tcb, pc, ecb)
  <2>1. OSTCBPrioTbl = [p \in AllPrios |-> OSTCBPrioTbl[p]]
    BY <1>1
  <2>2. \A p \in AllPrios : p \in Prios \/ p = OS_TASK_IDLE_PRIO
    BY DEF AllPrios
  <2>3. OSTCBPrioTbl \in [AllPrios -> Tasks \cup {IdleTask, NULL, OS_TCB_RESERVED}]
    BY <1>17, <2>1, <2>2
  <2>4. \A p \in AllPrios : OSTCBPrioTbl[p] = IdleTask <=> p = OS_TASK_IDLE_PRIO
    BY <1>17, <2>2, Constants
  <2>5. \A p \in Prios, t \in Tasks : OSTCBPrioTbl[p] = t <=> t \in LiveSet(pc) /\ tcb[t].prio = p
    BY <1>5, <1>8, <1>16
  <2>6. \A p \in Prios : OSTCBPrioTbl[p] # OS_TCB_RESERVED
    BY <1>17, Constants
  <2> QED
    BY <1>13, <2>3, <2>4, <2>5, <2>6 DEF TableOK
<1>19. OSPrioCur \in OSRdy
  <2>1. OSRdy \in SUBSET Nat /\ OSRdy # {}
    <3>1. {InitPrio[t] : t \in A} \subseteq Nat
      BY <1>2, <1>4, IdleIsApart, Constants
    <3> QED
      BY <1>3, <3>1, IdleIsApart, Constants
  <2>2. OSPrioCur = Highest(OSRdy)
    BY <1>1 DEF Highest
  <2> QED
    BY <2>1, <2>2, HighestIsMember
<1>20. HasPrio(OSTCBCur, OSPrioCur, tcb, pc)
  <2>1. OSTCBCur = OSTCBPrioTbl[OSPrioCur]
    BY <1>1
  <2>2. CASE OSPrioCur = OS_TASK_IDLE_PRIO
    BY <1>17, <2>1, <2>2 DEF HasPrio
  <2>3. CASE OSPrioCur # OS_TASK_IDLE_PRIO
    <3>1. PICK t \in A : OSPrioCur = InitPrio[t]
      BY <1>3, <1>19, <2>3
    <3>2. OSPrioCur \in Prios /\ t \in Tasks
      BY <1>2, <1>4, <3>1
    <3>3. OSTCBCur = t
      BY <1>16, <2>1, <3>1, <3>2
    <3> QED
      BY <1>5, <1>8, <3>1, <3>2, <3>3 DEF HasPrio
  <2> QED
    BY <2>2, <2>3
<1>21. OSLockNesting \in {0, 1}
  BY <1>1
<1> QED
  BY <1>12, <1>14, <1>15, <1>18, <1>19, <1>20, <1>21 DEF KernelInv

LEMMA NodesInitial ==
  ASSUME Init
  PROVE  NodesInv
<1>1. /\ OSFlagTbl = [g \in FlagGrps |-> UnusedGrp] /\ node = [t \in Tasks |-> NULL]
      /\ OSFlagFreeList = CHOOSE s \in [1..Cardinality(FlagGrps) -> FlagGrps] :
                            \A g \in FlagGrps : \E i \in DOMAIN s : s[i] = g
  BY DEF Init, FlagsInit
<1>2. \A t \in Tasks : ~InFlagPend(pc[t])
  <2>1. PICK app : pc = [t \in Tasks |-> IF t \in app.tasks THEN InTask ELSE Dormant]
    BY DEF Init, TasksInit
  <2> QED
    BY <2>1 DEF InTask, Dormant, InFlagPend
<1>3. UnusedGrp \in OS_FLAG_GRP /\ UnusedGrp.waitlist = {} /\ UnusedGrp.type = "UNUSED"
  BY DEF UnusedGrp, OS_FLAG_GRP
<1>4. NodesOK(OSFlagTbl, node, tcb, pc)
  BY <1>1, <1>2, <1>3 DEF NodesOK, FlagWaits
<1>5. UnusedGrps(OSFlagTbl) = FlagGrps
  BY <1>1, <1>3 DEF UnusedGrps
<1>6. OSFlagFreeList \in Seq(FlagGrps) /\ Lists(OSFlagFreeList, FlagGrps)
  <2>1. IsFiniteSet(FlagGrps)
    BY FlagsAssumption
  <2> QED
    BY <1>1, <2>1, ChosenLists
<1> QED
  BY <1>4, <1>5, <1>6 DEF NodesInv

-----------------------------------------------------------------------------
(* The theorems *)

LEMMA ServicesStep ==
  ASSUME SwitchReturns = TRUE, Hazards = {}, KernelInv, PoolsInv, NodesInv, [Next]_vars
  PROVE  KernelInv' /\ NodesInv'
<1>1. ASSUME KernelInv', FlagPendsStay, UNCHANGED flagVars
      PROVE  KernelInv' /\ NodesInv'
  BY <1>1, NodesQuiet
<1>2. CASE TasksNext /\ NotesKept /\ UNCHANGED <<eventVars, holds, flagVars, memVars>>
  <2>1. ecb' = ecb /\ holds' = holds /\ UNCHANGED flagVars
    BY <1>2 DEF eventVars
  <2> QED
    BY <1>1, <1>2, <2>1, TasksKernel, TasksFlags
<1>3. CASE EventsNext /\ NotesKept /\ UNCHANGED <<holds, flagVars, memVars>>
  <2>1. holds' = holds /\ UNCHANGED flagVars
    BY <1>3
  <2> QED
    BY <1>1, <1>3, <2>1, EventsKernel, EventsFlags
<1>4. CASE MutexPendReturns /\ UNCHANGED <<flagVars, memVars>>
  <2>1. UNCHANGED flagVars /\ PendReturns
    BY <1>4 DEF MutexPendReturns
  <2> QED
    BY <1>1, <1>4, <2>1, PendReturnsKernel, PendReturnsFlags
<1>5. CASE MutexNext /\ UNCHANGED <<flagVars, memVars>>
  BY <1>1, <1>5, MutexKernel, MutexFlags
<1>6. CASE FlagsNext /\ NotesKept /\ UNCHANGED <<eventVars, holds, memVars>>
  <2>1. ecb' = ecb /\ holds' = holds
    BY <1>6 DEF eventVars
  <2> QED
    BY <1>6, <2>1, FlagsStep
<1>7. ASSUME UNCHANGED <<taskVars, eventVars, holds, flagVars>>
      PROVE  KernelInv' /\ NodesInv'
  <2>1. ecb' = ecb /\ holds' = holds /\ UNCHANGED taskVars /\ UNCHANGED flagVars
    BY <1>7 DEF eventVars
  <2>2. KernelInv'
    BY <2>1, TakeFlagsKernel
  <2>3. FlagPendsStay
    BY <2>1, SameFlagPends DEF taskVars
  <2> QED
    BY <1>1, <2>1, <2>2, <2>3
<1>8. CASE MemNext /\ UNCHANGED <<eventVars, holds, flagVars>>
  <2>1. UNCHANGED taskVars
    BY <1>8 DEF MemNext, OSMemCreate, OSMemGet, OSMemPut
  <2> QED
    BY <1>7, <1>8, <2>1
<1>9. CASE \E p \in Prios : DeleteTask(p)
  BY <1>9, DeleteTaskKernel, DeleteTaskNodes
<1>10. CASE \E t \in Tasks : CreateTask(t)
  BY <1>10, CreateTaskKernel, CreateTaskNodes
<1>11. CASE UNCHANGED vars
  <2>1. UNCHANGED <<taskVars, eventVars, holds, flagVars>>
    BY <1>11 DEF vars
  <2> QED
    BY <1>7, <2>1
<1> QED
  BY <1>2, <1>3, <1>4, <1>5, <1>6, <1>8, <1>9, <1>10, <1>11 DEF Next

-----------------------------------------------------------------------------
(* The theorems.  They are about the services as their sources are written, *)
(* with a context switch that returns to OS_Sched, and about applications   *)
(* that make none of the call sequences Hazards names.                      *)

LEMMA ServicesInvariant ==
  ASSUME SwitchReturns = TRUE, Hazards = {}
  PROVE  Spec => [](KernelInv /\ NodesInv)
<1>1. Init => KernelInv /\ NodesInv /\ PoolsInv
  BY KernelInitial, NodesInitial, PoolsInitial
<1>2. KernelInv /\ NodesInv /\ PoolsInv /\ [Next]_vars => KernelInv' /\ NodesInv' /\ PoolsInv'
  BY ServicesStep, PoolsStep
<1> QED
  BY <1>1, <1>2, PTL DEF Spec

\* Whatever the tasks create, delete, post, abort, wait for with or without a
\* timeout, suspend and give another priority, in any order and with ticks and
\* interrupt handlers in between: the bit of a priority is set in the wait list
\* of an event exactly if the task of that priority is inside a pend on it that
\* nothing has answered.
THEOREM WaitListsAreExact ==
  ASSUME SwitchReturns = TRUE, Hazards = {}
  PROVE  Spec => []WaitListExact
<1>1. KernelInv /\ NodesInv => WaitListExact
  BY KernelSafe
<1> QED
  BY <1>1, ServicesInvariant, PTL

\* No service, tick or interrupt handler loses the wakeup of a task or makes
\* one ready that waits, is delayed or suspended: OSRdyGrp and OSRdyTbl have
\* the priorities of the tasks that may run.
THEOREM NoWakeupIsLost ==
  ASSUME SwitchReturns = TRUE, Hazards = {}
  PROVE  Spec => []ReadyListExact
<1>1. KernelInv /\ NodesInv => ReadyListExact
  BY KernelSafe
<1> QED
  BY <1>1, ServicesInvariant, PTL

\* OSPrioCur stays that of OSTCBCur, over every raise, fall and change of its
\* priority and every deletion, and is in the ready list: the pends and
\* OS_Sched, which go by it, take the right task out.
THEOREM CurrentTaskIsReady ==
  ASSUME SwitchReturns = TRUE, Hazards = {}
  PROVE  Spec => []CurrentTaskReady
<1>1. KernelInv /\ NodesInv => CurrentTaskReady
  BY KernelSafe
<1> QED
  BY <1>1, ServicesInvariant, PTL

\* Never two owners of a mutex, and never one that does not know of it: what
\* OSMutexPend and OSMutexAccept returned, or will return to a task that a post
\* gave the mutex and that has not run since, agrees with OSEventPtr.  That no
\* sequence of Hazards happens excludes in particular that a mutex is created
\* where one was deleted while tasks of the old one are inside their pends
\* (RecreateMutex): there the code has two owners.
THEOREM MutexesExclude ==
  ASSUME SwitchReturns = TRUE, Hazards = {}
  PROVE  Spec => []MutualExclusion
<1>1. KernelInv /\ NodesInv => MutualExclusion
  BY KernelSafe
<1> QED
  BY <1>1, ServicesInvariant, PTL

\* OSTCBPrioTbl keeps every task under its own priority while it is raised to
\* the ceiling of a mutex as well, and the ceilings reserved.
THEOREM PriorityTableIsExact ==
  ASSUME SwitchReturns = TRUE, Hazards = {}
  PROVE  Spec => []PriorityTableExact
<1>1. KernelInv /\ NodesInv => PriorityTableExact
  BY KernelSafe
<1> QED
  BY <1>1, ServicesInvariant, PTL

\* OSFlagPost and OSFlagDel never reach a node of a pend that has returned, and
\* never miss one of a task that waits: the nodes lie on the stacks of exactly
\* the tasks inside OSFlagPend that nothing has answered.
THEOREM FlagNodesAreExact ==
  ASSUME SwitchReturns = TRUE, Hazards = {}
  PROVE  Spec => []FlagNodesExact
<1>1. KernelInv /\ NodesInv => FlagNodesExact
  BY NodesSafe
<1> QED
  BY <1>1, ServicesInvariant, PTL

=============================================================================
