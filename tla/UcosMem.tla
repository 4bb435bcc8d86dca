------------------------------- MODULE UcosMem -------------------------------
(***************************************************************************)
(* The memory partitions of uC/OS-II (os_mem.c): blocks of one size whose  *)
(* first word, while a block is free, links it to the next free one.       *)
(***************************************************************************)
EXTENDS UcosTasks

CONSTANTS
  MemParts,  \* the memory control blocks, OSMemTbl of the code
  NBlks      \* blocks of the storage given to OSMemCreate

VARIABLES
  OSMemTbl,       \* OSMemFreeList, OSMemNBlks and OSMemNFree of each
  OSMemFreeList,  \* the control blocks that are free
  link,           \* the first word of each block
  taken           \* history: the blocks the application has

memVars == <<OSMemTbl, OSMemFreeList, link, taken>>

ASSUME MemAssumption == IsFiniteSet(MemParts) /\ NBlks \in Nat \ {0}

\* Every partition has storage of its own.
Blocks == MemParts \X (1..NBlks)
BlocksOf(m) == {m} \X (1..NBlks)
Addresses == Blocks \cup {<<>>}
NoBlock == <<>>

\* What a block holds in its first word once the application has written it.
Payload == <<"payload">>

OS_MEM == [free : Addresses, nblks : 0..NBlks, nfree : 0..NBlks]

\* OS_MemInit.
MemInit ==
  /\ OSMemTbl = [m \in MemParts |-> [free |-> NoBlock, nblks |-> 0, nfree |-> 0]]
  /\ OSMemFreeList = CHOOSE s \in [1..Cardinality(MemParts) -> MemParts] :
                       \A m \in MemParts : \E i \in DOMAIN s : s[i] = m
  /\ link = [b \in Blocks |-> NoBlock]
  /\ taken = {}

\* The blocks are chained in the order of their addresses.
OSMemCreate ==
  LET m == Head(OSMemFreeList)
  IN  /\ TaskCall("OSMem")
      /\ OSMemFreeList # <<>>
      /\ OSMemFreeList' = Tail(OSMemFreeList)
      /\ link' = [b \in Blocks |->
           IF b \notin BlocksOf(m) THEN link[b]
           ELSE IF b[2] < NBlks THEN <<m, b[2] + 1>> ELSE NoBlock]
      /\ OSMemTbl' = [OSMemTbl EXCEPT ![m] = [free |-> <<m, 1>>, nblks |-> NBlks, nfree |-> NBlks]]
      /\ UNCHANGED <<taskVars, taken>>

\* Fault: the free list is not advanced past the block handed out.
FaultOSMemGet(m) ==
  /\ AnyCall("OSMem")
  /\ OSMemTbl[m].nfree > 0
  /\ OSMemTbl' = [OSMemTbl EXCEPT ![m].nfree = @ - 1]
  /\ link' = [link EXCEPT ![OSMemTbl[m].free] = Payload]
  /\ taken' = taken \cup {OSMemTbl[m].free}
  /\ UNCHANGED <<taskVars, OSMemFreeList>>

OSMemGet(m) ==
  LET b == OSMemTbl[m].free
  IN  /\ AnyCall("OSMem")
      /\ OSMemTbl[m].nfree > 0
      /\ OSMemTbl' = [OSMemTbl EXCEPT ![m].free = link[b], ![m].nfree = @ - 1]
      /\ link' = [link EXCEPT ![b] = Payload]
      /\ taken' = taken \cup {b}
      /\ UNCHANGED <<taskVars, OSMemFreeList>>

\* A block goes back to the partition it came from.
OSMemPut(m, b) ==
  /\ AnyCall("OSMem")
  /\ b \in taken
  /\ OSMemTbl[m].nfree < OSMemTbl[m].nblks
  /\ link' = [link EXCEPT ![b] = OSMemTbl[m].free]
  /\ OSMemTbl' = [OSMemTbl EXCEPT ![m].free = b, ![m].nfree = @ + 1]
  /\ taken' = taken \ {b}
  /\ UNCHANGED <<taskVars, OSMemFreeList>>

MemNext ==
  \/ OSMemCreate
  \/ \E m \in MemParts : OSMemGet(m) \/ \E b \in BlocksOf(m) : OSMemPut(m, b)

-----------------------------------------------------------------------------
(* Properties *)

MemTypeOK ==
  /\ OSMemTbl \in [MemParts -> OS_MEM]
  /\ \A i \in DOMAIN OSMemFreeList : OSMemFreeList[i] \in MemParts
  /\ link \in [Blocks -> Addresses \cup {Payload}]
  /\ taken \subseteq Blocks

\* The blocks from OSMemFreeList on, as far as OSMemNFree tells.
Chain(m) ==
  LET chain[i \in 1..NBlks] == IF i = 1 THEN OSMemTbl[m].free ELSE link[chain[i - 1]]
  IN  {chain[i] : i \in 1..OSMemTbl[m].nfree}

\* No block is lost and none handed out twice: the links of the free blocks
\* lead to exactly those the application does not have, OSMemNFree of them,
\* through no word that the application has written.
BlocksConserved ==
  \A m \in MemParts : OSMemTbl[m].nblks > 0 =>
    /\ Chain(m) = BlocksOf(m) \ taken
    /\ OSMemTbl[m].nfree = Cardinality(BlocksOf(m) \ taken)
=============================================================================
