-------------------------- MODULE PrioBitmapProofs --------------------------
(***************************************************************************)
(* The two-level bitmap implements a set of priorities: adding, removing   *)
(* and the table-driven search for the highest priority do to Members(m)   *)
(* what their names say, and keep the group byte in step with the rows.    *)
(***************************************************************************)
EXTENDS PrioBitmap, TLAPS

\* Row and bit of a priority determine it.
LEMMA RowAndBit ==
  ASSUME NEW p \in Prios64
  PROVE  /\ PrioY(p) \in Bits
         /\ PrioX(p) \in Bits
         /\ p = 8 * PrioY(p) + PrioX(p)
BY DEF Prios64, PrioY, PrioX, Bits

\* A row and a bit make a priority.
LEMMA PrioOfRowAndBit ==
  ASSUME NEW y \in Bits, NEW x \in Bits
  PROVE  /\ 8 * y + x \in Prios64
         /\ PrioY(8 * y + x) = y
         /\ PrioX(8 * y + x) = x
BY DEF Prios64, PrioY, PrioX, Bits
-----------------------------------------------------------------------------

\* A byte that is not 0 has a least significant 1, and OSUnMapTbl finds it.
LEMMA OSUnMapIsLeast ==
  ASSUME NEW byte \in SUBSET Bits, byte # {}
  PROVE  OSUnMap(byte) \in byte /\ \A c \in byte : OSUnMap(byte) <= c
<1> DEFINE Least(b) == b \in byte /\ \A c \in byte : b <= c
<1>1. \E b \in Bits : Least(b)
  <2>0. PICK c0 \in byte : TRUE
    OBVIOUS
  <2>1. CASE 0 \in byte
    BY <2>1 DEF Bits
  <2>2. CASE 0 \notin byte /\ 1 \in byte
    BY <2>2 DEF Bits
  <2>3. CASE 0 \notin byte /\ 1 \notin byte /\ 2 \in byte
    BY <2>3 DEF Bits
  <2>4. CASE (\A c \in 0..2 : c \notin byte) /\ 3 \in byte
    BY <2>4 DEF Bits
  <2>5. CASE (\A c \in 0..3 : c \notin byte) /\ 4 \in byte
    BY <2>5 DEF Bits
  <2>6. CASE (\A c \in 0..4 : c \notin byte) /\ 5 \in byte
    BY <2>6 DEF Bits
  <2>7. CASE (\A c \in 0..5 : c \notin byte) /\ 6 \in byte
    BY <2>7 DEF Bits
  <2>8. CASE \A c \in 0..6 : c \notin byte
    BY <2>0, <2>8 DEF Bits
  <2> QED
    BY <2>1, <2>2, <2>3, <2>4, <2>5, <2>6, <2>7, <2>8
<1>2. \E b \in byte : \A c \in byte : b <= c
  BY <1>1
<1> QED
  BY <1>2 DEF OSUnMap

-----------------------------------------------------------------------------

LEMMA EmptyIsBitmap == IsBitmap(EmptyBitmap) /\ Members(EmptyBitmap) = {}
BY RowAndBit DEF IsBitmap, EmptyBitmap, Bitmaps, GrpSummarisesTbl, Members,
   Contains

LEMMA AddIsInsertion ==
  ASSUME NEW m, IsBitmap(m), NEW p \in Prios64
  PROVE  IsBitmap(Add(m, p)) /\ Members(Add(m, p)) = Members(m) \cup {p}
<1>1. PrioY(p) \in Bits /\ PrioX(p) \in Bits
  BY RowAndBit
<1>2. Add(m, p) \in Bitmaps
  BY <1>1 DEF Add, IsBitmap, Bitmaps
<1>3. GrpSummarisesTbl(Add(m, p))
  BY <1>1 DEF Add, IsBitmap, Bitmaps, GrpSummarisesTbl
<1>4. ASSUME NEW q \in Prios64
      PROVE  Contains(Add(m, p), q) <=> Contains(m, q) \/ q = p
  <2>1. (PrioY(q) = PrioY(p) /\ PrioX(q) = PrioX(p)) <=> q = p
    BY RowAndBit DEF Prios64, Bits
  <2>2. PrioY(q) \in Bits
    BY RowAndBit
  <2> QED
    BY <1>1, <2>1, <2>2 DEF Add, IsBitmap, Bitmaps, Contains
<1> QED
  BY <1>2, <1>3, <1>4 DEF IsBitmap, Members

LEMMA AddAllIsUnion ==
  ASSUME NEW m, IsBitmap(m), NEW S \in SUBSET Prios64
  PROVE  IsBitmap(AddAll(m, S)) /\ Members(AddAll(m, S)) = Members(m) \cup S
<1>1. \A p \in S : PrioY(p) \in Bits /\ PrioX(p) \in Bits
  BY RowAndBit
<1>2. AddAll(m, S) \in Bitmaps
  BY <1>1 DEF AddAll, IsBitmap, Bitmaps
<1>3. GrpSummarisesTbl(AddAll(m, S))
  <2> SUFFICES ASSUME NEW y \in Bits
               PROVE  y \in AddAll(m, S).grp <=> AddAll(m, S).tbl[y] # {}
    BY DEF GrpSummarisesTbl
  <2>1. y \in m.grp <=> m.tbl[y] # {}
    BY DEF IsBitmap, GrpSummarisesTbl
  <2>2. AddAll(m, S).grp = m.grp \cup {PrioY(p) : p \in S}
    BY DEF AddAll
  <2>3. AddAll(m, S).tbl[y]
          = m.tbl[y] \cup {PrioX(p) : p \in {q \in S : PrioY(q) = y}}
    BY DEF AddAll
  <2>4. y \in {PrioY(p) : p \in S}
          <=> {PrioX(p) : p \in {q \in S : PrioY(q) = y}} # {}
    OBVIOUS
  <2> QED
    BY <2>1, <2>2, <2>3, <2>4
<1>4. ASSUME NEW q \in Prios64
      PROVE  Contains(AddAll(m, S), q) <=> Contains(m, q) \/ q \in S
  <2>1. \A p \in S : (PrioY(q) = PrioY(p) /\ PrioX(q) = PrioX(p)) <=> q = p
    BY RowAndBit DEF Prios64, Bits
  <2>2. PrioY(q) \in Bits
    BY RowAndBit
  <2>3. AddAll(m, S).tbl[PrioY(q)]
          = m.tbl[PrioY(q)] \cup {PrioX(p) : p \in {r \in S : PrioY(r) = PrioY(q)}}
    BY <2>2 DEF AddAll
  <2> QED
    BY <2>1, <2>3 DEF Contains
<1> QED
  BY <1>2, <1>3, <1>4 DEF IsBitmap, Members

LEMMA RemoveIsDeletion ==
  ASSUME NEW m, IsBitmap(m), NEW p \in Prios64
  PROVE  IsBitmap(Remove(m, p)) /\ Members(Remove(m, p)) = Members(m) \ {p}
<1>1. PrioY(p) \in Bits /\ PrioX(p) \in Bits
  BY RowAndBit
<1>2. Remove(m, p) \in Bitmaps
  BY <1>1 DEF Remove, IsBitmap, Bitmaps
<1>3. GrpSummarisesTbl(Remove(m, p))
  BY <1>1 DEF Remove, IsBitmap, Bitmaps, GrpSummarisesTbl
<1>4. ASSUME NEW q \in Prios64
      PROVE  Contains(Remove(m, p), q) <=> Contains(m, q) /\ q # p
  <2>1. (PrioY(q) = PrioY(p) /\ PrioX(q) = PrioX(p)) <=> q = p
    BY RowAndBit DEF Prios64, Bits
  <2>2. PrioY(q) \in Bits
    BY RowAndBit
  <2> QED
    BY <1>1, <2>1, <2>2 DEF Remove, IsBitmap, Bitmaps, Contains
<1> QED
  BY <1>2, <1>3, <1>4 DEF IsBitmap, Members

\* OS_SchedNew: two table lookups find the highest priority of a bitmap, the
\* numerically smallest of its members, whatever bitmap it is.
THEOREM HighestIsMinimum ==
  ASSUME NEW m, IsBitmap(m), Members(m) # {}
  PROVE  Highest(m) \in Members(m) /\ \A p \in Members(m) : Highest(m) <= p
<1> DEFINE y == OSUnMap(m.grp)
           x == OSUnMap(m.tbl[y])
<1>1. \A p \in Members(m) : PrioY(p) \in m.grp /\ PrioX(p) \in m.tbl[PrioY(p)]
  BY RowAndBit DEF IsBitmap, GrpSummarisesTbl, Members, Contains
<1>2. m.grp \in SUBSET Bits /\ m.grp # {}
  BY <1>1 DEF IsBitmap, Bitmaps
<1>3. y \in m.grp /\ \A c \in m.grp : y <= c
  BY <1>2, OSUnMapIsLeast
<1>4. m.tbl[y] \in SUBSET Bits /\ m.tbl[y] # {}
  BY <1>2, <1>3 DEF IsBitmap, Bitmaps, GrpSummarisesTbl
<1>5. x \in m.tbl[y] /\ \A c \in m.tbl[y] : x <= c
  BY <1>4, OSUnMapIsLeast
<1>6. y \in Bits /\ x \in Bits /\ Highest(m) = 8 * y + x
  BY <1>2, <1>3, <1>4, <1>5 DEF Highest
<1> HIDE DEF y, x
<1>7. Highest(m) \in Members(m)
  BY <1>5, <1>6, PrioOfRowAndBit DEF Members, Contains
<1>8. ASSUME NEW p \in Members(m)
      PROVE  Highest(m) <= p
  <2>1. p \in Prios64 /\ PrioY(p) \in Bits /\ PrioX(p) \in Bits
        /\ p = 8 * PrioY(p) + PrioX(p)
    BY RowAndBit DEF Members
  <2>2. y <= PrioY(p) /\ PrioX(p) \in m.tbl[PrioY(p)]
    BY <1>1, <1>3
  <2>3. CASE y = PrioY(p)
    <3>1. x <= PrioX(p)
      BY <1>5, <2>2, <2>3
    <3> DEFINE px == PrioX(p)
    <3>2. px \in Bits /\ x <= px /\ p = 8 * y + px
      BY <2>1, <2>3, <3>1
    <3> HIDE DEF px
    <3> QED
      BY <1>6, <3>2 DEF Bits
  <2>4. CASE y # PrioY(p)
    BY <1>6, <2>1, <2>2, <2>4 DEF Bits
  <2> QED
    BY <2>3, <2>4
<1> QED
  BY <1>7, <1>8
=============================================================================
