----------------------- MODULE KernelArithmeticProofs -----------------------
(***************************************************************************)
(* That the table behind OS_SchedNew is the least-bit function, and that   *)
(* OSTimeDlyHMSM rounds to the nearest tick without overflow, for every    *)
(* byte and for all arguments in the range of their types.                 *)
(***************************************************************************)
EXTENDS KernelArithmetic, TLAPS

-----------------------------------------------------------------------------
(* The table *)

LEMMA Powers ==
  /\ 2^0 = 1 /\ 2^1 = 2 /\ 2^2 = 4 /\ 2^3 = 8
  /\ 2^4 = 16 /\ 2^5 = 32 /\ 2^6 = 64 /\ 2^7 = 128
OBVIOUS

\* The bits of a byte one by one.
LEMMA BitsSpelled ==
  ASSUME NEW byte \in 0..255
  PROVE  /\ BitsOf(byte) \subseteq 0..7
         /\ 0 \in BitsOf(byte) <=> (byte \div 1) % 2 = 1
         /\ 1 \in BitsOf(byte) <=> (byte \div 2) % 2 = 1
         /\ 2 \in BitsOf(byte) <=> (byte \div 4) % 2 = 1
         /\ 3 \in BitsOf(byte) <=> (byte \div 8) % 2 = 1
         /\ 4 \in BitsOf(byte) <=> (byte \div 16) % 2 = 1
         /\ 5 \in BitsOf(byte) <=> (byte \div 32) % 2 = 1
         /\ 6 \in BitsOf(byte) <=> (byte \div 64) % 2 = 1
         /\ 7 \in BitsOf(byte) <=> (byte \div 128) % 2 = 1
<1>1. \A b \in Bits : b \in BitsOf(byte) <=> (byte \div 2^b) % 2 = 1
  BY Zenon DEF BitsOf
<1>2. BitsOf(byte) \subseteq 0..7
  BY Zenon DEF BitsOf, Bits
<1>3. 0 \in Bits /\ 1 \in Bits /\ 2 \in Bits /\ 3 \in Bits
      /\ 4 \in Bits /\ 5 \in Bits /\ 6 \in Bits /\ 7 \in Bits
  BY DEF Bits
<1>4. 0 \in BitsOf(byte) <=> (byte \div 2^0) % 2 = 1
  BY <1>1, <1>3, Zenon
<1>5. 1 \in BitsOf(byte) <=> (byte \div 2^1) % 2 = 1
  BY <1>1, <1>3, Zenon
<1>6. 2 \in BitsOf(byte) <=> (byte \div 2^2) % 2 = 1
  BY <1>1, <1>3, Zenon
<1>7. 3 \in BitsOf(byte) <=> (byte \div 2^3) % 2 = 1
  BY <1>1, <1>3, Zenon
<1>8. 4 \in BitsOf(byte) <=> (byte \div 2^4) % 2 = 1
  BY <1>1, <1>3, Zenon
<1>9. 5 \in BitsOf(byte) <=> (byte \div 2^5) % 2 = 1
  BY <1>1, <1>3, Zenon
<1>10. 6 \in BitsOf(byte) <=> (byte \div 2^6) % 2 = 1
  BY <1>1, <1>3, Zenon
<1>11. 7 \in BitsOf(byte) <=> (byte \div 2^7) % 2 = 1
  BY <1>1, <1>3, Zenon
<1> QED
  BY <1>2, <1>4, <1>5, <1>6, <1>7, <1>8, <1>9, <1>10, <1>11, Powers

LEMMA LeastBit ==
  ASSUME NEW S \in SUBSET (0..7), NEW b \in S, \A c \in S : b <= c
  PROVE  OSUnMap(S) = b
<1>1. \A c \in S : (\A d \in S : c <= d) => c = b
  OBVIOUS
<1> QED
  BY <1>1 DEF OSUnMap

\* By the last bits of a byte.
LEMMA LeastOfByte ==
  ASSUME NEW byte \in 0..255
  PROVE  /\ byte = 0 => OSUnMap(BitsOf(byte)) = 0
         /\ byte % 2 = 1 => OSUnMap(BitsOf(byte)) = 0
         /\ byte % 4 = 2 => OSUnMap(BitsOf(byte)) = 1
         /\ byte % 8 = 4 => OSUnMap(BitsOf(byte)) = 2
         /\ byte % 16 = 8 => OSUnMap(BitsOf(byte)) = 3
         /\ byte % 32 = 16 => OSUnMap(BitsOf(byte)) = 4
         /\ byte % 64 = 32 => OSUnMap(BitsOf(byte)) = 5
         /\ byte % 128 = 64 => OSUnMap(BitsOf(byte)) = 6
         /\ byte % 256 = 128 => OSUnMap(BitsOf(byte)) = 7
<1> DEFINE S == BitsOf(byte)
<1>1. /\ S \subseteq 0..7
      /\ 0 \in S <=> (byte \div 1) % 2 = 1
      /\ 1 \in S <=> (byte \div 2) % 2 = 1
      /\ 2 \in S <=> (byte \div 4) % 2 = 1
      /\ 3 \in S <=> (byte \div 8) % 2 = 1
      /\ 4 \in S <=> (byte \div 16) % 2 = 1
      /\ 5 \in S <=> (byte \div 32) % 2 = 1
      /\ 6 \in S <=> (byte \div 64) % 2 = 1
      /\ 7 \in S <=> (byte \div 128) % 2 = 1
  BY BitsSpelled
<1> HIDE DEF S
<1>2. CASE byte = 0
  <2>1. S = {}
    BY <1>1, <1>2
  <2> QED
    BY <1>2, <2>1 DEF OSUnMap, S
<1>3. CASE byte % 2 = 1
  <2>1. 0 \in S
    BY <1>1, <1>3
  <2>2. OSUnMap(S) = 0
    BY <1>1, <2>1, LeastBit
  <2> QED
    BY <1>3, <2>2 DEF S
<1>4. CASE byte % 4 = 2
  <2>1. 1 \in S /\ 0 \notin S
    BY <1>1, <1>4
  <2>2. OSUnMap(S) = 1
    BY <1>1, <2>1, LeastBit
  <2> QED
    BY <1>4, <2>2 DEF S
<1>5. CASE byte % 8 = 4
  <2>1. 2 \in S /\ 0 \notin S /\ 1 \notin S
    BY <1>1, <1>5
  <2>2. OSUnMap(S) = 2
    BY <1>1, <2>1, LeastBit
  <2> QED
    BY <1>5, <2>2 DEF S
<1>6. CASE byte % 16 = 8
  <2>1. 3 \in S /\ 0 \notin S /\ 1 \notin S /\ 2 \notin S
    BY <1>1, <1>6
  <2>2. OSUnMap(S) = 3
    BY <1>1, <2>1, LeastBit
  <2> QED
    BY <1>6, <2>2 DEF S
<1>7. CASE byte % 32 = 16
  <2>1. 4 \in S /\ 0 \notin S /\ 1 \notin S /\ 2 \notin S /\ 3 \notin S
    BY <1>1, <1>7
  <2>2. OSUnMap(S) = 4
    BY <1>1, <2>1, LeastBit
  <2> QED
    BY <1>7, <2>2 DEF S
<1>8. CASE byte % 64 = 32
  <2>1. 5 \in S /\ 0 \notin S /\ 1 \notin S /\ 2 \notin S /\ 3 \notin S /\ 4 \notin S
    BY <1>1, <1>8
  <2>2. OSUnMap(S) = 5
    BY <1>1, <2>1, LeastBit
  <2> QED
    BY <1>8, <2>2 DEF S
<1>9. CASE byte % 128 = 64
  <2>1. 6 \in S /\ 0 \notin S /\ 1 \notin S /\ 2 \notin S /\ 3 \notin S /\ 4 \notin S /\ 5 \notin S
    BY <1>1, <1>9
  <2>2. OSUnMap(S) = 6
    BY <1>1, <2>1, LeastBit
  <2> QED
    BY <1>9, <2>2 DEF S
<1>10. CASE byte % 256 = 128
  <2>1. 7 \in S /\ 0 \notin S /\ 1 \notin S /\ 2 \notin S /\ 3 \notin S /\ 4 \notin S /\ 5 \notin S /\ 6 \notin S
    BY <1>1, <1>10
  <2>2. OSUnMap(S) = 7
    BY <1>1, <2>1, LeastBit
  <2> QED
    BY <1>10, <2>2 DEF S
<1> QED
  BY <1>2, <1>3, <1>4, <1>5, <1>6, <1>7, <1>8, <1>9, <1>10

\* A row has 0 to 3 for its entries but the first, a row's first entry the
\* least bit of the four high ones.
LEMMA TableEntry ==
  ASSUME NEW byte \in 0..255
  PROVE  OSUnMapTbl[byte] = OSUnMap(BitsOf(byte))
<1> DEFINE hi == byte \div 16
           lo == byte % 16
<1>1. hi \in 0..15 /\ lo \in 0..15 /\ byte = 16 * hi + lo
  OBVIOUS
<1>2. OSUnMapTbl[byte] = UnMapRow(UnMapFirsts[hi + 1])[lo + 1]
  BY DEF OSUnMapTbl
<1> HIDE DEF hi, lo
<1>3. CASE lo # 0
  <2>1. /\ lo % 2 = 1 => UnMapRow(UnMapFirsts[hi + 1])[lo + 1] = 0
        /\ lo % 4 = 2 => UnMapRow(UnMapFirsts[hi + 1])[lo + 1] = 1
        /\ lo % 8 = 4 => UnMapRow(UnMapFirsts[hi + 1])[lo + 1] = 2
        /\ lo = 8 => UnMapRow(UnMapFirsts[hi + 1])[lo + 1] = 3
    BY <1>1, <1>3 DEF UnMapRow
  <2>2. /\ lo % 2 = 1 => byte % 2 = 1
        /\ lo % 4 = 2 => byte % 4 = 2
        /\ lo % 8 = 4 => byte % 8 = 4
        /\ lo = 8 => byte % 16 = 8
    BY <1>1
  <2>3. lo % 2 = 1 \/ lo % 4 = 2 \/ lo % 8 = 4 \/ lo = 8
    BY <1>1, <1>3
  <2> QED
    BY <1>2, <2>1, <2>2, <2>3, LeastOfByte
<1>4. CASE lo = 0
  <2>1. UnMapRow(UnMapFirsts[hi + 1])[lo + 1] = UnMapFirsts[hi + 1]
    BY <1>4 DEF UnMapRow
  <2>2. /\ hi = 0 => UnMapFirsts[hi + 1] = 0
        /\ hi % 2 = 1 => UnMapFirsts[hi + 1] = 4
        /\ hi % 4 = 2 => UnMapFirsts[hi + 1] = 5
        /\ hi % 8 = 4 => UnMapFirsts[hi + 1] = 6
        /\ hi = 8 => UnMapFirsts[hi + 1] = 7
    BY <1>1 DEF UnMapFirsts
  <2>3. /\ hi = 0 => byte = 0
        /\ hi % 2 = 1 => byte % 32 = 16
        /\ hi % 4 = 2 => byte % 64 = 32
        /\ hi % 8 = 4 => byte % 128 = 64
        /\ hi = 8 => byte % 256 = 128
    BY <1>1, <1>4
  <2>4. hi = 0 \/ hi % 2 = 1 \/ hi % 4 = 2 \/ hi % 8 = 4 \/ hi = 8
    BY <1>1
  <2> QED
    BY <1>2, <2>1, <2>2, <2>3, <2>4, LeastOfByte
<1> QED
  BY <1>1, <1>3, <1>4

\* OSUnMapTbl, the 256 entries typed by hand, is the least-bit function that
\* OS_SchedNew and the event services take it for, whatever byte is looked up.
THEOREM TableIsRight == Spec => []TableFindsLeastBit
<1>1. Init => TableFindsLeastBit
  BY DEF Init, TableFindsLeastBit
<1>2. TableFindsLeastBit /\ [Next]_last => TableFindsLeastBit'
  <2> SUFFICES ASSUME TableFindsLeastBit, [Next]_last
               PROVE  TableFindsLeastBit'
    OBVIOUS
  <2>1. ASSUME NEW byte \in 0..255, Lookup(byte)
        PROVE  TableFindsLeastBit'
    BY <2>1, TableEntry DEF Lookup, TableFindsLeastBit
  <2>2. ASSUME NEW h, NEW m, NEW s, NEW ms, OSTimeDlyHMSM(h, m, s, ms)
        PROVE  TableFindsLeastBit'
    BY <2>2 DEF OSTimeDlyHMSM, TableFindsLeastBit
  <2>3. CASE UNCHANGED last
    BY <2>3 DEF TableFindsLeastBit
  <2> QED
    BY <2>1, <2>2, <2>3 DEF Next
<1> QED
  BY <1>1, <1>2, PTL DEF Spec

-----------------------------------------------------------------------------
(* Ticks *)

\* What whole divisions say, for products that are not constant.
LEMMA Quotient ==
  ASSUME NEW a \in Nat, NEW n \in Nat \ {0}
  PROVE  a \div n \in Nat /\ (a \div n) * n <= a /\ a < (a \div n + 1) * n
OBVIOUS

LEMMA Cancels ==
  ASSUME NEW a \in Int, NEW b \in Int, NEW n \in Nat \ {0}
  PROVE  /\ a * n <= b * n => a <= b
         /\ a * n < b * n => a < b
OBVIOUS

LEMMA Arguments ==
  /\ OS_TICKS_PER_SEC \in Nat \ {0} /\ OS_TICKS_PER_SEC <= 1000
  /\ \A i \in INT8U : i \in Nat /\ i <= 255
  /\ \A i \in INT16U : i \in Nat /\ i <= 65535
<1>1. OS_TICKS_PER_SEC \in 1..1000
  BY ArgumentsAssumption, SMT
<1>3. \A i \in INT8U : i \in Nat /\ i <= 255
  BY SMT DEF INT8U
<1>4. \A i \in INT16U : i \in Nat /\ i <= 65535
  BY SMT DEF INT16U
<1> QED
  BY <1>1, <1>3, <1>4, SMT

LEMMA ProductBounded ==
  ASSUME NEW a \in Nat, NEW x \in Nat, a <= x, NEW b \in Nat, NEW y \in Nat, b <= y
  PROVE  a * b \in Nat /\ a * b <= x * y
<1>1. a * b <= x * b
  OBVIOUS
<1>2. x * b <= x * y
  OBVIOUS
<1>3. a * b \in Nat /\ x * b \in Nat /\ x * y \in Nat
  OBVIOUS
<1> QED
  BY <1>1, <1>2, <1>3

\* The rounding of one sum of ms: half a tick is added, and what is cut off is
\* less than a tick.
LEMMA RoundsToNearest ==
  ASSUME NEW q \in Nat \ {0}, NEW d \in Nat \ {0}, q * d = 1000, NEW ms \in Nat
  PROVE  LET r == (q * (ms + 500 \div q)) \div 1000
         IN  r \in Nat /\ 2 * (r * d - ms) \in (0 - d)..d
<1> DEFINE h == 500 \div q
           y == ms + h
           r == (q * y) \div 1000
<1>1. h \in Nat /\ h * q <= 500 /\ 500 < (h + 1) * q
  BY Quotient
<1>2. y \in Nat /\ y = ms + h
  BY <1>1
<1>3. q * y \in Nat
  BY <1>2
<1>4. r \in Nat /\ r * 1000 <= q * y /\ q * y < (r + 1) * 1000
  BY <1>3, Quotient
<1> HIDE DEF h, y, r
<1>5. 2 * h <= d /\ d < 2 * (h + 1)
  <2>1. (2 * h) * q <= d * q /\ d * q < (2 * (h + 1)) * q
    BY <1>1
  <2> QED
    BY <1>1, <2>1, Cancels
<1>6. r * d <= y /\ y < (r + 1) * d
  <2>1. (r * d) * q <= y * q /\ y * q < ((r + 1) * d) * q
    <3>1. (r * d) * q = r * (q * d) /\ ((r + 1) * d) * q = (r + 1) * (q * d) /\ y * q = q * y
      BY <1>2, <1>4
    <3> QED
      BY <1>4, <3>1
  <2> QED
    BY <1>2, <1>4, <2>1, Cancels
<1>7. (r + 1) * d = r * d + d /\ r * d \in Nat
  BY <1>4
<1>8. 2 * (r * d - ms) \in (0 - d)..d
  BY <1>1, <1>2, <1>5, <1>6, <1>7
<1> QED
  BY <1>4, <1>8 DEF h, y, r

\* Whatever is passed to OSTimeDlyHMSM, and at any rate up to a thousand ticks
\* per second, no step of its INT32U computation overflows: the seconds times
\* the rate, the product before the division, and the sum are below 2^30.
THEOREM TicksFit ==
  ASSUME NEW h \in INT8U, NEW m \in INT8U, NEW s \in INT8U, NEW ms \in INT16U
  PROVE  /\ (h * 3600 + m * 60 + s) * OS_TICKS_PER_SEC <= 933555000
         /\ OS_TICKS_PER_SEC * (ms + 500 \div OS_TICKS_PER_SEC) <= 66035000
         /\ TicksOf(h, m, s, ms) \in Nat /\ TicksOf(h, m, s, ms) <= 933621035
<1> DEFINE q == OS_TICKS_PER_SEC
           half == 500 \div q
           total == h * 3600 + m * 60 + s
           fine == q * (ms + half)
<1>1. q \in Nat \ {0} /\ q <= 1000
  BY Arguments
<1>2. total \in Nat /\ total <= 933555
  BY Arguments, SMT
<1>3. TicksOf(h, m, s, ms) = total * q + fine \div 1000
  BY SMT DEF TicksOf
<1>11. ms \in Nat /\ ms <= 65535
  BY Arguments
<1> HIDE DEF q, total
<1>4. half \in Nat /\ half * q <= 500
  BY <1>1, Quotient
<1> HIDE DEF half
<1>5. half <= 500
  <2>1. half * 1 <= half * q
    BY <1>1, <1>4, SMT
  <2> QED
    BY <1>1, <1>4, <2>1, SMT
<1>6. total * q \in Nat /\ total * q <= 933555000
  BY <1>1, <1>2, ProductBounded, SMT
<1>7. ms + half \in Nat /\ ms + half <= 66035
  BY <1>4, <1>5, <1>11, SMT
<1>8. fine \in Nat /\ fine <= 66035000
  BY <1>1, <1>7, ProductBounded, SMT
<1> HIDE DEF fine
<1>9. fine \div 1000 \in Nat /\ fine \div 1000 <= 66035
  BY <1>8, SMT
<1>10. total * q + fine \div 1000 <= 933621035
  BY <1>6, <1>9, SMT
<1> QED
  BY <1>3, <1>6, <1>8, <1>9, <1>10, SMT DEF q, half, total, fine

LEMMA DelayRounded ==
  ASSUME 1000 % OS_TICKS_PER_SEC = 0,
         NEW h \in Nat, NEW m \in Nat, NEW s \in Nat, NEW ms \in Nat
  PROVE  LET d == 1000 \div OS_TICKS_PER_SEC
         IN  2 * (TicksOf(h, m, s, ms) * d - ((h * 3600 + m * 60 + s) * 1000 + ms)) \in (0 - d)..d
<1> DEFINE q == OS_TICKS_PER_SEC
           d == 1000 \div q
           total == h * 3600 + m * 60 + s
           r == (q * (ms + 500 \div q)) \div 1000
<1>1. q \in Nat \ {0} /\ q <= 1000
  BY Arguments
<1>9. 1000 % q = 0
  OBVIOUS
<1>2. total \in Nat
  BY SMT
<1>3. TicksOf(h, m, s, ms) = total * q + r
  BY Zenon DEF TicksOf
<1> HIDE DEF q, total
<1>4. d \in Nat \ {0} /\ q * d = 1000
  BY <1>1, <1>9, SMT
<1> HIDE DEF d
<1>5. r \in Nat /\ 2 * (r * d - ms) \in (0 - d)..d
  BY <1>1, <1>4, RoundsToNearest
<1> HIDE DEF r
<1>6. (total * q + r) * d = total * (q * d) + r * d
  BY <1>1, <1>2, <1>4, <1>5, SMT
<1>7. (total * q + r) * d - (total * 1000 + ms) = r * d - ms
  <2>1. r * d \in Nat /\ total * 1000 \in Nat
    BY <1>2, <1>4, <1>5, SMT
  <2> QED
    BY <1>4, <1>6, <2>1, SMT
<1>8. 2 * (TicksOf(h, m, s, ms) * d - (total * 1000 + ms)) \in (0 - d)..d
  BY <1>3, <1>5, <1>7
<1> QED
  BY <1>8 DEF q, d, total

\* Whatever is passed to OSTimeDlyHMSM, minutes, seconds and ms beyond their
\* ranges included, the delay is that time rounded to the nearest tick, at any
\* tick rate that divides a second into whole ms, as os_cfg.h's 100 does.
THEOREM DelaysAreRounded ==
  ASSUME 1000 % OS_TICKS_PER_SEC = 0
  PROVE  Spec => []DelayIsNearestTick
<1>1. Init => DelayIsNearestTick
  BY DEF Init, DelayIsNearestTick
<1>2. DelayIsNearestTick /\ [Next]_last => DelayIsNearestTick'
  <2> SUFFICES ASSUME DelayIsNearestTick, [Next]_last
               PROVE  DelayIsNearestTick'
    OBVIOUS
  <2>1. ASSUME NEW byte \in 0..255, Lookup(byte)
        PROVE  DelayIsNearestTick'
    BY <2>1 DEF Lookup, DelayIsNearestTick
  <2>2. ASSUME NEW h \in Hours, NEW m \in Minutes, NEW s \in Seconds, NEW ms \in Millis,
               OSTimeDlyHMSM(h, m, s, ms)
        PROVE  DelayIsNearestTick'
    <3>1. h \in Nat /\ m \in Nat /\ s \in Nat /\ ms \in Nat
      <4>1. h \in INT8U /\ m \in INT8U /\ s \in INT8U /\ ms \in INT16U
        BY ArgumentsAssumption, SMT
      <4> QED
        BY <4>1, Arguments, SMT
    <3>2. /\ last'.op = "OSTimeDlyHMSM" /\ last'.result = TicksOf(h, m, s, ms)
          /\ last'.ms = (h * 3600 + m * 60 + s) * 1000 + ms
      BY <2>2 DEF OSTimeDlyHMSM
    <3> QED
      BY <3>1, <3>2, DelayRounded DEF DelayIsNearestTick
  <2>3. CASE UNCHANGED last
    BY <2>3 DEF DelayIsNearestTick
  <2> QED
    BY <2>1, <2>2, <2>3 DEF Next
<1> QED
  BY <1>1, <1>2, PTL DEF Spec
=============================================================================
