-------------------------- MODULE UcosTimersProofs --------------------------
(***************************************************************************)
(* Invariants of UcosTimers and its refinement of CountdownTimers, proved  *)
(* for any number of timers, any wheel, any delays and any callbacks that  *)
(* leave the timer alone that the walk has saved.                          *)
(*                                                                         *)
(* A list is described by ranks: the timers of the list have distinct      *)
(* ranks, and OSTmrNext leads from each to the one of the next rank.  A    *)
(* timer that is linked gets a rank below all others of its list, and one  *)
(* that is taken out leaves the ranks of the others as they are.           *)
(***************************************************************************)
EXTENDS UcosTimersRefines, FiniteSetTheorems, TLAPS

Tables == [Timers -> OS_TMR]
SpokeTables == [Spokes -> OS_TMR_WHEEL]
Ranks == [Timers -> Int]

OnSpoke(tbl, i) == {t \in Timers : tbl[t].state = "RUNNING" /\ SpokeOf(tbl[t].match) = i}
UnusedIn(tbl) == {t \in Timers : tbl[t].state = "UNUSED"}

\* u, a timer of S or NULL, is next after t in the order of the ranks.
NextInRank(t, u, S, rank) ==
  IF u = NULL THEN \A v \in S : rank[v] <= rank[t]
  ELSE /\ u \in S /\ rank[t] < rank[u]
       /\ \A v \in S : rank[v] <= rank[t] \/ rank[u] <= rank[v]

\* OSTmrNext leads from first through all of S.
Chained(tbl, S, first, rank) ==
  /\ first = NULL <=> S = {}
  /\ first # NULL => first \in S /\ \A t \in S : rank[first] <= rank[t]
  /\ \A t, u \in S : rank[t] = rank[u] => t = u
  /\ \A t \in S : NextInRank(t, tbl[t].next, S, rank)

\* OSTmrPrev leads back.
LinkedBack(tbl, S, first) ==
  \A t \in S : IF t = first THEN tbl[t].prev = NULL
               ELSE tbl[t].prev \in S /\ tbl[tbl[t].prev].next = t

SpokeOK(tbl, spokes, rank, i) ==
  /\ Chained(tbl, OnSpoke(tbl, i), spokes[i].first, rank)
  /\ LinkedBack(tbl, OnSpoke(tbl, i), spokes[i].first)
  /\ spokes[i].entries = Cardinality(OnSpoke(tbl, i))

WheelOK(tbl, spokes, rank) ==
  /\ tbl \in Tables /\ spokes \in SpokeTables /\ rank \in Ranks
  /\ \A i \in Spokes : SpokeOK(tbl, spokes, rank, i)

-----------------------------------------------------------------------------
(* OSTmrTime *)

LEMMA Quotient ==
  ASSUME NEW x \in Int, NEW m \in Nat \ {0}
  PROVE  /\ x = m * (x \div m) + (x % m) /\ x % m \in 0..(m - 1) /\ x \div m \in Int
         /\ -m <= x /\ x < 0 => x \div m = -1
         /\ 0 <= x /\ x < m => x \div m = 0
         /\ m <= x /\ x < 2 * m => x \div m = 1
<1> DEFINE q == x \div m
           r == x % m
<1>1. x = m * q + r /\ r \in 0..(m - 1) /\ q \in Int
  OBVIOUS
<1> HIDE DEF q, r
<1>2. /\ -m <= x /\ x < 0 => q = -1
      /\ 0 <= x /\ x < m => q = 0
      /\ m <= x /\ x < 2 * m => q = 1
  BY <1>1
<1> QED
  BY <1>1, <1>2 DEF q, r

\* The remainder of a sum or of a difference of two times.
LEMMA Remainder ==
  ASSUME NEW x \in Int, NEW m \in Nat \ {0}
  PROVE  /\ -m <= x /\ x < 0 => x % m = x + m
         /\ 0 <= x /\ x < m => x % m = x
         /\ m <= x /\ x < 2 * m => x % m = x - m
<1> DEFINE q == x \div m
           r == x % m
<1>1. /\ x = m * q + r /\ r \in Int /\ q \in Int
      /\ -m <= x /\ x < 0 => q = -1
      /\ 0 <= x /\ x < m => q = 0
      /\ m <= x /\ x < 2 * m => q = 1
  BY Quotient
<1> HIDE DEF q, r
<1>2. ASSUME q = -1 PROVE r = x + m
  BY <1>1, <1>2
<1>3. ASSUME q = 0 PROVE r = x
  BY <1>1, <1>3
<1>4. ASSUME q = 1 PROVE r = x - m
  BY <1>1, <1>4
<1> QED
  BY <1>1, <1>2, <1>3, <1>4 DEF r

\* A timer that is linked at time a to expire after d counts d down from there.
LEMMA CountsFrom ==
  ASSUME NEW m \in Nat \ {0}, NEW a \in 0..(m - 1), NEW d \in 0..(m - 1)
  PROVE  /\ (a + d) % m \in 0..(m - 1)
         /\ d # 0 => (a + d) % m # a
         /\ (((a + d) % m) - a) % m = d
<1>1. (a + d) % m = IF a + d < m THEN a + d ELSE a + d - m
  <2> DEFINE b == a + d
  <2>1. b \in Int /\ 0 <= b /\ b < 2 * m
    OBVIOUS
  <2> HIDE DEF b
  <2>2. ASSUME b < m PROVE b % m = b
    BY <2>1, <2>2, Remainder
  <2>3. ASSUME ~(b < m) PROVE b % m = b - m
    <3>1. m <= b
      BY <2>1, <2>3
    <3> QED
      BY <2>1, <3>1, Remainder
  <2> QED
    BY <2>2, <2>3 DEF b
<1> DEFINE s == (a + d) % m
<1> HIDE DEF s
<1>2. s = IF a + d < m THEN a + d ELSE a + d - m
  BY <1>1 DEF s
<1>3. (s - a) % m = d
  <2>1. CASE a + d < m
    <3>1. s - a = d
      BY <1>2, <2>1
    <3> QED
      BY <3>1, Remainder
  <2>2. CASE ~(a + d < m)
    <3>1. s - a = d - m /\ d - m \in Int /\ -m <= d - m /\ d - m < 0
      BY <1>2, <2>2
    <3>2. (d - m) % m = d - m + m
      BY <3>1, Remainder
    <3> QED
      BY <3>1, <3>2
  <2> QED
    BY <2>1, <2>2
<1> QED
  BY <1>2, <1>3 DEF s

\* A tick of OSTmrTime from a takes one from every count but 0.
LEMMA CountsDown ==
  ASSUME NEW m \in Nat \ {0}, NEW a \in 0..(m - 1), NEW e \in 0..(m - 1)
  PROVE  /\ (e - a) % m \in 0..(m - 1)
         /\ (e - a) % m = 0 <=> e = a
         /\ e # a => (e - ((a + 1) % m)) % m = ((e - a) % m) - 1
<1>1. (a + 1) % m = IF a + 1 < m THEN a + 1 ELSE 0
  <2>1. CASE a + 1 < m
    <3>1. a + 1 \in Int /\ 0 <= a + 1
      OBVIOUS
    <3>2. (a + 1) % m = a + 1
      BY <2>1, <3>1, Remainder
    <3> QED
      BY <2>1, <3>2
  <2>2. CASE a + 1 = m
    <3>1. m <= m /\ m < 2 * m /\ m \in Int
      OBVIOUS
    <3>2. m % m = m - m
      BY <3>1, Remainder
    <3> QED
      BY <2>2, <3>2
  <2> QED
    BY <2>1, <2>2
<1>2. \A y \in 0..(m - 1) : (e - y) % m = IF y <= e THEN e - y ELSE e - y + m
  <2> SUFFICES ASSUME NEW y \in 0..(m - 1)
               PROVE  (e - y) % m = IF y <= e THEN e - y ELSE e - y + m
    OBVIOUS
  <2>1. e - y \in Int /\ -m <= e - y /\ e - y < m
    OBVIOUS
  <2>2. (-m <= e - y /\ e - y < 0 => (e - y) % m = e - y + m)
        /\ (0 <= e - y /\ e - y < m => (e - y) % m = e - y)
    BY <2>1, Remainder
  <2> QED
    BY <2>1, <2>2
<1>3. (e - a) % m = IF a <= e THEN e - a ELSE e - a + m
  BY <1>2
<1>4. e # a => (e - ((a + 1) % m)) % m = ((e - a) % m) - 1
  <2> SUFFICES ASSUME e # a
               PROVE  (e - ((a + 1) % m)) % m = ((e - a) % m) - 1
    OBVIOUS
  <2>1. CASE a + 1 < m
    <3> DEFINE b == a + 1
    <3>1. b \in 0..(m - 1)
      BY <2>1
    <3> HIDE DEF b
    <3>2. (e - b) % m = IF b <= e THEN e - b ELSE e - b + m
      BY <1>2, <3>1
    <3> QED
      BY <1>1, <1>3, <2>1, <3>2 DEF b
  <2>2. CASE a + 1 = m
    <3> DEFINE b == 0
    <3>1. b \in 0..(m - 1)
      OBVIOUS
    <3>2. (a + 1) % m = b
      BY <1>1, <2>2
    <3> HIDE DEF b
    <3>3. (e - b) % m = IF b <= e THEN e - b ELSE e - b + m
      BY <1>2, <3>1
    <3> QED
      BY <1>3, <2>2, <3>2, <3>3 DEF b
  <2> QED
    BY <2>1, <2>2
<1> QED
  BY <1>3, <1>4

-----------------------------------------------------------------------------
(* Chains *)

LEMMA NoTimerIsNull == NULL \notin Timers
BY TimersAssumption

\* The length of a list of timers.
LEMMA TimersCounted ==
  ASSUME NEW S \in SUBSET Timers
  PROVE  IsFiniteSet(S) /\ Cardinality(S) \in 0..NumTimers
<1>1. NumTimers \in Nat
  BY TimersAssumption
<1>2. IsFiniteSet(Timers) /\ Cardinality(Timers) = NumTimers
  BY <1>1, FS_Interval DEF Timers
<1>3. IsFiniteSet(S) /\ Cardinality(S) <= NumTimers /\ Cardinality(S) \in Nat
  BY <1>2, FS_Subset, FS_CardinalityType
<1> QED
  BY <1>1, <1>3

LEMMA SpokeOfTime == \A time \in Times : SpokeOf(time) \in Spokes
BY TimersAssumption DEF SpokeOf, Spokes, Times

\* Lists whose timers and pointers stay are lists as before.
LEMMA ChainStays ==
  ASSUME NEW S \in SUBSET Timers, NEW rank \in Ranks, NEW other \in Ranks, NEW first,
         NEW tbl \in Tables, NEW new \in Tables,
         \A u \in S : new[u].next = tbl[u].next /\ other[u] = rank[u]
  PROVE  /\ Chained(tbl, S, first, rank) => Chained(new, S, first, other)
         /\ (\A u \in S : new[u].prev = tbl[u].prev) /\ LinkedBack(tbl, S, first)
               => LinkedBack(new, S, first)
<1>1. Chained(tbl, S, first, rank) => Chained(new, S, first, other)
  BY DEF Chained, NextInRank
<1>2. (\A u \in S : new[u].prev = tbl[u].prev) /\ LinkedBack(tbl, S, first)
         => LinkedBack(new, S, first)
  BY DEF LinkedBack
<1> QED
  BY <1>1, <1>2
\* In new the neighbours of t are joined.
Joined(tbl, new, S, first, t) ==
  LET prev == IF first = t THEN NULL ELSE tbl[t].prev
  IN  \A u \in S \ {t} :
        /\ new[u].next = IF u = prev THEN tbl[t].next ELSE tbl[u].next
        /\ new[u].prev = IF u = tbl[t].next THEN prev ELSE tbl[u].prev

\* A chain from which t is taken out.
LEMMA ChainWithout ==
  ASSUME NEW S \in SUBSET Timers, NEW rank \in Ranks, NEW first,
         NEW tbl \in Tables, NEW new \in Tables, NEW t \in S,
         Chained(tbl, S, first, rank), LinkedBack(tbl, S, first),
         Joined(tbl, new, S, first, t)
  PROVE  LET front == IF first = t THEN tbl[t].next ELSE first
         IN  Chained(new, S \ {t}, front, rank) /\ LinkedBack(new, S \ {t}, front)
<1> DEFINE next == tbl[t].next
           prev == IF first = t THEN NULL ELSE tbl[t].prev
           front == IF first = t THEN next ELSE first
           R == S \ {t}
<1>0. \A u \in R : /\ new[u].next = IF u = prev THEN next ELSE tbl[u].next
                  /\ new[u].prev = IF u = next THEN prev ELSE tbl[u].prev
  BY DEF Joined
<1>1. \A u \in S : rank[u] \in Int
  BY DEF Ranks
<1>2. NextInRank(t, next, S, rank) /\ first \in S /\ first # NULL
  BY NoTimerIsNull DEF Chained
<1>3. next = NULL \/ next \in R
  BY <1>1, <1>2 DEF NextInRank
<1>4. \/ (prev = NULL /\ first = t)
     \/ (prev \in R /\ tbl[prev].next = t /\ first # t)
  <2>1. CASE first = t
    BY <2>1
  <2>2. CASE first # t
    <3>1. prev \in S /\ tbl[prev].next = t
      BY <2>2 DEF LinkedBack
    <3>2. NextInRank(prev, t, S, rank)
      BY <3>1 DEF Chained
    <3>3. prev # t
      BY <1>1, <3>1, <3>2, NoTimerIsNull DEF NextInRank
    <3> QED
      BY <2>2, <3>1, <3>3
  <2> QED
    BY <2>1, <2>2
<1>5. \A u \in R : tbl[u].next = t => u = prev
  <2> SUFFICES ASSUME NEW u \in R, tbl[u].next = t
               PROVE  u = prev
    OBVIOUS
  <2>1. NextInRank(u, t, S, rank)
    BY DEF Chained
  <2>2. CASE first = t
    BY <1>1, <2>1, <2>2, NoTimerIsNull DEF NextInRank, Chained
  <2>3. CASE first # t
    <3>1. prev \in S /\ NextInRank(prev, t, S, rank)
      BY <1>4, <2>3 DEF Chained
    <3>2. rank[u] = rank[prev]
      BY <1>1, <2>1, <3>1, NoTimerIsNull DEF NextInRank
    <3> QED
      BY <3>1, <3>2 DEF Chained
  <2> QED
    BY <2>2, <2>3
<1>6. \A u \in R : NextInRank(u, new[u].next, R, rank)
  <2> SUFFICES ASSUME NEW u \in R
               PROVE  NextInRank(u, new[u].next, R, rank)
    OBVIOUS
  <2>1. NextInRank(u, tbl[u].next, S, rank)
    BY DEF Chained
  <2>2. CASE u = prev
    <3>1. new[u].next = next /\ tbl[u].next = t
      BY <1>0, <1>4, <2>2, NoTimerIsNull
    <3>2. \A v \in R : rank[v] <= rank[u] \/ rank[t] <= rank[v]
      BY <2>1, <3>1, NoTimerIsNull DEF NextInRank
    <3>3. rank[u] < rank[t]
      BY <2>1, <3>1, NoTimerIsNull DEF NextInRank
    <3>4. \A v \in R : rank[v] # rank[t]
      BY DEF Chained
    <3> QED
      BY <1>1, <1>2, <1>3, <3>1, <3>2, <3>3, <3>4 DEF NextInRank
  <2>3. CASE u # prev
    <3>1. new[u].next = tbl[u].next /\ tbl[u].next # t
      BY <1>0, <1>5, <2>3
    <3> QED
      BY <2>1, <3>1 DEF NextInRank
  <2> QED
    BY <2>2, <2>3
<1>7. Chained(new, R, front, rank)
  <2>1. CASE first = t
    <3>1. next = NULL => R = {}
      <4> SUFFICES ASSUME next = NULL, NEW v \in R
                   PROVE  FALSE
        OBVIOUS
      <4>1. rank[v] <= rank[t] /\ rank[t] <= rank[v]
        BY <1>2, <2>1 DEF NextInRank, Chained
      <4> QED
        BY <1>1, <4>1 DEF Chained
    <3>2. next # NULL => \A v \in R : rank[next] <= rank[v]
      <4> SUFFICES ASSUME next # NULL, NEW v \in R
                   PROVE  rank[next] <= rank[v]
        OBVIOUS
      <4>1. rank[t] <= rank[v] /\ rank[t] # rank[v]
        BY <2>1 DEF Chained
      <4> QED
        BY <1>1, <1>2, <4>1 DEF NextInRank
    <3> QED
      BY <1>3, <1>6, <2>1, <3>1, <3>2, NoTimerIsNull DEF Chained
  <2>2. CASE first # t
    BY <1>2, <1>6, <2>2 DEF Chained
  <2> QED
    BY <2>1, <2>2
<1>8. LinkedBack(new, R, front)
  <2> SUFFICES ASSUME NEW u \in R
               PROVE  IF u = front THEN new[u].prev = NULL
                      ELSE new[u].prev \in R /\ new[new[u].prev].next = u
    BY DEF LinkedBack
  <2>1. CASE u = next
    <3>1. new[u].prev = prev
      BY <1>0, <2>1
    <3>2. CASE first = t
      BY <1>4, <2>1, <3>1, <3>2
    <3>3. CASE first # t
      <4>1. prev \in R /\ new[prev].next = next
        BY <1>0, <1>4, <3>3
      <4>2. u # first
        <5>1. rank[t] < rank[u] /\ rank[first] <= rank[t]
          BY <1>2, <2>1, NoTimerIsNull DEF NextInRank, Chained
        <5> QED
          BY <1>1, <1>2, <5>1
      <4> QED
        BY <2>1, <3>1, <3>3, <4>1, <4>2
    <3> QED
      BY <3>2, <3>3
  <2>2. CASE u # next
    <3>1. new[u].prev = tbl[u].prev
      BY <1>0, <2>2
    <3>2. CASE u = first
      BY <3>1, <3>2 DEF LinkedBack
    <3>3. CASE u # first
      <4>1. tbl[u].prev \in S /\ tbl[tbl[u].prev].next = u
        BY <3>3 DEF LinkedBack
      <4>2. tbl[u].prev # t
        BY <2>2, <4>1
      <4>3. tbl[u].prev \in R /\ tbl[u].prev # prev
        BY <1>4, <4>1, <4>2, NoTimerIsNull
      <4>4. new[tbl[u].prev].next = u
        BY <1>0, <4>1, <4>3
      <4>5. u # front
        BY <2>2, <3>3
      <4> QED
        BY <3>1, <4>3, <4>4, <4>5
    <3> QED
      BY <3>2, <3>3
  <2> QED
    BY <2>1, <2>2
<1> QED
  BY <1>7, <1>8

\* The rank of a timer put before first.
RankBefore(rank, t, first) ==
  [rank EXCEPT ![t] = IF first = NULL THEN 0 ELSE rank[first] - 1]

\* A chain with t put before its first.
LEMMA ChainWithHead ==
  ASSUME NEW S \in SUBSET Timers, NEW rank \in Ranks, NEW first,
         NEW tbl \in Tables, NEW new \in Tables, NEW t \in Timers \ S,
         Chained(tbl, S, first, rank),
         new[t].next = first, \A u \in S : new[u].next = tbl[u].next
  PROVE  /\ RankBefore(rank, t, first) \in Ranks
         /\ \A u \in Timers \ {t} : RankBefore(rank, t, first)[u] = rank[u]
         /\ Chained(new, S \cup {t}, t, RankBefore(rank, t, first))
<1> DEFINE other == RankBefore(rank, t, first)
           R == S \cup {t}
<1>1. first = NULL \/ first \in S
  BY DEF Chained
<1>2. \A u \in Timers : rank[u] \in Int
  BY DEF Ranks
<1>3. (IF first = NULL THEN 0 ELSE rank[first] - 1) \in Int
  BY <1>1, <1>2
<1>4. other \in Ranks /\ \A u \in Timers \ {t} : other[u] = rank[u]
  BY <1>3 DEF Ranks, RankBefore
<1>5. \A u \in S : u \in Timers /\ u # t /\ other[u] = rank[u] /\ other[u] \in Int
  BY <1>2, <1>4
<1>6. \A u \in S : first # NULL /\ other[t] < other[u] /\ other[first] <= other[u]
  <2> SUFFICES ASSUME NEW u \in S
               PROVE  first # NULL /\ other[t] < other[u] /\ other[first] <= other[u]
    OBVIOUS
  <2>1. first # NULL /\ rank[first] <= rank[u]
    BY DEF Chained
  <2>2. other[t] = rank[first] - 1
    BY <2>1 DEF Ranks, RankBefore
  <2> QED
    BY <1>1, <1>5, <2>1, <2>2
<1>7. other[t] \in Int
  BY <1>4 DEF Ranks
<1> HIDE DEF other
<1>8. \A u, v \in R : other[u] = other[v] => u = v
  BY <1>5, <1>6, <1>7 DEF Chained
<1>9. NextInRank(t, new[t].next, R, other)
  BY <1>1, <1>5, <1>6, <1>7 DEF NextInRank, Chained
<1>10. ASSUME NEW u \in S
       PROVE  NextInRank(u, new[u].next, R, other)
  <2>1. NextInRank(u, tbl[u].next, S, rank)
    BY DEF Chained
  <2>2. NextInRank(u, tbl[u].next, S, other)
    BY <1>5, <2>1 DEF NextInRank
  <2>3. other[t] <= other[u]
    BY <1>5, <1>6, <1>7
  <2> QED
    BY <2>2, <2>3 DEF NextInRank
<1>11. Chained(new, R, t, other)
  <2>1. t # NULL /\ t \in R /\ R # {}
    BY NoTimerIsNull
  <2>2. \A u \in R : other[t] <= other[u]
    BY <1>5, <1>6, <1>7
  <2> QED
    BY <1>8, <1>9, <1>10, <2>1, <2>2 DEF Chained
<1> QED
  BY <1>4, <1>11 DEF other

LEMMA LinkedBackWithHead ==
  ASSUME NEW S \in SUBSET Timers, NEW rank, NEW first, NEW t \in Timers \ S,
         NEW tbl \in Tables, NEW new \in Tables,
         Chained(tbl, S, first, rank), LinkedBack(tbl, S, first),
         new[t].next = first, new[t].prev = NULL,
         \A u \in S : /\ new[u].next = tbl[u].next
                      /\ new[u].prev = IF u = first THEN t ELSE tbl[u].prev
  PROVE  LinkedBack(new, S \cup {t}, t)
<1>1. ASSUME NEW u \in S
      PROVE  new[u].prev \in S \cup {t} /\ new[new[u].prev].next = u
  <2>1. CASE u = first
    BY <2>1
  <2>2. CASE u # first
    <3>1. new[u].prev = tbl[u].prev /\ tbl[u].prev \in S /\ tbl[tbl[u].prev].next = u
      BY <2>2 DEF LinkedBack
    <3> QED
      BY <3>1
  <2> QED
    BY <2>1, <2>2
<1> QED
  BY <1>1 DEF LinkedBack

\* A chain without its first.
LEMMA ChainWithoutHead ==
  ASSUME NEW S \in SUBSET Timers, NEW rank \in Ranks, NEW t \in S,
         NEW tbl \in Tables, NEW new \in Tables,
         Chained(tbl, S, t, rank), \A u \in S \ {t} : new[u].next = tbl[u].next
  PROVE  Chained(new, S \ {t}, tbl[t].next, rank)
<1> DEFINE next == tbl[t].next
           R == S \ {t}
<1>1. \A u \in S : rank[u] \in Int
  BY DEF Ranks
<1>2. NextInRank(t, next, S, rank) /\ \A u \in S : rank[t] <= rank[u]
  BY NoTimerIsNull DEF Chained
<1>3. \A u \in R : rank[t] < rank[u]
  BY <1>1, <1>2 DEF Chained
<1>4. ASSUME NEW u \in R
      PROVE  NextInRank(u, new[u].next, R, rank)
  <2>1. NextInRank(u, tbl[u].next, S, rank) /\ new[u].next = tbl[u].next
    BY DEF Chained
  <2>2. tbl[u].next # t
    BY <1>1, <1>3, <2>1, NoTimerIsNull DEF NextInRank
  <2> QED
    BY <2>1, <2>2 DEF NextInRank
<1>5. next = NULL <=> R = {}
  BY <1>1, <1>2, <1>3, NoTimerIsNull DEF NextInRank
<1>6. next # NULL => next \in R /\ \A u \in R : rank[next] <= rank[u]
  BY <1>1, <1>2, <1>3 DEF NextInRank
<1> QED
  BY <1>4, <1>5, <1>6 DEF Chained

-----------------------------------------------------------------------------
(* What OSTmr_Link and OSTmr_Unlink write *)

SamePlan(a, b) ==
  a.opt = b.opt /\ a.dly = b.dly /\ a.period = b.period /\ a.callback = b.callback

\* new and old differ in no timer but t, apart from the pointers.
OnlyAt(new, old, t) ==
  \A u \in Timers \ {t} :
    new[u].state = old[u].state /\ new[u].match = old[u].match /\ SamePlan(new[u], old[u])

LEMMA PointNext ==
  ASSUME NEW tbl \in Tables, NEW p \in TimerPtrs, NEW q \in TimerPtrs
  PROVE  /\ Point(tbl, p, "next", q) \in Tables
         /\ \A u \in Timers :
              /\ u = p => Point(tbl, p, "next", q)[u].next = q
              /\ u # p => Point(tbl, p, "next", q)[u].next = tbl[u].next
              /\ Point(tbl, p, "next", q)[u].prev = tbl[u].prev
              /\ Point(tbl, p, "next", q)[u].state = tbl[u].state
              /\ Point(tbl, p, "next", q)[u].match = tbl[u].match
              /\ SamePlan(Point(tbl, p, "next", q)[u], tbl[u])
<1> DEFINE new == Point(tbl, p, "next", q)
<1>1. CASE p = NULL
  BY <1>1, NoTimerIsNull DEF Point, SamePlan
<1>2. CASE p # NULL
  <2>1. p \in Timers /\ tbl[p] \in OS_TMR
    BY <1>2 DEF TimerPtrs, Tables
  <2>2. new[p] = [tbl[p] EXCEPT !["next"] = q] /\ \A u \in Timers \ {p} : new[u] = tbl[u]
    BY <1>2, <2>1 DEF Point, Tables
  <2>3. new[p] \in OS_TMR
    BY <2>1, <2>2 DEF OS_TMR
  <2>4. new \in Tables
    BY <1>2, <2>1, <2>2, <2>3 DEF Point, Tables
  <2>5. /\ new[p].next = q /\ new[p].prev = tbl[p].prev /\ new[p].state = tbl[p].state
        /\ new[p].match = tbl[p].match /\ SamePlan(new[p], tbl[p])
    BY <2>1, <2>2 DEF OS_TMR, SamePlan
  <2> HIDE DEF new
  <2> QED
    BY <2>1, <2>2, <2>4, <2>5 DEF new, SamePlan
<1> QED
  BY <1>1, <1>2

LEMMA PointPrev ==
  ASSUME NEW tbl \in Tables, NEW p \in TimerPtrs, NEW q \in TimerPtrs
  PROVE  /\ Point(tbl, p, "prev", q) \in Tables
         /\ \A u \in Timers :
              /\ u = p => Point(tbl, p, "prev", q)[u].prev = q
              /\ u # p => Point(tbl, p, "prev", q)[u].prev = tbl[u].prev
              /\ Point(tbl, p, "prev", q)[u].next = tbl[u].next
              /\ Point(tbl, p, "prev", q)[u].state = tbl[u].state
              /\ Point(tbl, p, "prev", q)[u].match = tbl[u].match
              /\ SamePlan(Point(tbl, p, "prev", q)[u], tbl[u])
<1> DEFINE new == Point(tbl, p, "prev", q)
<1>1. CASE p = NULL
  BY <1>1, NoTimerIsNull DEF Point, SamePlan
<1>2. CASE p # NULL
  <2>1. p \in Timers /\ tbl[p] \in OS_TMR
    BY <1>2 DEF TimerPtrs, Tables
  <2>2. new[p] = [tbl[p] EXCEPT !["prev"] = q] /\ \A u \in Timers \ {p} : new[u] = tbl[u]
    BY <1>2, <2>1 DEF Point, Tables
  <2>3. new[p] \in OS_TMR
    BY <2>1, <2>2 DEF OS_TMR
  <2>4. new \in Tables
    BY <1>2, <2>1, <2>2, <2>3 DEF Point, Tables
  <2>5. /\ new[p].prev = q /\ new[p].next = tbl[p].next /\ new[p].state = tbl[p].state
        /\ new[p].match = tbl[p].match /\ SamePlan(new[p], tbl[p])
    BY <2>1, <2>2 DEF OS_TMR, SamePlan
  <2> HIDE DEF new
  <2> QED
    BY <2>1, <2>2, <2>4, <2>5 DEF new, SamePlan
<1> QED
  BY <1>1, <1>2

\* OSTmr_Unlink: its writes to the timers ...
LEMMA UnlinkWrites ==
  ASSUME NEW tbl \in Tables, NEW spokes \in SpokeTables, NEW t \in Timers,
         NEW prev \in TimerPtrs,
         prev = IF spokes[SpokeOf(tbl[t].match)].first = t THEN NULL ELSE tbl[t].prev
  PROVE  LET new == OSTmr_Unlink([tbl |-> tbl, spokes |-> spokes], t).tbl
         IN  /\ new \in Tables
             /\ new[t].state = "STOPPED" /\ new[t].next = NULL
             /\ \A u \in Timers : new[u].match = tbl[u].match /\ SamePlan(new[u], tbl[u])
             /\ \A u \in Timers \ {t} :
                  /\ new[u].state = tbl[u].state
                  /\ new[u].next = IF u = prev THEN tbl[t].next ELSE tbl[u].next
                  /\ new[u].prev = IF u = tbl[t].next THEN prev ELSE tbl[u].prev
<1> DEFINE next == tbl[t].next
           one == Point(tbl, prev, "next", next)
           two == Relinked(tbl, prev, next)
           new == OSTmr_Unlink([tbl |-> tbl, spokes |-> spokes], t).tbl
<1>1. tbl[t] \in OS_TMR
  BY DEF Tables
<1>2. next \in TimerPtrs
  BY <1>1 DEF OS_TMR
<1>3. /\ one \in Tables
      /\ \A u \in Timers :
           /\ one[u].next = IF u = prev THEN next ELSE tbl[u].next
           /\ one[u].prev = tbl[u].prev
           /\ one[u].state = tbl[u].state
           /\ one[u].match = tbl[u].match
           /\ SamePlan(one[u], tbl[u])
  BY <1>2, PointNext
<1>4. two = Point(one, next, "prev", prev)
  BY DEF Relinked
<1> HIDE DEF one, next
<1>5. /\ two \in Tables
      /\ \A u \in Timers :
           /\ two[u].prev = IF u = next THEN prev ELSE one[u].prev
           /\ two[u].next = one[u].next
           /\ two[u].state = one[u].state
           /\ two[u].match = one[u].match
           /\ SamePlan(two[u], one[u])
  BY <1>2, <1>3, <1>4, PointPrev
<1>6. new = [two EXCEPT ![t].state = "STOPPED", ![t].next = NULL, ![t].prev = NULL]
  BY DEF OSTmr_Unlink, next
<1> HIDE DEF two, new
<1>7. two[t] \in OS_TMR
  BY <1>5 DEF Tables
<1>8. /\ new[t] = [two[t] EXCEPT !.state = "STOPPED", !.next = NULL, !.prev = NULL]
      /\ \A u \in Timers \ {t} : new[u] = two[u]
      /\ DOMAIN new = Timers
  BY <1>5, <1>6 DEF Tables
<1>9. /\ new[t].state = "STOPPED" /\ new[t].next = NULL
      /\ new[t].match = two[t].match /\ SamePlan(new[t], two[t])
  BY <1>7, <1>8 DEF OS_TMR, SamePlan
<1>10. new[t] \in OS_TMR
  BY <1>7, <1>8 DEF OS_TMR, TimerPtrs
<1>11. new \in Tables
  BY <1>5, <1>6, <1>8, <1>10 DEF Tables
<1>12. ASSUME NEW u \in Timers
       PROVE  new[u].match = tbl[u].match /\ SamePlan(new[u], tbl[u])
  <2>1. new[u].match = two[u].match /\ SamePlan(new[u], two[u])
    BY <1>8, <1>9 DEF SamePlan
  <2>2. two[u].match = one[u].match /\ SamePlan(two[u], one[u])
    BY <1>5
  <2>3. one[u].match = tbl[u].match /\ SamePlan(one[u], tbl[u])
    BY <1>3
  <2> QED
    BY <2>1, <2>2, <2>3 DEF SamePlan
<1> QED
  BY <1>3, <1>5, <1>8, <1>9, <1>11, <1>12 DEF new, next

\* ... and the wheel it leaves.
LEMMA UnlinkWorks ==
  ASSUME NEW tbl, NEW spokes, NEW rank, WheelOK(tbl, spokes, rank),
         NEW t \in Timers, tbl[t].state = "RUNNING"
  PROVE  LET w == OSTmr_Unlink([tbl |-> tbl, spokes |-> spokes], t)
         IN  /\ WheelOK(w.tbl, w.spokes, rank)
             /\ w.tbl[t].state = "STOPPED"
             /\ \A u \in Timers : w.tbl[u].match = tbl[u].match /\ SamePlan(w.tbl[u], tbl[u])
             /\ \A u \in Timers \ {t} : w.tbl[u].state = tbl[u].state
             /\ \A u \in UnusedIn(tbl) : w.tbl[u].next = tbl[u].next
<1> DEFINE w == OSTmr_Unlink([tbl |-> tbl, spokes |-> spokes], t)
           i == SpokeOf(tbl[t].match)
           S == OnSpoke(tbl, i)
           first == spokes[i].first
           next == tbl[t].next
           prev == IF first = t THEN NULL ELSE tbl[t].prev
<1> USE DEF WheelOK
<1>1. tbl[t] \in OS_TMR /\ i \in Spokes /\ t \in S
  BY SpokeOfTime DEF Tables, OnSpoke, OS_TMR
<1>2. spokes[i] \in OS_TMR_WHEEL /\ SpokeOK(tbl, spokes, rank, i)
  BY <1>1 DEF SpokeTables
<1>3. prev \in S \cup {NULL} /\ next \in S \cup {NULL} /\ S \subseteq Timers
  BY <1>1, <1>2 DEF SpokeOK, LinkedBack, Chained, NextInRank, OnSpoke
<1>4. prev \in TimerPtrs
  BY <1>3 DEF TimerPtrs
<1> HIDE DEF w, prev
<1>5. /\ w.tbl \in Tables
      /\ w.tbl[t].state = "STOPPED" /\ w.tbl[t].next = NULL
      /\ \A u \in Timers : w.tbl[u].match = tbl[u].match /\ SamePlan(w.tbl[u], tbl[u])
      /\ \A u \in Timers \ {t} :
           /\ w.tbl[u].state = tbl[u].state
           /\ w.tbl[u].next = IF u = prev THEN next ELSE tbl[u].next
           /\ w.tbl[u].prev = IF u = next THEN prev ELSE tbl[u].prev
  BY <1>4, UnlinkWrites DEF w, prev
<1>6. w.spokes = [spokes EXCEPT ![i].first = IF first = t THEN next ELSE first,
                                ![i].entries = spokes[i].entries - 1]
  BY <1>1 DEF w, OSTmr_Unlink, SpokeTables
<1>7. /\ w.spokes[i].first = IF first = t THEN next ELSE first
      /\ w.spokes[i].entries = spokes[i].entries - 1
      /\ \A j \in Spokes \ {i} : w.spokes[j] = spokes[j]
  BY <1>1, <1>2, <1>6 DEF SpokeTables, OS_TMR_WHEEL
<1>8. OnSpoke(w.tbl, i) = S \ {t} /\ \A j \in Spokes \ {i} : OnSpoke(w.tbl, j) = OnSpoke(tbl, j)
  BY <1>5 DEF OnSpoke
<1>9. Cardinality(S \ {t}) = spokes[i].entries - 1 /\ Cardinality(S \ {t}) \in 0..NumTimers
  <2>1. IsFiniteSet(S) /\ Cardinality(S \ {t}) \in 0..NumTimers
    BY <1>3, TimersCounted
  <2>2. Cardinality(S \ {t}) = Cardinality(S) - 1
    BY <1>1, <2>1, FS_RemoveElement
  <2> QED
    BY <1>2, <2>1, <2>2 DEF SpokeOK
<1>10. w.spokes \in SpokeTables
  <2>1. (IF first = t THEN next ELSE first) \in TimerPtrs
    BY <1>2, <1>3 DEF TimerPtrs, OS_TMR_WHEEL
  <2> HIDE DEF next, first
  <2>2. [spokes[i] EXCEPT !.first = IF first = t THEN next ELSE first,
                          !.entries = spokes[i].entries - 1] \in OS_TMR_WHEEL
    BY <1>2, <1>9, <2>1 DEF OS_TMR_WHEEL
  <2>3. w.spokes[i] = [spokes[i] EXCEPT !.first = IF first = t THEN next ELSE first,
                          !.entries = spokes[i].entries - 1]
    BY <1>1, <1>6 DEF SpokeTables
  <2>4. DOMAIN w.spokes = Spokes /\ w.spokes = [j \in Spokes |-> w.spokes[j]]
    BY <1>6 DEF SpokeTables
  <2> QED
    BY <1>1, <1>7, <2>2, <2>3, <2>4 DEF SpokeTables
<1>11. SpokeOK(w.tbl, w.spokes, rank, i)
  <2>1. /\ Chained(tbl, S, first, rank) /\ LinkedBack(tbl, S, first)
        /\ S \in SUBSET Timers
    BY <1>2, <1>3 DEF SpokeOK
  <2>2. Joined(tbl, w.tbl, S, first, t)
    BY <1>3, <1>5 DEF Joined, prev
  <2> HIDE DEF S, first
  <2>3. LET front == IF first = t THEN next ELSE first
        IN  Chained(w.tbl, S \ {t}, front, rank) /\ LinkedBack(w.tbl, S \ {t}, front)
    BY <1>1, <1>5, <2>1, <2>2, ChainWithout
  <2> QED
    BY <1>7, <1>8, <1>9, <2>3 DEF SpokeOK
<1>12. ASSUME NEW j \in Spokes \ {i}
       PROVE  SpokeOK(w.tbl, w.spokes, rank, j)
  <2>1. SpokeOK(tbl, spokes, rank, j) /\ OnSpoke(tbl, j) \in SUBSET Timers
    BY DEF OnSpoke
  <2>2. \A u \in OnSpoke(tbl, j) : u \in Timers /\ u \notin S /\ u # t /\ u # NULL
    BY <1>1, NoTimerIsNull DEF OnSpoke
  <2>3. \A u \in OnSpoke(tbl, j) : w.tbl[u].next = tbl[u].next /\ w.tbl[u].prev = tbl[u].prev
    BY <1>3, <1>5, <2>2
  <2>4. /\ Chained(w.tbl, OnSpoke(tbl, j), spokes[j].first, rank)
        /\ LinkedBack(w.tbl, OnSpoke(tbl, j), spokes[j].first)
    BY <1>5, <2>1, <2>3, ChainStays DEF SpokeOK
  <2> QED
    BY <1>7, <1>8, <2>1, <2>4 DEF SpokeOK
<1>13. \A u \in UnusedIn(tbl) : w.tbl[u].next = tbl[u].next
  <2>1. \A u \in UnusedIn(tbl) : u \in Timers /\ u # t /\ u # prev
    BY <1>1, <1>3, NoTimerIsNull DEF UnusedIn, OnSpoke
  <2> QED
    BY <1>5, <2>1
<1> QED
  BY <1>5, <1>10, <1>11, <1>12, <1>13 DEF w

\* OSTmr_Link: its writes to the timers ...
LEMMA LinkWrites ==
  ASSUME NEW tbl \in Tables, NEW spokes \in SpokeTables, NEW t \in Timers, NEW type,
         MatchTime(tbl[t], type) \in Times,
         NEW first \in TimerPtrs, first # t,
         first = spokes[SpokeOf(MatchTime(tbl[t], type))].first
  PROVE  LET new == OSTmr_Link([tbl |-> tbl, spokes |-> spokes], t, type).tbl
         IN  /\ new \in Tables
             /\ new[t].state = "RUNNING" /\ new[t].next = first /\ new[t].prev = NULL
             /\ new[t].match = MatchTime(tbl[t], type)
             /\ \A u \in Timers : SamePlan(new[u], tbl[u])
             /\ \A u \in Timers \ {t} :
                  /\ new[u].state = tbl[u].state
                  /\ new[u].match = tbl[u].match
                  /\ new[u].next = tbl[u].next
                  /\ new[u].prev = IF u = first THEN t ELSE tbl[u].prev
<1> DEFINE match == MatchTime(tbl[t], type)
           one == [tbl EXCEPT ![t].state = "RUNNING", ![t].match = match,
                              ![t].next = first, ![t].prev = NULL]
           new == OSTmr_Link([tbl |-> tbl, spokes |-> spokes], t, type).tbl
<1>1. tbl[t] \in OS_TMR /\ t \in TimerPtrs /\ NULL \in TimerPtrs /\ first \in TimerPtrs
  BY DEF Tables, TimerPtrs
<1>2. new = Point(one, first, "prev", t)
  BY DEF OSTmr_Link
<1> HIDE DEF match
<1>3. /\ one[t] = [tbl[t] EXCEPT !.state = "RUNNING", !.match = match, !.next = first,
                                 !.prev = NULL]
      /\ \A u \in Timers \ {t} : one[u] = tbl[u]
      /\ DOMAIN one = Timers
  BY DEF Tables
<1>4. /\ one[t].state = "RUNNING" /\ one[t].next = first /\ one[t].prev = NULL
      /\ one[t].match = match /\ SamePlan(one[t], tbl[t])
  BY <1>1, <1>3 DEF OS_TMR, SamePlan
<1>5. one[t] \in OS_TMR
  BY <1>1, <1>3 DEF OS_TMR, match
<1>6. one \in Tables
  BY <1>3, <1>5 DEF Tables
<1> HIDE DEF one, new
<1>7. /\ Point(one, first, "prev", t) \in Tables
      /\ \A u \in Timers :
           /\ u = first => Point(one, first, "prev", t)[u].prev = t
           /\ u # first => Point(one, first, "prev", t)[u].prev = one[u].prev
           /\ Point(one, first, "prev", t)[u].next = one[u].next
           /\ Point(one, first, "prev", t)[u].state = one[u].state
           /\ Point(one, first, "prev", t)[u].match = one[u].match
           /\ SamePlan(Point(one, first, "prev", t)[u], one[u])
  BY <1>1, <1>6, PointPrev
<1>8. /\ new \in Tables
      /\ \A u \in Timers :
           /\ new[u].prev = IF u = first THEN t ELSE one[u].prev
           /\ new[u].next = one[u].next
           /\ new[u].state = one[u].state
           /\ new[u].match = one[u].match
           /\ SamePlan(new[u], one[u])
  BY <1>2, <1>7
<1>9. ASSUME NEW u \in Timers
      PROVE  SamePlan(new[u], tbl[u])
  <2>1. SamePlan(new[u], one[u])
    BY <1>8
  <2>2. SamePlan(one[u], tbl[u])
    BY <1>3, <1>4 DEF SamePlan
  <2> QED
    BY <2>1, <2>2 DEF SamePlan
<1> QED
  BY <1>3, <1>4, <1>8, <1>9 DEF new, match

\* ... and the wheel it leaves.
LEMMA LinkWorks ==
  ASSUME NEW tbl, NEW spokes, NEW rank, WheelOK(tbl, spokes, rank),
         NEW t \in Timers, tbl[t].state # "RUNNING", NEW type,
         MatchTime(tbl[t], type) \in Times
  PROVE  LET w == OSTmr_Link([tbl |-> tbl, spokes |-> spokes], t, type)
         IN  /\ \E other \in Ranks :
                  /\ WheelOK(w.tbl, w.spokes, other)
                  /\ \A u \in Timers \ {t} : other[u] = rank[u]
             /\ w.tbl[t].state = "RUNNING"
             /\ w.tbl[t].match = MatchTime(tbl[t], type)
             /\ \A u \in Timers : SamePlan(w.tbl[u], tbl[u])
             /\ \A u \in Timers \ {t} :
                  /\ w.tbl[u].state = tbl[u].state
                  /\ w.tbl[u].match = tbl[u].match
                  /\ w.tbl[u].next = tbl[u].next
<1> DEFINE w == OSTmr_Link([tbl |-> tbl, spokes |-> spokes], t, type)
           match == MatchTime(tbl[t], type)
           i == SpokeOf(match)
           S == OnSpoke(tbl, i)
           first == spokes[i].first
           other == RankBefore(rank, t, first)
<1> USE DEF WheelOK
<1>1. tbl[t] \in OS_TMR /\ t \notin S /\ S \in SUBSET Timers
  BY DEF Tables, OnSpoke
<1>2. i \in Spokes
  <2> HIDE DEF match
  <2>1. match \in Times
    BY DEF match
  <2> QED
    BY <2>1, TimersAssumption DEF SpokeOf, Spokes, Times
<1>3. spokes[i] \in OS_TMR_WHEEL /\ SpokeOK(tbl, spokes, rank, i)
  BY <1>2 DEF SpokeTables
<1>4. first \in TimerPtrs \ {t}
  BY <1>1, <1>3, NoTimerIsNull DEF SpokeOK, Chained, OS_TMR_WHEEL
<1>5. w.spokes = [spokes EXCEPT ![i] =
                    [first |-> t, entries |-> IF first = NULL THEN 1 ELSE @.entries + 1]]
  BY DEF OSTmr_Link
<1> HIDE DEF w, match
<1>6. /\ w.tbl \in Tables
      /\ w.tbl[t].state = "RUNNING" /\ w.tbl[t].next = first /\ w.tbl[t].prev = NULL
      /\ w.tbl[t].match = match
      /\ \A u \in Timers : SamePlan(w.tbl[u], tbl[u])
      /\ \A u \in Timers \ {t} :
           /\ w.tbl[u].state = tbl[u].state
           /\ w.tbl[u].match = tbl[u].match
           /\ w.tbl[u].next = tbl[u].next
           /\ w.tbl[u].prev = IF u = first THEN t ELSE tbl[u].prev
  BY <1>4, LinkWrites DEF w, match
<1>7. /\ w.spokes[i].first = t
      /\ w.spokes[i].entries = IF first = NULL THEN 1 ELSE spokes[i].entries + 1
      /\ \A j \in Spokes \ {i} : w.spokes[j] = spokes[j]
  BY <1>2, <1>5 DEF SpokeTables
<1>8. /\ OnSpoke(w.tbl, i) = S \cup {t}
      /\ \A j \in Spokes \ {i} : OnSpoke(w.tbl, j) = OnSpoke(tbl, j) /\ t \notin OnSpoke(tbl, j)
  BY <1>6 DEF OnSpoke
<1>9. /\ w.spokes[i].entries = Cardinality(S \cup {t})
      /\ w.spokes[i].entries \in 0..NumTimers
  <2>1. IsFiniteSet(S) /\ Cardinality(S) \in 0..NumTimers
    BY <1>1, TimersCounted
  <2>2. Cardinality(S \cup {t}) = Cardinality(S) + 1
    BY <1>1, <2>1, FS_AddElement
  <2>3. first = NULL => Cardinality(S) = 0
    BY <1>3, FS_EmptySet DEF SpokeOK, Chained
  <2>4. Cardinality(S \cup {t}) \in 0..NumTimers
    BY <1>1, TimersCounted
  <2>5. spokes[i].entries = Cardinality(S)
    BY <1>3 DEF SpokeOK
  <2> QED
    BY <1>7, <2>2, <2>3, <2>4, <2>5
<1>10. w.spokes \in SpokeTables
  <2>1. w.spokes[i] = [first |-> t, entries |-> w.spokes[i].entries]
    BY <1>2, <1>5, <1>7 DEF SpokeTables
  <2>2. w.spokes[i] \in OS_TMR_WHEEL
    BY <1>9, <2>1 DEF OS_TMR_WHEEL, TimerPtrs
  <2>3. DOMAIN w.spokes = Spokes /\ w.spokes = [j \in Spokes |-> w.spokes[j]]
    BY <1>5 DEF SpokeTables
  <2> QED
    BY <1>7, <2>2, <2>3 DEF SpokeTables
<1>11. /\ other \in Ranks
       /\ \A u \in Timers \ {t} : other[u] = rank[u]
       /\ Chained(w.tbl, S \cup {t}, t, other) /\ LinkedBack(w.tbl, S \cup {t}, t)
  <2>1. Chained(tbl, S, first, rank) /\ LinkedBack(tbl, S, first)
    BY <1>3 DEF SpokeOK
  <2>2. \A u \in S : /\ w.tbl[u].next = tbl[u].next
                     /\ w.tbl[u].prev = IF u = first THEN t ELSE tbl[u].prev
    BY <1>1, <1>6
  <2> HIDE DEF S, first, other
  <2>3. t \in Timers \ S /\ \A u \in S : w.tbl[u].next = tbl[u].next
    BY <1>1, <2>2
  <2>4. RankBefore(rank, t, first) \in Ranks
    BY <1>1, <1>6, <2>1, <2>3, ChainWithHead
  <2>5. \A u \in Timers \ {t} : RankBefore(rank, t, first)[u] = rank[u]
    BY DEF RankBefore, Ranks
  <2>6. Chained(w.tbl, S \cup {t}, t, RankBefore(rank, t, first))
    BY <1>1, <1>6, <2>1, <2>3, ChainWithHead
  <2>7. LinkedBack(w.tbl, S \cup {t}, t)
    BY <1>1, <1>6, <2>1, <2>2, LinkedBackWithHead
  <2> QED
    BY <2>4, <2>5, <2>6, <2>7 DEF other
<1>12. SpokeOK(w.tbl, w.spokes, other, i)
  BY <1>7, <1>8, <1>9, <1>11 DEF SpokeOK
<1>13. ASSUME NEW j \in Spokes \ {i}
       PROVE  SpokeOK(w.tbl, w.spokes, other, j)
  <2>1. SpokeOK(tbl, spokes, rank, j) /\ OnSpoke(tbl, j) \in SUBSET Timers
    BY DEF OnSpoke
  <2>2. \A u \in OnSpoke(tbl, j) : u \in Timers \ {t} /\ u # first
    <3>1. \A u \in OnSpoke(tbl, j) : u \notin S /\ u # NULL
      BY NoTimerIsNull DEF OnSpoke
    <3>2. first = NULL \/ first \in S
      BY <1>3 DEF SpokeOK, Chained
    <3> QED
      BY <1>8, <2>1, <3>1, <3>2
  <2> HIDE DEF first, other
  <2>3. \A u \in OnSpoke(tbl, j) : /\ w.tbl[u].next = tbl[u].next /\ other[u] = rank[u]
                                   /\ w.tbl[u].prev = tbl[u].prev
    BY <1>6, <1>11, <2>2
  <2>4. /\ Chained(w.tbl, OnSpoke(tbl, j), spokes[j].first, other)
        /\ LinkedBack(w.tbl, OnSpoke(tbl, j), spokes[j].first)
    BY <1>6, <1>11, <2>1, <2>3, ChainStays DEF SpokeOK
  <2> QED
    BY <1>7, <1>8, <2>1, <2>4 DEF SpokeOK
<1>14. WheelOK(w.tbl, w.spokes, other)
  BY <1>6, <1>10, <1>11, <1>12, <1>13
<1> HIDE DEF other
<1> QED
  BY <1>6, <1>11, <1>14 DEF w, match

-----------------------------------------------------------------------------
(* The inductive invariant *)

\* The timer that the walk comes to next.
Saved ==
  CASE task.at = "walk" -> task.ptmr
    [] task.at = "callback" -> task.next
    [] OTHER -> NULL

FreeOK(tbl, first, rank) == Chained(tbl, UnusedIn(tbl), first, rank)

\* A timer that expires at this time is saved, or behind the one that is.
DueAhead(tbl, time, saved, rank) ==
  \A t \in Timers :
    tbl[t].state = "RUNNING" /\ tbl[t].match = time => saved # NULL /\ rank[saved] <= rank[t]

ListsInv ==
  \E rank \in Ranks :
    /\ WheelOK(OSTmrTbl, OSTmrWheelTbl, rank)
    /\ FreeOK(OSTmrTbl, OSTmrFreeList, rank)
    /\ DueAhead(OSTmrTbl, OSTmrTime, Saved, rank)

\* The walk saves only running timers of the spoke it walks.
WalkInv ==
  /\ task \in [at : {"wait", "signalled", "walk", "callback"}, ptmr : TimerPtrs,
               next : TimerPtrs]
  /\ task.at = "callback" => task.ptmr # NULL
  /\ Saved # NULL => Saved \in OnSpoke(OSTmrTbl, SpokeOf(OSTmrTime))

PoolInv ==
  /\ OSTmrFree = Cardinality(UnusedIn(OSTmrTbl))
  /\ OSTmrUsed = NumTimers - OSTmrFree

Planned(tmr) == tmr.opt \in {"PERIODIC", "ONE_SHOT"} /\ ValidPlan(tmr)

\* A timer in use keeps a plan that OSTmrCreate has validated.
PlanInv == \A t \in Timers : OSTmrTbl[t].state # "UNUSED" => Planned(OSTmrTbl[t])

TimersInv ==
  /\ ListsInv
  /\ WalkInv
  /\ PoolInv
  /\ PlanInv
  /\ OSTmrTime \in Times
  /\ OSTmrSemSignal \in 0..SignalMax

\* A wheel whose running timers stay as they are.
LEMMA WheelStays ==
  ASSUME NEW tbl, NEW spokes, NEW rank, WheelOK(tbl, spokes, rank),
         NEW new \in Tables, NEW other \in Ranks,
         \A u \in Timers :
           /\ new[u].state = "RUNNING" <=> tbl[u].state = "RUNNING"
           /\ tbl[u].state = "RUNNING" =>
                /\ new[u].match = tbl[u].match /\ new[u].next = tbl[u].next
                /\ new[u].prev = tbl[u].prev /\ other[u] = rank[u]
  PROVE  WheelOK(new, spokes, other)
<1> USE DEF WheelOK
<1>1. ASSUME NEW i \in Spokes
      PROVE  SpokeOK(new, spokes, other, i)
  <2> DEFINE S == OnSpoke(tbl, i)
  <2>1. SpokeOK(tbl, spokes, rank, i) /\ S \in SUBSET Timers /\ OnSpoke(new, i) = S
    BY DEF OnSpoke
  <2>2. \A u \in S : /\ new[u].next = tbl[u].next /\ other[u] = rank[u]
                     /\ new[u].prev = tbl[u].prev
    BY DEF OnSpoke
  <2> HIDE DEF S
  <2>3. Chained(new, S, spokes[i].first, other) /\ LinkedBack(new, S, spokes[i].first)
    BY <2>1, <2>2, ChainStays DEF SpokeOK, S
  <2> QED
    BY <2>1, <2>3 DEF SpokeOK, S
<1> QED
  BY <1>1

\* The wheel without t, wherever t was.
Off(tbl, spokes, t) ==
  IF tbl[t].state = "RUNNING" THEN OSTmr_Unlink([tbl |-> tbl, spokes |-> spokes], t)
  ELSE [tbl |-> tbl, spokes |-> spokes]

LEMMA OffWorks ==
  ASSUME NEW tbl, NEW spokes, NEW rank, WheelOK(tbl, spokes, rank), NEW t \in Timers
  PROVE  LET w == Off(tbl, spokes, t)
         IN  /\ WheelOK(w.tbl, w.spokes, rank)
             /\ w.tbl[t].state # "RUNNING"
             /\ tbl[t].state # "UNUSED" => w.tbl[t].state # "UNUSED"
             /\ \A u \in Timers : w.tbl[u].match = tbl[u].match /\ SamePlan(w.tbl[u], tbl[u])
             /\ \A u \in Timers \ {t} : w.tbl[u].state = tbl[u].state
             /\ \A u \in UnusedIn(tbl) : w.tbl[u].next = tbl[u].next
<1> DEFINE w == Off(tbl, spokes, t)
<1>1. CASE tbl[t].state = "RUNNING"
  <2>1. w = OSTmr_Unlink([tbl |-> tbl, spokes |-> spokes], t)
    BY <1>1 DEF Off
  <2>2. /\ WheelOK(w.tbl, w.spokes, rank)
        /\ w.tbl[t].state = "STOPPED"
        /\ \A u \in Timers : w.tbl[u].match = tbl[u].match /\ SamePlan(w.tbl[u], tbl[u])
        /\ \A u \in Timers \ {t} : w.tbl[u].state = tbl[u].state
        /\ \A u \in UnusedIn(tbl) : w.tbl[u].next = tbl[u].next
    BY <1>1, <2>1, UnlinkWorks
  <2> QED
    BY <2>2
<1>2. CASE tbl[t].state # "RUNNING"
  BY <1>2 DEF Off, SamePlan
<1> QED
  BY <1>1, <1>2

LEMMA SamePlanned ==
  ASSUME NEW a, NEW b, SamePlan(a, b), Planned(b)
  PROVE  Planned(a)
BY DEF SamePlan, Planned, ValidPlan

\* A timer that is linked is due after its delay, or a period, and never now.
LEMMA LinkedAhead ==
  ASSUME OSTmrTime \in Times, NEW tmr, Planned(tmr), NEW type,
         type = "PERIODIC" => tmr.opt = "PERIODIC"
  PROVE  LET d == IF type = "PERIODIC" \/ tmr.dly = 0 THEN tmr.period ELSE tmr.dly
         IN  /\ MatchTime(tmr, type) \in Times /\ MatchTime(tmr, type) # OSTmrTime
             /\ (MatchTime(tmr, type) - OSTmrTime) % TimeMod = d
<1> DEFINE d == IF type = "PERIODIC" \/ tmr.dly = 0 THEN tmr.period ELSE tmr.dly
<1>1. d \in 0..(TimeMod - 1) /\ d # 0 /\ OSTmrTime \in 0..(TimeMod - 1)
  BY DEF Planned, ValidPlan, Times
<1>2. MatchTime(tmr, type) = (OSTmrTime + d) % TimeMod
  BY DEF MatchTime, Later
<1> HIDE DEF d
<1>3. /\ (OSTmrTime + d) % TimeMod \in 0..(TimeMod - 1)
      /\ (OSTmrTime + d) % TimeMod # OSTmrTime
      /\ (((OSTmrTime + d) % TimeMod) - OSTmrTime) % TimeMod = d
  BY <1>1, TimersAssumption, CountsFrom
<1> QED
  BY <1>2, <1>3 DEF d, Times

LEMMA InitOK == Init => TimersInv
<1> SUFFICES ASSUME Init PROVE TimersInv
  OBVIOUS
<1> USE DEF Init
<1>1. /\ 0 \in Times /\ 0 \in 0..NumTimers /\ 0 \in 0..SignalMax /\ NULL \in TimerPtrs
      /\ \A t \in Timers : t < NumTimers => t + 1 \in Timers
      /\ 1 \in Timers /\ \A t \in Timers : t \in Int /\ 1 <= t /\ t <= NumTimers
  BY TimersAssumption DEF Times, TimerPtrs, Timers
<1>2. OSTmrTbl \in Tables
  <2>1. ASSUME NEW t \in Timers
        PROVE  OSTmrTbl[t] \in OS_TMR
    <3>1. (IF t < NumTimers THEN t + 1 ELSE NULL) \in TimerPtrs
      BY <1>1 DEF TimerPtrs
    <3> QED
      BY <1>1, <3>1 DEF OS_TMR
  <2> QED
    BY <2>1 DEF Tables
<1>3. OSTmrWheelTbl \in SpokeTables
  BY <1>1 DEF SpokeTables, OS_TMR_WHEEL
<1>4. \A t \in Timers : OSTmrTbl[t].state = "UNUSED"
  OBVIOUS
<1> DEFINE rank == [t \in Timers |-> t]
<1>5. rank \in Ranks
  BY <1>1 DEF Ranks
<1>6. ASSUME NEW i \in Spokes
      PROVE  SpokeOK(OSTmrTbl, OSTmrWheelTbl, rank, i)
  <2>1. OnSpoke(OSTmrTbl, i) = {}
    BY <1>4 DEF OnSpoke
  <2>2. Cardinality({}) = 0
    BY FS_EmptySet
  <2> QED
    BY <2>1, <2>2 DEF SpokeOK, Chained, LinkedBack
<1>7. WheelOK(OSTmrTbl, OSTmrWheelTbl, rank)
  BY <1>2, <1>3, <1>5, <1>6 DEF WheelOK
<1>8. UnusedIn(OSTmrTbl) = Timers
  BY <1>4 DEF UnusedIn
<1>9. FreeOK(OSTmrTbl, OSTmrFreeList, rank)
  <2>1. ASSUME NEW t \in Timers
        PROVE  NextInRank(t, OSTmrTbl[t].next, Timers, rank)
    <3>1. OSTmrTbl[t].next = IF t < NumTimers THEN t + 1 ELSE NULL
      OBVIOUS
    <3>2. CASE t < NumTimers
      <4>1. t + 1 \in Timers /\ t + 1 # NULL /\ \A v \in Timers : v <= t \/ t + 1 <= v
        BY <1>1, <3>2, NoTimerIsNull
      <4> QED
        BY <1>1, <3>1, <3>2, <4>1 DEF NextInRank
    <3>3. CASE ~(t < NumTimers)
      <4>1. \A v \in Timers : v <= t
        BY <1>1, <3>3, TimersAssumption
      <4> QED
        BY <3>1, <3>3, <4>1 DEF NextInRank
    <3> QED
      BY <3>2, <3>3
  <2>2. OSTmrFreeList = 1 /\ 1 # NULL /\ Timers # {} /\ \A t \in Timers : rank[1] <= rank[t]
    BY <1>1, NoTimerIsNull
  <2> HIDE DEF Init
  <2> QED
    BY <1>1, <1>8, <2>1, <2>2 DEF FreeOK, Chained
<1>10. DueAhead(OSTmrTbl, OSTmrTime, Saved, rank)
  BY <1>4 DEF DueAhead
<1>11. ListsInv
  BY <1>5, <1>7, <1>9, <1>10 DEF ListsInv
<1>12. WalkInv
  BY <1>1 DEF WalkInv, Saved, Waiting
<1>13. PoolInv
  <2>1. Cardinality(Timers) = NumTimers
    BY TimersAssumption, FS_Interval DEF Timers
  <2> QED
    BY <1>8, <2>1, TimersAssumption DEF PoolInv
<1>14. PlanInv
  BY <1>4 DEF PlanInv
<1> QED
  BY <1>1, <1>11, <1>12, <1>13, <1>14 DEF TimersInv

\* A call leaves the timer alone that is saved.
LEMMA CallsOffSaved ==
  ASSUME MayCallOnNext = FALSE, NEW t \in Timers, MayCall(t)
  PROVE  Saved # t
BY NoTimerIsNull DEF MayCall, Saved

LEMMA CreateStep ==
  ASSUME MayCallOnNext = FALSE, TimersInv, NEW t \in Timers, NEW k \in Plans,
         OSTmrCreate(t, k)
  PROVE  /\ TimersInv'
         /\ OSTmrTbl[t].state = "UNUSED" /\ OSTmrTbl'[t].state = "STOPPED"
         /\ SamePlan(OSTmrTbl'[t], k) /\ OnlyAt(OSTmrTbl', OSTmrTbl, t)
<1> USE DEF TimersInv
<1>1. PICK rank \in Ranks :
        /\ WheelOK(OSTmrTbl, OSTmrWheelTbl, rank)
        /\ FreeOK(OSTmrTbl, OSTmrFreeList, rank)
        /\ DueAhead(OSTmrTbl, OSTmrTime, Saved, rank)
  BY DEF ListsInv
<1>2. t = OSTmrFreeList /\ t \in UnusedIn(OSTmrTbl) /\ OSTmrTbl \in Tables
  BY <1>1, NoTimerIsNull DEF OSTmrCreate, OSTmr_Alloc, FreeOK, Chained, WheelOK
<1>3. k.opt \in {"PERIODIC", "ONE_SHOT"} /\ ValidPlan(k)
  BY TimersAssumption
<1>4. /\ OSTmrTbl' \in Tables
      /\ OSTmrTbl'[t].state = "STOPPED" /\ Planned(OSTmrTbl'[t]) /\ SamePlan(OSTmrTbl'[t], k)
      /\ \A u \in Timers \ {t} : OSTmrTbl'[u] = OSTmrTbl[u]
  <2>1. OSTmrTbl' = [OSTmrTbl EXCEPT ![t] =
           [@ EXCEPT !.state = "STOPPED", !.dly = k.dly, !.period = k.period, !.opt = k.opt,
                     !.callback = k.callback, !.next = NULL, !.prev = NULL]]
    BY DEF OSTmrCreate
  <2>2. OSTmrTbl[t] \in OS_TMR
    BY <1>2 DEF Tables
  <2>3. /\ OSTmrTbl'[t] = [OSTmrTbl[t] EXCEPT !.state = "STOPPED", !.dly = k.dly,
                              !.period = k.period, !.opt = k.opt, !.callback = k.callback,
                              !.next = NULL, !.prev = NULL]
        /\ \A u \in Timers \ {t} : OSTmrTbl'[u] = OSTmrTbl[u]
        /\ OSTmrTbl' = [u \in Timers |-> OSTmrTbl'[u]]
    BY <1>2, <2>1 DEF Tables
  <2>4. k.dly \in Times /\ k.period \in Times /\ k.callback \in BOOLEAN
    BY <1>3 DEF ValidPlan
  <2>5. OSTmrTbl'[t] \in OS_TMR
    BY <1>3, <2>2, <2>3, <2>4 DEF OS_TMR, TimerPtrs
  <2>6. /\ OSTmrTbl'[t].state = "STOPPED" /\ OSTmrTbl'[t].opt = k.opt
        /\ OSTmrTbl'[t].dly = k.dly /\ OSTmrTbl'[t].period = k.period
        /\ OSTmrTbl'[t].callback = k.callback
    BY <2>2, <2>3 DEF OS_TMR
  <2>7. Planned(OSTmrTbl'[t])
    BY <1>3, <2>6 DEF Planned, ValidPlan
  <2>8. OSTmrTbl' \in Tables
    BY <1>2, <2>3, <2>5 DEF Tables
  <2> QED
    BY <2>3, <2>6, <2>7, <2>8 DEF SamePlan
<1>5. UNCHANGED <<OSTmrWheelTbl, OSTmrTime, OSTmrSemSignal, task>> /\ OSTmr_Alloc(t)
  BY DEF OSTmrCreate, taskVars
<1>6. WheelOK(OSTmrTbl', OSTmrWheelTbl', rank)
  <2>1. OSTmrTbl[t].state # "RUNNING"
    BY <1>2 DEF UnusedIn
  <2> QED
    BY <1>1, <1>4, <1>5, <2>1, WheelStays
<1>7. UnusedIn(OSTmrTbl') = UnusedIn(OSTmrTbl) \ {t}
  BY <1>4 DEF UnusedIn
<1>8. FreeOK(OSTmrTbl', OSTmrFreeList', rank)
  <2> DEFINE S == UnusedIn(OSTmrTbl)
  <2>1. /\ S \in SUBSET Timers /\ t \in S /\ Chained(OSTmrTbl, S, t, rank)
        /\ OSTmrFreeList' = OSTmrTbl[t].next
    BY <1>1, <1>2, <1>5 DEF UnusedIn, FreeOK, OSTmr_Alloc
  <2>2. \A u \in S \ {t} : OSTmrTbl'[u].next = OSTmrTbl[u].next
    BY <1>4 DEF UnusedIn
  <2> HIDE DEF S
  <2>3. Chained(OSTmrTbl', S \ {t}, OSTmrTbl[t].next, rank)
    BY <1>2, <1>4, <2>1, <2>2, ChainWithoutHead
  <2> QED
    BY <1>7, <2>1, <2>3 DEF FreeOK, S
<1>9. Saved' = Saved
  BY <1>5 DEF Saved
<1>10. DueAhead(OSTmrTbl', OSTmrTime', Saved', rank)
  BY <1>1, <1>4, <1>5, <1>9 DEF DueAhead
<1>11. ListsInv'
  BY <1>6, <1>8, <1>10 DEF ListsInv
<1>12. WalkInv'
  <2>1. Saved # t
    BY CallsOffSaved DEF OSTmrCreate
  <2> QED
    BY <1>4, <1>5, <1>9, <2>1 DEF WalkInv, OnSpoke
<1>13. PoolInv'
  <2>1. Cardinality(UnusedIn(OSTmrTbl)) \in 0..NumTimers /\ IsFiniteSet(UnusedIn(OSTmrTbl))
    BY TimersCounted DEF UnusedIn
  <2>2. Cardinality(UnusedIn(OSTmrTbl) \ {t}) = Cardinality(UnusedIn(OSTmrTbl)) - 1
    BY <1>2, <2>1, FS_RemoveElement
  <2>3. NumTimers \in Nat
    BY TimersAssumption
  <2> QED
    BY <1>5, <1>7, <2>1, <2>2, <2>3 DEF PoolInv, OSTmr_Alloc
<1>14. PlanInv'
  BY <1>4 DEF PlanInv
<1>15. OnlyAt(OSTmrTbl', OSTmrTbl, t)
  BY <1>4 DEF OnlyAt, SamePlan
<1> QED
  BY <1>2, <1>4, <1>5, <1>11, <1>12, <1>13, <1>14, <1>15 DEF UnusedIn

\* What a call, or the timer task, finds: ranks for the lists, and t off its list.
LEMMA OffInTurn ==
  ASSUME NEW rank \in Ranks, WheelOK(OSTmrTbl, OSTmrWheelTbl, rank), PlanInv,
         NEW t \in Timers, OSTmrTbl[t].state # "UNUSED"
  PROVE  LET w == Off(OSTmrTbl, OSTmrWheelTbl, t)
         IN  /\ WheelOK(w.tbl, w.spokes, rank) /\ w.tbl \in Tables
             /\ w.tbl[t].state \notin {"RUNNING", "UNUSED"}
             /\ \A u \in Timers : /\ w.tbl[u].match = OSTmrTbl[u].match
                                 /\ SamePlan(w.tbl[u], OSTmrTbl[u])
             /\ \A u \in Timers : w.tbl[u].state # "UNUSED" => Planned(w.tbl[u])
             /\ \A u \in Timers \ {t} : w.tbl[u].state = OSTmrTbl[u].state
             /\ UnusedIn(w.tbl) = UnusedIn(OSTmrTbl) /\ t \notin UnusedIn(OSTmrTbl)
             /\ \A u \in UnusedIn(OSTmrTbl) : w.tbl[u].next = OSTmrTbl[u].next
<1> DEFINE w == Off(OSTmrTbl, OSTmrWheelTbl, t)
<1>1. /\ WheelOK(w.tbl, w.spokes, rank)
      /\ w.tbl[t].state # "RUNNING"
      /\ OSTmrTbl[t].state # "UNUSED" => w.tbl[t].state # "UNUSED"
      /\ \A u \in Timers : w.tbl[u].match = OSTmrTbl[u].match /\ SamePlan(w.tbl[u], OSTmrTbl[u])
      /\ \A u \in Timers \ {t} : w.tbl[u].state = OSTmrTbl[u].state
      /\ \A u \in UnusedIn(OSTmrTbl) : w.tbl[u].next = OSTmrTbl[u].next
  BY OffWorks
<1> HIDE DEF w
<1>2. ASSUME NEW u \in Timers, w.tbl[u].state # "UNUSED"
      PROVE  Planned(w.tbl[u])
  <2>1. Planned(OSTmrTbl[u])
    BY <1>1, <1>2 DEF PlanInv
  <2>2. SamePlan(w.tbl[u], OSTmrTbl[u])
    BY <1>1
  <2> QED
    BY <2>1, <2>2, SamePlanned
<1>3. UnusedIn(w.tbl) = UnusedIn(OSTmrTbl) /\ t \notin UnusedIn(OSTmrTbl)
  BY <1>1 DEF UnusedIn
<1>4. w.tbl \in Tables
  BY <1>1 DEF WheelOK
<1> QED
  BY <1>1, <1>2, <1>3, <1>4 DEF w

LEMMA DelStep ==
  ASSUME MayCallOnNext = FALSE, TimersInv, NEW t \in Timers, OSTmrDel(t)
  PROVE  /\ TimersInv'
         /\ OSTmrTbl[t].state # "UNUSED" /\ OSTmrTbl'[t].state = "UNUSED"
         /\ OnlyAt(OSTmrTbl', OSTmrTbl, t)
<1> USE DEF TimersInv
<1> DEFINE w == Off(OSTmrTbl, OSTmrWheelTbl, t)
           S == UnusedIn(OSTmrTbl)
<1>1. PICK rank \in Ranks :
        /\ WheelOK(OSTmrTbl, OSTmrWheelTbl, rank)
        /\ FreeOK(OSTmrTbl, OSTmrFreeList, rank)
        /\ DueAhead(OSTmrTbl, OSTmrTime, Saved, rank)
  BY DEF ListsInv
<1>2. OSTmrTbl[t].state # "UNUSED" /\ MayCall(t)
  BY DEF OSTmrDel
<1>3. /\ WheelOK(w.tbl, w.spokes, rank) /\ w.tbl \in Tables
      /\ w.tbl[t].state \notin {"RUNNING", "UNUSED"}
      /\ \A u \in Timers : /\ w.tbl[u].match = OSTmrTbl[u].match
                          /\ SamePlan(w.tbl[u], OSTmrTbl[u])
      /\ \A u \in Timers : w.tbl[u].state # "UNUSED" => Planned(w.tbl[u])
      /\ \A u \in Timers \ {t} : w.tbl[u].state = OSTmrTbl[u].state
      /\ UnusedIn(w.tbl) = UnusedIn(OSTmrTbl) /\ t \notin UnusedIn(OSTmrTbl)
      /\ \A u \in UnusedIn(OSTmrTbl) : w.tbl[u].next = OSTmrTbl[u].next
  BY <1>1, <1>2, OffInTurn
<1>4. /\ OSTmrTbl' = OSTmr_Free(w.tbl, t) /\ OSTmrWheelTbl' = w.spokes
      /\ OSTmrFreeList' = t /\ OSTmrUsed' = OSTmrUsed - 1 /\ OSTmrFree' = OSTmrFree + 1
      /\ UNCHANGED <<OSTmrTime, OSTmrSemSignal, task>>
  <2>1. SetWheel([w EXCEPT !.tbl = OSTmr_Free(@, t)])
    BY DEF OSTmrDel, Off, Wheel
  <2>2. w \in [tbl : {w.tbl}, spokes : {w.spokes}]
    BY DEF Off, OSTmr_Unlink
  <2> HIDE DEF w
  <2>3. OSTmrTbl' = OSTmr_Free(w.tbl, t) /\ OSTmrWheelTbl' = w.spokes
    BY <2>1, <2>2 DEF SetWheel
  <2> QED
    BY <2>3 DEF OSTmrDel, taskVars
<1> HIDE DEF w
<1>5. /\ OSTmrTbl' \in Tables
      /\ OSTmrTbl'[t].state = "UNUSED" /\ OSTmrTbl'[t].next = OSTmrFreeList
      /\ \A u \in Timers \ {t} : OSTmrTbl'[u] = w.tbl[u]
  <2>1. OSTmrTbl' = [w.tbl EXCEPT ![t] =
           [@ EXCEPT !.state = "UNUSED", !.opt = "NONE", !.period = 0, !.match = 0,
                     !.callback = FALSE, !.next = OSTmrFreeList, !.prev = NULL]]
    BY <1>4 DEF OSTmr_Free
  <2>2. w.tbl[t] \in OS_TMR
    BY <1>3 DEF Tables
  <2>3. /\ OSTmrTbl'[t] = [w.tbl[t] EXCEPT !.state = "UNUSED", !.opt = "NONE", !.period = 0,
                              !.match = 0, !.callback = FALSE, !.next = OSTmrFreeList,
                              !.prev = NULL]
        /\ \A u \in Timers \ {t} : OSTmrTbl'[u] = w.tbl[u]
        /\ OSTmrTbl' = [u \in Timers |-> OSTmrTbl'[u]]
    BY <1>3, <2>1 DEF Tables
  <2>4. 0 \in Times /\ OSTmrFreeList \in TimerPtrs /\ NULL \in TimerPtrs
    BY <1>1, TimersAssumption DEF Times, FreeOK, Chained, UnusedIn, TimerPtrs
  <2>5. OSTmrTbl'[t] \in OS_TMR
    BY <2>2, <2>3, <2>4 DEF OS_TMR
  <2>6. OSTmrTbl'[t].state = "UNUSED" /\ OSTmrTbl'[t].next = OSTmrFreeList
    BY <2>2, <2>3 DEF OS_TMR
  <2>7. OSTmrTbl' \in Tables
    BY <1>3, <2>3, <2>5 DEF Tables
  <2> QED
    BY <2>3, <2>6, <2>7
<1> DEFINE other == RankBefore(rank, t, OSTmrFreeList)
<1>6. UnusedIn(OSTmrTbl') = S \cup {t} /\ S \in SUBSET Timers
  BY <1>3, <1>5 DEF UnusedIn
<1>7. /\ other \in Ranks
      /\ \A u \in Timers \ {t} : other[u] = rank[u]
      /\ Chained(OSTmrTbl', S \cup {t}, t, other)
  <2>1. Chained(OSTmrTbl, S, OSTmrFreeList, rank) /\ OSTmrTbl \in Tables
    BY <1>1 DEF FreeOK, WheelOK
  <2>2. t \in Timers \ S /\ S \in SUBSET Timers
    BY <1>3, <1>6
  <2>3. \A u \in S : OSTmrTbl'[u].next = OSTmrTbl[u].next
    BY <1>3, <1>5, <1>6
  <2> HIDE DEF S, other
  <2>4. RankBefore(rank, t, OSTmrFreeList) \in Ranks
    BY <1>5, <2>1, <2>2, <2>3, ChainWithHead
  <2>5. \A u \in Timers \ {t} : RankBefore(rank, t, OSTmrFreeList)[u] = rank[u]
    BY DEF RankBefore, Ranks
  <2>6. Chained(OSTmrTbl', S \cup {t}, t, RankBefore(rank, t, OSTmrFreeList))
    BY <1>5, <2>1, <2>2, <2>3, ChainWithHead
  <2> QED
    BY <2>4, <2>5, <2>6 DEF other
<1>8. FreeOK(OSTmrTbl', OSTmrFreeList', other)
  BY <1>4, <1>6, <1>7 DEF FreeOK
<1> HIDE DEF other
<1>9. WheelOK(OSTmrTbl', OSTmrWheelTbl', other)
  BY <1>3, <1>4, <1>5, <1>7, WheelStays
<1>10. Saved' = Saved /\ Saved # t
  BY <1>2, <1>4, CallsOffSaved DEF Saved
<1>11. DueAhead(OSTmrTbl', OSTmrTime', Saved', other)
  <2>1. ASSUME NEW u \in Timers, OSTmrTbl'[u].state = "RUNNING", OSTmrTbl'[u].match = OSTmrTime
        PROVE  Saved # NULL /\ other[Saved] <= other[u]
    <3>1. u # t /\ OSTmrTbl[u].state = "RUNNING" /\ OSTmrTbl[u].match = OSTmrTime
      BY <1>3, <1>5, <2>1
    <3>2. Saved # NULL /\ rank[Saved] <= rank[u]
      BY <1>1, <3>1 DEF DueAhead
    <3>3. Saved \in Timers
      BY <3>2 DEF WalkInv, OnSpoke
    <3> QED
      BY <1>7, <1>10, <3>1, <3>2, <3>3
  <2> QED
    BY <1>4, <1>10, <2>1 DEF DueAhead
<1>12. ListsInv'
  BY <1>7, <1>8, <1>9, <1>11 DEF ListsInv
<1>13. WalkInv'
  BY <1>3, <1>4, <1>5, <1>10 DEF WalkInv, OnSpoke
<1>14. PoolInv'
  <2>1. IsFiniteSet(S) /\ Cardinality(S) \in 0..NumTimers
    BY <1>6, TimersCounted
  <2>2. Cardinality(S \cup {t}) = Cardinality(S) + 1
    BY <1>3, <2>1, FS_AddElement
  <2>3. NumTimers \in Nat
    BY TimersAssumption
  <2> QED
    BY <1>4, <1>6, <2>1, <2>2, <2>3 DEF PoolInv
<1>15. PlanInv'
  BY <1>3, <1>5 DEF PlanInv
<1>16. OnlyAt(OSTmrTbl', OSTmrTbl, t)
  BY <1>3, <1>5 DEF OnlyAt
<1> QED
  BY <1>2, <1>4, <1>5, <1>12, <1>13, <1>14, <1>15, <1>16

LEMMA StartStep ==
  ASSUME MayCallOnNext = FALSE, TimersInv, NEW t \in Timers, OSTmrStart(t)
  PROVE  /\ TimersInv'
         /\ OSTmrTbl[t].state # "UNUSED" /\ OSTmrTbl'[t].state = "RUNNING"
         /\ SamePlan(OSTmrTbl'[t], OSTmrTbl[t]) /\ OnlyAt(OSTmrTbl', OSTmrTbl, t)
         /\ (OSTmrTbl'[t].match - OSTmrTime) % TimeMod =
              IF OSTmrTbl[t].dly = 0 THEN OSTmrTbl[t].period ELSE OSTmrTbl[t].dly
<1> USE DEF TimersInv
<1> DEFINE w == Off(OSTmrTbl, OSTmrWheelTbl, t)
           v == OSTmr_Link(w, t, "DLY")
           S == UnusedIn(OSTmrTbl)
<1>1. PICK rank \in Ranks :
        /\ WheelOK(OSTmrTbl, OSTmrWheelTbl, rank)
        /\ FreeOK(OSTmrTbl, OSTmrFreeList, rank)
        /\ DueAhead(OSTmrTbl, OSTmrTime, Saved, rank)
  BY DEF ListsInv
<1>2. OSTmrTbl[t].state # "UNUSED" /\ MayCall(t)
  BY DEF OSTmrStart
<1>3. /\ WheelOK(w.tbl, w.spokes, rank) /\ w.tbl \in Tables
      /\ w.tbl[t].state \notin {"RUNNING", "UNUSED"}
      /\ \A u \in Timers : /\ w.tbl[u].match = OSTmrTbl[u].match
                          /\ SamePlan(w.tbl[u], OSTmrTbl[u])
      /\ \A u \in Timers : w.tbl[u].state # "UNUSED" => Planned(w.tbl[u])
      /\ \A u \in Timers \ {t} : w.tbl[u].state = OSTmrTbl[u].state
      /\ UnusedIn(w.tbl) = UnusedIn(OSTmrTbl) /\ t \notin UnusedIn(OSTmrTbl)
      /\ \A u \in UnusedIn(OSTmrTbl) : w.tbl[u].next = OSTmrTbl[u].next
  BY <1>1, <1>2, OffInTurn
<1>4. /\ OSTmrTbl' = v.tbl /\ OSTmrWheelTbl' = v.spokes
      /\ UNCHANGED <<OSTmrFreeList, OSTmrUsed, OSTmrFree, OSTmrTime, OSTmrSemSignal, task>>
  BY DEF OSTmrStart, Off, Wheel, SetWheel, poolVars, taskVars
<1>5. w = [tbl |-> w.tbl, spokes |-> w.spokes]
  BY DEF Off, OSTmr_Unlink
<1> HIDE DEF w
<1>6. v = OSTmr_Link([tbl |-> w.tbl, spokes |-> w.spokes], t, "DLY")
  BY <1>5
<1> HIDE DEF v
<1>7. /\ MatchTime(w.tbl[t], "DLY") \in Times
      /\ MatchTime(w.tbl[t], "DLY") # OSTmrTime
      /\ (MatchTime(w.tbl[t], "DLY") - OSTmrTime) % TimeMod =
           IF w.tbl[t].dly = 0 THEN w.tbl[t].period ELSE w.tbl[t].dly
  BY <1>3, LinkedAhead
<1>8. /\ \E other \in Ranks :
           /\ WheelOK(v.tbl, v.spokes, other)
           /\ \A u \in Timers \ {t} : other[u] = rank[u]
      /\ v.tbl[t].state = "RUNNING"
      /\ v.tbl[t].match = MatchTime(w.tbl[t], "DLY")
      /\ \A u \in Timers : SamePlan(v.tbl[u], w.tbl[u])
      /\ \A u \in Timers \ {t} :
           /\ v.tbl[u].state = w.tbl[u].state
           /\ v.tbl[u].match = w.tbl[u].match
           /\ v.tbl[u].next = w.tbl[u].next
  BY <1>3, <1>6, <1>7, LinkWorks
<1>9. PICK other \in Ranks :
        /\ WheelOK(OSTmrTbl', OSTmrWheelTbl', other)
        /\ \A u \in Timers \ {t} : other[u] = rank[u]
  BY <1>4, <1>8
<1>10. /\ OSTmrTbl'[t].state = "RUNNING" /\ OSTmrTbl'[t].match # OSTmrTime
       /\ \A u \in Timers \ {t} : /\ OSTmrTbl'[u].state = OSTmrTbl[u].state
                                  /\ OSTmrTbl'[u].match = OSTmrTbl[u].match
       /\ \A u \in S : OSTmrTbl'[u].next = OSTmrTbl[u].next
       /\ UnusedIn(OSTmrTbl') = S /\ S \in SUBSET Timers /\ t \notin S
  BY <1>3, <1>4, <1>7, <1>8 DEF UnusedIn
<1>11. FreeOK(OSTmrTbl', OSTmrFreeList', other)
  <2>1. Chained(OSTmrTbl, S, OSTmrFreeList, rank) /\ OSTmrTbl \in Tables /\ OSTmrTbl' \in Tables
    BY <1>1, <1>9 DEF FreeOK, WheelOK
  <2>2. \A u \in S : OSTmrTbl'[u].next = OSTmrTbl[u].next /\ other[u] = rank[u]
    BY <1>9, <1>10
  <2>3. Chained(OSTmrTbl', S, OSTmrFreeList, other)
    BY <1>10, <2>1, <2>2, ChainStays
  <2> QED
    BY <1>4, <1>10, <2>3 DEF FreeOK
<1>12. Saved' = Saved /\ Saved # t
  BY <1>2, <1>4, CallsOffSaved DEF Saved
<1>13. DueAhead(OSTmrTbl', OSTmrTime', Saved', other)
  <2>1. ASSUME NEW u \in Timers, OSTmrTbl'[u].state = "RUNNING", OSTmrTbl'[u].match = OSTmrTime
        PROVE  Saved # NULL /\ other[Saved] <= other[u]
    <3>1. u # t /\ OSTmrTbl[u].state = "RUNNING" /\ OSTmrTbl[u].match = OSTmrTime
      BY <1>10, <2>1
    <3>2. Saved # NULL /\ rank[Saved] <= rank[u]
      BY <1>1, <3>1 DEF DueAhead
    <3>3. Saved \in Timers
      BY <3>2 DEF WalkInv, OnSpoke
    <3> QED
      BY <1>9, <1>12, <3>1, <3>2, <3>3
  <2> QED
    BY <1>4, <1>12, <2>1 DEF DueAhead
<1>14. ListsInv'
  BY <1>9, <1>11, <1>13 DEF ListsInv
<1>15. WalkInv'
  BY <1>4, <1>10, <1>12 DEF WalkInv, OnSpoke
<1>16. PoolInv'
  BY <1>4, <1>10 DEF PoolInv
<1>17. PlanInv'
  <2>1. ASSUME NEW u \in Timers, OSTmrTbl'[u].state # "UNUSED"
        PROVE  Planned(OSTmrTbl'[u])
    <3>1. w.tbl[u].state # "UNUSED"
      BY <1>3, <1>4, <1>8, <2>1
    <3>2. Planned(w.tbl[u]) /\ SamePlan(OSTmrTbl'[u], w.tbl[u])
      BY <1>3, <1>4, <1>8, <3>1
    <3> QED
      BY <3>2, SamePlanned
  <2> QED
    BY <2>1 DEF PlanInv
<1>18. ASSUME NEW u \in Timers
       PROVE  SamePlan(OSTmrTbl'[u], OSTmrTbl[u])
  <2>1. SamePlan(OSTmrTbl'[u], w.tbl[u]) /\ SamePlan(w.tbl[u], OSTmrTbl[u])
    BY <1>3, <1>4, <1>8
  <2> QED
    BY <2>1 DEF SamePlan
<1>19. OnlyAt(OSTmrTbl', OSTmrTbl, t)
  BY <1>10, <1>18 DEF OnlyAt
<1>20. (OSTmrTbl'[t].match - OSTmrTime) % TimeMod =
         IF OSTmrTbl[t].dly = 0 THEN OSTmrTbl[t].period ELSE OSTmrTbl[t].dly
  BY <1>3, <1>4, <1>7, <1>8 DEF SamePlan
<1> QED
  BY <1>2, <1>4, <1>10, <1>14, <1>15, <1>16, <1>17, <1>18, <1>19, <1>20

LEMMA StopStep ==
  ASSUME MayCallOnNext = FALSE, TimersInv, NEW t \in Timers, OSTmrStop(t)
  PROVE  /\ TimersInv'
         /\ OSTmrTbl[t].state = "RUNNING" /\ OSTmrTbl'[t].state = "STOPPED"
         /\ SamePlan(OSTmrTbl'[t], OSTmrTbl[t]) /\ OnlyAt(OSTmrTbl', OSTmrTbl, t)
<1> USE DEF TimersInv
<1> DEFINE w == Off(OSTmrTbl, OSTmrWheelTbl, t)
           S == UnusedIn(OSTmrTbl)
<1>1. PICK rank \in Ranks :
        /\ WheelOK(OSTmrTbl, OSTmrWheelTbl, rank)
        /\ FreeOK(OSTmrTbl, OSTmrFreeList, rank)
        /\ DueAhead(OSTmrTbl, OSTmrTime, Saved, rank)
  BY DEF ListsInv
<1>2. OSTmrTbl[t].state = "RUNNING" /\ MayCall(t)
  BY DEF OSTmrStop
<1>3. /\ WheelOK(w.tbl, w.spokes, rank) /\ w.tbl \in Tables
      /\ w.tbl[t].state \notin {"RUNNING", "UNUSED"}
      /\ \A u \in Timers : /\ w.tbl[u].match = OSTmrTbl[u].match
                          /\ SamePlan(w.tbl[u], OSTmrTbl[u])
      /\ \A u \in Timers : w.tbl[u].state # "UNUSED" => Planned(w.tbl[u])
      /\ \A u \in Timers \ {t} : w.tbl[u].state = OSTmrTbl[u].state
      /\ UnusedIn(w.tbl) = UnusedIn(OSTmrTbl) /\ t \notin UnusedIn(OSTmrTbl)
      /\ \A u \in UnusedIn(OSTmrTbl) : w.tbl[u].next = OSTmrTbl[u].next
  BY <1>1, <1>2, OffInTurn
<1>4. /\ OSTmrTbl' = w.tbl /\ OSTmrWheelTbl' = w.spokes
      /\ UNCHANGED <<OSTmrFreeList, OSTmrUsed, OSTmrFree, OSTmrTime, OSTmrSemSignal, task>>
  BY <1>2 DEF OSTmrStop, Off, Wheel, SetWheel, poolVars, taskVars
<1> HIDE DEF w
<1>5. FreeOK(OSTmrTbl', OSTmrFreeList', rank)
  <2>1. Chained(OSTmrTbl, S, OSTmrFreeList, rank) /\ OSTmrTbl \in Tables /\ S \in SUBSET Timers
    BY <1>1 DEF FreeOK, WheelOK, UnusedIn
  <2>2. Chained(w.tbl, S, OSTmrFreeList, rank)
    BY <1>3, <2>1, ChainStays
  <2> QED
    BY <1>3, <1>4, <2>2 DEF FreeOK
<1>6. Saved' = Saved /\ Saved # t
  BY <1>2, <1>4, CallsOffSaved DEF Saved
<1>7. DueAhead(OSTmrTbl', OSTmrTime', Saved', rank)
  BY <1>1, <1>3, <1>4, <1>6 DEF DueAhead
<1>8. ListsInv'
  BY <1>1, <1>3, <1>4, <1>5, <1>7 DEF ListsInv
<1>9. WalkInv'
  BY <1>3, <1>4, <1>6 DEF WalkInv, OnSpoke
<1>10. PoolInv'
  BY <1>3, <1>4 DEF PoolInv
<1>11. PlanInv'
  BY <1>3, <1>4 DEF PlanInv
<1>12. OnlyAt(OSTmrTbl', OSTmrTbl, t)
  BY <1>3, <1>4 DEF OnlyAt
<1>13. OSTmrTbl'[t].state = "STOPPED"
  BY <1>1, <1>2, <1>4, UnlinkWorks DEF w, Off
<1> QED
  BY <1>2, <1>3, <1>4, <1>8, <1>9, <1>10, <1>11, <1>12, <1>13

\* The timer task takes no timer off its list.
LEMMA WalkStep ==
  ASSUME TimersInv, OSTmrSignal \/ BeginSpoke \/ SkipTimer \/ CallbackReturns \/ EndSpoke
  PROVE  TimersInv'
<1> USE DEF TimersInv
<1>1. PICK rank \in Ranks :
        /\ WheelOK(OSTmrTbl, OSTmrWheelTbl, rank)
        /\ FreeOK(OSTmrTbl, OSTmrFreeList, rank)
        /\ DueAhead(OSTmrTbl, OSTmrTime, Saved, rank)
  BY DEF ListsInv
<1>2. UNCHANGED <<OSTmrTbl, OSTmrWheelTbl, OSTmrFreeList, OSTmrUsed, OSTmrFree>>
  BY DEF OSTmrSignal, BeginSpoke, SkipTimer, CallbackReturns, EndSpoke, poolVars
<1>3. PoolInv' /\ PlanInv'
  BY <1>2 DEF PoolInv, PlanInv
<1>4. WheelOK(OSTmrTbl', OSTmrWheelTbl', rank) /\ FreeOK(OSTmrTbl', OSTmrFreeList', rank)
  BY <1>1, <1>2
<1>5. SUFFICES /\ DueAhead(OSTmrTbl, OSTmrTime', Saved', rank)
               /\ WalkInv'
               /\ OSTmrTime' \in Times
               /\ OSTmrSemSignal' \in 0..SignalMax
  BY <1>1, <1>2, <1>3, <1>4 DEF ListsInv
<1>6. SignalMax \in Nat
  BY TimersAssumption
<1>7. CASE OSTmrSignal
  <2>1. Saved' = Saved /\ OSTmrTime' = OSTmrTime
    BY <1>7 DEF OSTmrSignal, Saved, Signalled
  <2>2. WalkInv'
    BY <1>2, <1>7, <2>1 DEF OSTmrSignal, WalkInv, Signalled, TimerPtrs
  <2>3. OSTmrSemSignal' \in 0..SignalMax
    BY <1>6, <1>7 DEF OSTmrSignal
  <2> QED
    BY <1>1, <2>1, <2>2, <2>3
<1>8. CASE BeginSpoke
  <2> DEFINE i == SpokeOf(OSTmrTime')
             first == OSTmrWheelTbl[i].first
  <2>1. /\ OSTmrTime' = (OSTmrTime + 1) % TimeMod
        /\ task' = [at |-> "walk", ptmr |-> first, next |-> NULL]
        /\ OSTmrSemSignal' = OSTmrSemSignal
    BY <1>8 DEF BeginSpoke, Later
  <2>2. OSTmrTime' \in Times
    BY <2>1, TimersAssumption DEF Times
  <2>3. i \in Spokes
    BY <2>2, SpokeOfTime
  <2>4. /\ OSTmrWheelTbl[i] \in OS_TMR_WHEEL
        /\ Chained(OSTmrTbl, OnSpoke(OSTmrTbl, i), first, rank)
    BY <1>1, <2>3 DEF WheelOK, SpokeOK, SpokeTables
  <2>5. Saved' = first /\ first \in TimerPtrs
    BY <2>1, <2>4 DEF Saved, OS_TMR_WHEEL
  <2>6. first # NULL => first \in OnSpoke(OSTmrTbl, i)
    BY <2>4 DEF Chained
  <2>7. DueAhead(OSTmrTbl, OSTmrTime', first, rank)
    <3> SUFFICES ASSUME NEW u \in Timers, OSTmrTbl[u].state = "RUNNING",
                        OSTmrTbl[u].match = OSTmrTime'
                 PROVE  first # NULL /\ rank[first] <= rank[u]
      BY DEF DueAhead
    <3>1. u \in OnSpoke(OSTmrTbl, i)
      BY DEF OnSpoke
    <3> QED
      BY <2>4, <3>1 DEF Chained
  <2>8. WalkInv'
    BY <1>2, <2>1, <2>5, <2>6 DEF WalkInv, TimerPtrs
  <2> QED
    BY <2>1, <2>2, <2>5, <2>7, <2>8
<1>9. CASE SkipTimer
  <2> DEFINE t == task.ptmr
             i == SpokeOf(OSTmrTime)
             next == OSTmrTbl[t].next
  <2>1. /\ task.at = "walk" /\ t # NULL /\ OSTmrTbl[t].match # OSTmrTime
        /\ task' = [task EXCEPT !.ptmr = next]
        /\ OSTmrTime' = OSTmrTime /\ OSTmrSemSignal' = OSTmrSemSignal
    BY <1>9 DEF SkipTimer
  <2>2. Saved = t /\ t \in OnSpoke(OSTmrTbl, i)
    BY <2>1 DEF Saved, WalkInv
  <2>3. i \in Spokes /\ t \in Timers
    BY <2>2, TimersAssumption DEF SpokeOf, Spokes, Times, OnSpoke
  <2>4. /\ NextInRank(t, next, OnSpoke(OSTmrTbl, i), rank)
        /\ \A u \in OnSpoke(OSTmrTbl, i) : rank[u] = rank[t] => u = t
    BY <1>1, <2>2, <2>3 DEF WheelOK, SpokeOK, Chained
  <2>5. next \in TimerPtrs /\ (next # NULL => next \in OnSpoke(OSTmrTbl, i))
    BY <2>4 DEF NextInRank, OnSpoke, TimerPtrs
  <2>6. Saved' = next /\ task' \in [at : {"wait", "signalled", "walk", "callback"},
                                     ptmr : TimerPtrs, next : TimerPtrs] /\ task'.at = "walk"
    BY <2>1, <2>5 DEF Saved, WalkInv
  <2>7. DueAhead(OSTmrTbl, OSTmrTime, next, rank)
    <3> SUFFICES ASSUME NEW u \in Timers, OSTmrTbl[u].state = "RUNNING",
                        OSTmrTbl[u].match = OSTmrTime
                 PROVE  next # NULL /\ rank[next] <= rank[u]
      BY DEF DueAhead
    <3>1. u \in OnSpoke(OSTmrTbl, i) /\ rank[t] <= rank[u] /\ u # t
      BY <1>1, <2>1, <2>2 DEF OnSpoke, DueAhead
    <3>2. rank[t] \in Int /\ rank[u] \in Int /\ rank[t] # rank[u]
      BY <2>3, <2>4, <3>1 DEF Ranks
    <3> QED
      BY <2>4, <3>1, <3>2 DEF NextInRank
  <2> HIDE DEF next
  <2>8. WalkInv'
    BY <1>2, <2>1, <2>5, <2>6 DEF WalkInv
  <2> QED
    BY <2>1, <2>6, <2>7, <2>8
<1>10. CASE CallbackReturns
  <2>1. Saved' = Saved /\ OSTmrTime' = OSTmrTime /\ OSTmrSemSignal' = OSTmrSemSignal
    BY <1>10 DEF CallbackReturns, Saved
  <2>2. WalkInv'
    BY <1>2, <1>10, <2>1 DEF CallbackReturns, WalkInv, TimerPtrs
  <2> QED
    BY <1>1, <2>1, <2>2
<1>11. CASE EndSpoke
  <2>1. Saved = NULL /\ Saved' = NULL /\ OSTmrTime' = OSTmrTime
    BY <1>11 DEF EndSpoke, Saved, Signalled, Waiting
  <2>2. WalkInv'
    BY <1>2, <1>11, <2>1 DEF EndSpoke, WalkInv, Signalled, Waiting, TimerPtrs
  <2>3. OSTmrSemSignal' \in 0..SignalMax
    BY <1>6, <1>11 DEF EndSpoke
  <2> QED
    BY <1>1, <2>1, <2>2, <2>3
<1> QED
  BY <1>7, <1>8, <1>9, <1>10, <1>11

\* The wheel once t has expired: t on the list of another time, or on none.
LEMMA ExpiredWorks ==
  ASSUME OSTmrTime \in Times, PlanInv,
         NEW rank \in Ranks, WheelOK(OSTmrTbl, OSTmrWheelTbl, rank),
         NEW t \in Timers, OSTmrTbl[t].state = "RUNNING"
  PROVE  LET v == Expired(t)
         IN  /\ \E other \in Ranks : /\ WheelOK(v.tbl, v.spokes, other)
                                     /\ \A u \in Timers \ {t} : other[u] = rank[u]
             /\ \A u \in Timers : SamePlan(v.tbl[u], OSTmrTbl[u])
             /\ IF OSTmrTbl[t].opt = "PERIODIC"
                THEN /\ v.tbl[t].state = "RUNNING" /\ v.tbl[t].match # OSTmrTime
                     /\ (v.tbl[t].match - OSTmrTime) % TimeMod = OSTmrTbl[t].period
                ELSE v.tbl[t].state = "COMPLETED"
             /\ \A u \in Timers \ {t} : /\ v.tbl[u].state = OSTmrTbl[u].state
                                        /\ v.tbl[u].match = OSTmrTbl[u].match
             /\ \A u \in UnusedIn(OSTmrTbl) : v.tbl[u].next = OSTmrTbl[u].next
<1> DEFINE w == OSTmr_Unlink(Wheel, t)
           v == Expired(t)
<1>1. /\ WheelOK(w.tbl, w.spokes, rank)
      /\ w.tbl[t].state = "STOPPED"
      /\ \A u \in Timers : w.tbl[u].match = OSTmrTbl[u].match /\ SamePlan(w.tbl[u], OSTmrTbl[u])
      /\ \A u \in Timers \ {t} : w.tbl[u].state = OSTmrTbl[u].state
      /\ \A u \in UnusedIn(OSTmrTbl) : w.tbl[u].next = OSTmrTbl[u].next
  BY UnlinkWorks DEF Wheel
<1>2. v = IF OSTmrTbl[t].opt = "PERIODIC" THEN OSTmr_Link(w, t, "PERIODIC")
          ELSE [w EXCEPT !.tbl[t].state = "COMPLETED"]
  BY DEF Expired
<1>3. w = [tbl |-> w.tbl, spokes |-> w.spokes]
  BY DEF OSTmr_Unlink
<1> HIDE DEF w, v
<1>4. w.tbl \in Tables /\ t \notin UnusedIn(OSTmrTbl) /\ SamePlan(w.tbl[t], OSTmrTbl[t])
  BY <1>1 DEF WheelOK, UnusedIn
<1>5. CASE OSTmrTbl[t].opt = "PERIODIC"
  <2>1. v = OSTmr_Link([tbl |-> w.tbl, spokes |-> w.spokes], t, "PERIODIC")
    BY <1>2, <1>3, <1>5
  <2>2. Planned(OSTmrTbl[t])
    BY DEF PlanInv
  <2>3. Planned(w.tbl[t]) /\ w.tbl[t].opt = "PERIODIC" /\ w.tbl[t].period = OSTmrTbl[t].period
    BY <1>4, <1>5, <2>2, SamePlanned DEF SamePlan
  <2>4. /\ MatchTime(w.tbl[t], "PERIODIC") \in Times
        /\ MatchTime(w.tbl[t], "PERIODIC") # OSTmrTime
        /\ (MatchTime(w.tbl[t], "PERIODIC") - OSTmrTime) % TimeMod = w.tbl[t].period
    BY <2>3, LinkedAhead
  <2>5. /\ \E other \in Ranks :
             /\ WheelOK(v.tbl, v.spokes, other)
             /\ \A u \in Timers \ {t} : other[u] = rank[u]
        /\ v.tbl[t].state = "RUNNING"
        /\ v.tbl[t].match = MatchTime(w.tbl[t], "PERIODIC")
        /\ \A u \in Timers : SamePlan(v.tbl[u], w.tbl[u])
        /\ \A u \in Timers \ {t} :
             /\ v.tbl[u].state = w.tbl[u].state
             /\ v.tbl[u].match = w.tbl[u].match
             /\ v.tbl[u].next = w.tbl[u].next
    BY <1>1, <2>1, <2>4, LinkWorks
  <2>6. ASSUME NEW u \in Timers
        PROVE  SamePlan(v.tbl[u], OSTmrTbl[u])
    <3>1. SamePlan(v.tbl[u], w.tbl[u]) /\ SamePlan(w.tbl[u], OSTmrTbl[u])
      BY <1>1, <2>5
    <3> QED
      BY <3>1 DEF SamePlan
  <2>7. \A u \in Timers \ {t} : /\ v.tbl[u].state = OSTmrTbl[u].state
                                /\ v.tbl[u].match = OSTmrTbl[u].match
    BY <1>1, <2>5
  <2>8. \A u \in UnusedIn(OSTmrTbl) : v.tbl[u].next = OSTmrTbl[u].next
    BY <1>1, <1>4, <2>5 DEF UnusedIn
  <2> QED
    BY <1>5, <2>3, <2>4, <2>5, <2>6, <2>7, <2>8 DEF v
<1>6. CASE OSTmrTbl[t].opt # "PERIODIC"
  <2>1. v = [w EXCEPT !.tbl[t].state = "COMPLETED"]
    BY <1>2, <1>6
  <2>2. v.tbl = [w.tbl EXCEPT ![t].state = "COMPLETED"] /\ v.spokes = w.spokes
    BY <1>3, <2>1
  <2>3. w.tbl[t] \in OS_TMR
    BY <1>4 DEF Tables
  <2>4. /\ v.tbl[t] = [w.tbl[t] EXCEPT !.state = "COMPLETED"]
        /\ \A u \in Timers \ {t} : v.tbl[u] = w.tbl[u]
        /\ v.tbl = [u \in Timers |-> v.tbl[u]]
    BY <1>4, <2>2 DEF Tables
  <2>5. v.tbl[t] \in OS_TMR /\ v.tbl[t].state = "COMPLETED" /\ SamePlan(v.tbl[t], w.tbl[t])
    BY <2>3, <2>4 DEF OS_TMR, SamePlan
  <2>6. v.tbl \in Tables
    BY <1>4, <2>4, <2>5 DEF Tables
  <2>7. WheelOK(v.tbl, v.spokes, rank)
    <3>1. PICK other \in Ranks : other = rank
      OBVIOUS
    <3>2. \A u \in Timers :
             /\ v.tbl[u].state = "RUNNING" <=> w.tbl[u].state = "RUNNING"
             /\ w.tbl[u].state = "RUNNING" =>
                  /\ v.tbl[u].match = w.tbl[u].match /\ v.tbl[u].next = w.tbl[u].next
                  /\ v.tbl[u].prev = w.tbl[u].prev /\ other[u] = rank[u]
      BY <1>1, <2>4, <2>5, <3>1
    <3>3. WheelOK(v.tbl, w.spokes, other)
      BY <1>1, <2>6, <3>2, WheelStays
    <3> QED
      BY <2>2, <3>1, <3>3
  <2>8. ASSUME NEW u \in Timers
        PROVE  SamePlan(v.tbl[u], OSTmrTbl[u])
    <3>1. SamePlan(v.tbl[u], w.tbl[u]) /\ SamePlan(w.tbl[u], OSTmrTbl[u])
      BY <1>1, <2>4, <2>5 DEF SamePlan
    <3> QED
      BY <3>1 DEF SamePlan
  <2>9. /\ \A u \in Timers \ {t} : /\ v.tbl[u].state = OSTmrTbl[u].state
                                   /\ v.tbl[u].match = OSTmrTbl[u].match
        /\ \A u \in UnusedIn(OSTmrTbl) : v.tbl[u].next = OSTmrTbl[u].next
    BY <1>1, <1>4, <2>4 DEF UnusedIn
  <2> QED
    BY <1>6, <2>5, <2>7, <2>8, <2>9 DEF v
<1> QED
  BY <1>5, <1>6

LEMMA ExpireStep ==
  ASSUME TimersInv, ExpireTimer
  PROVE  LET t == task.ptmr
         IN  /\ TimersInv'
             /\ task.at = "walk" /\ t \in Timers /\ OSTmrTbl[t].state = "RUNNING"
             /\ OSTmrTbl[t].match = OSTmrTime /\ OSTmrTime' = OSTmrTime
             /\ SamePlan(OSTmrTbl'[t], OSTmrTbl[t]) /\ OnlyAt(OSTmrTbl', OSTmrTbl, t)
             /\ IF OSTmrTbl[t].opt = "PERIODIC"
                THEN /\ OSTmrTbl'[t].state = "RUNNING"
                     /\ (OSTmrTbl'[t].match - OSTmrTime) % TimeMod = OSTmrTbl[t].period
                ELSE OSTmrTbl'[t].state = "COMPLETED"
<1> USE DEF TimersInv
<1> DEFINE t == task.ptmr
           i == SpokeOf(OSTmrTime)
           S == OnSpoke(OSTmrTbl, i)
           F == UnusedIn(OSTmrTbl)
           next == OSTmrTbl[t].next
           v == Expired(t)
<1>1. PICK rank \in Ranks :
        /\ WheelOK(OSTmrTbl, OSTmrWheelTbl, rank)
        /\ FreeOK(OSTmrTbl, OSTmrFreeList, rank)
        /\ DueAhead(OSTmrTbl, OSTmrTime, Saved, rank)
  BY DEF ListsInv
<1>2. /\ task.at = "walk" /\ t # NULL /\ OSTmrTbl[t].match = OSTmrTime
      /\ OSTmrTbl' = v.tbl /\ OSTmrWheelTbl' = v.spokes
      /\ task' = IF OSTmrTbl[t].callback
                 THEN [at |-> "callback", ptmr |-> t, next |-> next]
                 ELSE [task EXCEPT !.ptmr = next]
      /\ UNCHANGED <<OSTmrFreeList, OSTmrUsed, OSTmrFree, OSTmrTime, OSTmrSemSignal>>
  BY DEF ExpireTimer, SetWheel, poolVars
<1>3. Saved = t /\ t \in S /\ t \in Timers /\ OSTmrTbl[t].state = "RUNNING"
  BY <1>2 DEF Saved, WalkInv, OnSpoke
<1>4. /\ \E other \in Ranks : /\ WheelOK(v.tbl, v.spokes, other)
                              /\ \A u \in Timers \ {t} : other[u] = rank[u]
      /\ \A u \in Timers : SamePlan(v.tbl[u], OSTmrTbl[u])
      /\ IF OSTmrTbl[t].opt = "PERIODIC"
         THEN /\ v.tbl[t].state = "RUNNING" /\ v.tbl[t].match # OSTmrTime
              /\ (v.tbl[t].match - OSTmrTime) % TimeMod = OSTmrTbl[t].period
         ELSE v.tbl[t].state = "COMPLETED"
      /\ \A u \in Timers \ {t} : /\ v.tbl[u].state = OSTmrTbl[u].state
                                 /\ v.tbl[u].match = OSTmrTbl[u].match
      /\ \A u \in UnusedIn(OSTmrTbl) : v.tbl[u].next = OSTmrTbl[u].next
  BY <1>1, <1>3, ExpiredWorks
<1> HIDE DEF v
<1>5. PICK other \in Ranks : /\ WheelOK(OSTmrTbl', OSTmrWheelTbl', other)
                             /\ \A u \in Timers \ {t} : other[u] = rank[u]
  BY <1>2, <1>4
<1>6. /\ OSTmrTbl'[t].state # "UNUSED"
      /\ OSTmrTbl'[t].state = "RUNNING" => OSTmrTbl'[t].match # OSTmrTime
      /\ \A u \in Timers \ {t} : /\ OSTmrTbl'[u].state = OSTmrTbl[u].state
                                 /\ OSTmrTbl'[u].match = OSTmrTbl[u].match
      /\ \A u \in F : OSTmrTbl'[u].next = OSTmrTbl[u].next
      /\ UnusedIn(OSTmrTbl') = F /\ F \in SUBSET Timers /\ t \notin F
  BY <1>2, <1>3, <1>4 DEF UnusedIn
<1>7. FreeOK(OSTmrTbl', OSTmrFreeList', other)
  <2>1. Chained(OSTmrTbl, F, OSTmrFreeList, rank) /\ OSTmrTbl \in Tables /\ OSTmrTbl' \in Tables
    BY <1>1, <1>5 DEF FreeOK, WheelOK
  <2>2. \A u \in F : OSTmrTbl'[u].next = OSTmrTbl[u].next /\ other[u] = rank[u]
    BY <1>5, <1>6
  <2> HIDE DEF F, t
  <2>3. Chained(OSTmrTbl', F, OSTmrFreeList, other)
    BY <1>6, <2>1, <2>2, ChainStays
  <2> QED
    BY <1>2, <1>6, <2>3 DEF FreeOK
<1>8. /\ NextInRank(t, next, S, rank)
      /\ \A u \in S : rank[u] = rank[t] => u = t
  <2>1. i \in Spokes
    BY SpokeOfTime
  <2> QED
    BY <1>1, <1>3, <2>1 DEF WheelOK, SpokeOK, Chained
<1>9. rank[t] \in Int /\ \A u \in S : rank[u] \in Int
  BY <1>3 DEF Ranks, OnSpoke
<1>10. next \in TimerPtrs /\ next # t /\ (next # NULL => next \in S /\ next \in Timers)
  BY <1>3, <1>8, <1>9, NoTimerIsNull DEF NextInRank, OnSpoke, TimerPtrs
<1>11. Saved' = next
  BY <1>2 DEF Saved, WalkInv
<1>12. DueAhead(OSTmrTbl', OSTmrTime', Saved', other)
  <2>1. ASSUME NEW u \in Timers, OSTmrTbl'[u].state = "RUNNING", OSTmrTbl'[u].match = OSTmrTime
        PROVE  next # NULL /\ other[next] <= other[u]
    <3>1. u # t /\ OSTmrTbl[u].state = "RUNNING" /\ OSTmrTbl[u].match = OSTmrTime
      BY <1>6, <2>1
    <3>2. rank[t] <= rank[u] /\ u \in S
      BY <1>1, <1>3, <3>1 DEF DueAhead, OnSpoke
    <3>3. next # NULL /\ rank[next] <= rank[u]
      BY <1>8, <1>9, <3>1, <3>2 DEF NextInRank
    <3> QED
      BY <1>5, <1>10, <3>1, <3>3
  <2> QED
    BY <1>2, <1>11, <2>1 DEF DueAhead
<1>13. ListsInv'
  BY <1>5, <1>7, <1>12 DEF ListsInv
<1>14. WalkInv'
  <2>1. next # NULL => next \in OnSpoke(OSTmrTbl', SpokeOf(OSTmrTime'))
    BY <1>2, <1>6, <1>10 DEF OnSpoke
  <2> HIDE DEF next
  <2>2. /\ task' \in [at : {"wait", "signalled", "walk", "callback"}, ptmr : TimerPtrs,
                      next : TimerPtrs]
        /\ task'.at = "callback" => task'.ptmr # NULL
    BY <1>2, <1>3, <1>10 DEF WalkInv, TimerPtrs
  <2> QED
    BY <1>11, <2>1, <2>2 DEF WalkInv
<1>15. PoolInv'
  BY <1>2, <1>6 DEF PoolInv
<1>16. PlanInv'
  <2>1. ASSUME NEW u \in Timers, OSTmrTbl'[u].state # "UNUSED"
        PROVE  Planned(OSTmrTbl'[u])
    <3>1. Planned(OSTmrTbl[u]) /\ SamePlan(OSTmrTbl'[u], OSTmrTbl[u])
      BY <1>2, <1>3, <1>4, <1>6, <2>1 DEF PlanInv
    <3> QED
      BY <3>1, SamePlanned
  <2> QED
    BY <2>1 DEF PlanInv
<1>17. OnlyAt(OSTmrTbl', OSTmrTbl, t)
  BY <1>2, <1>4, <1>6 DEF OnlyAt
<1> QED
  BY <1>2, <1>3, <1>4, <1>13, <1>14, <1>15, <1>16, <1>17

\* Whatever is created, started, stopped and deleted, also by the callbacks, every
\* timer is in one list, and no walk passes one that is due.
THEOREM TimersInOrder ==
  ASSUME MayCallOnNext = FALSE
  PROVE  Spec => []TimersInv
<1>1. Init => TimersInv
  BY InitOK
<1>2. TimersInv /\ [Next]_vars => TimersInv'
  <2> SUFFICES ASSUME TimersInv, [Next]_vars
               PROVE  TimersInv'
    OBVIOUS
  <2>1. ASSUME NEW t \in Timers, OSTmrDel(t)
        PROVE  TimersInv'
    BY <2>1, DelStep
  <2>2. ASSUME NEW t \in Timers, OSTmrStart(t)
        PROVE  TimersInv'
    BY <2>2, StartStep
  <2>3. ASSUME NEW t \in Timers, OSTmrStop(t)
        PROVE  TimersInv'
    BY <2>3, StopStep
  <2>4. ASSUME NEW t \in Timers, NEW k \in Plans, OSTmrCreate(t, k)
        PROVE  TimersInv'
    BY <2>4, CreateStep
  <2>5. CASE OSTmrSignal \/ BeginSpoke \/ SkipTimer \/ CallbackReturns \/ EndSpoke
    BY <2>5, WalkStep
  <2>6. CASE ExpireTimer
    BY <2>6, ExpireStep
  <2>7. CASE UNCHANGED vars
    BY <2>7 DEF vars, TimersInv, ListsInv, WalkInv, PoolInv, PlanInv, Saved
  <2> QED
    BY <2>1, <2>2, <2>3, <2>4, <2>5, <2>6, <2>7 DEF Next, OSTmr_Task
<1> QED
  BY <1>1, <1>2, PTL DEF Spec

THEOREM TimersTypes ==
  ASSUME MayCallOnNext = FALSE
  PROVE  Spec => []TypeOK
<1>1. TimersInv => TypeOK
  <2> SUFFICES ASSUME TimersInv PROVE TypeOK
    OBVIOUS
  <2>1. PICK rank \in Ranks :
          WheelOK(OSTmrTbl, OSTmrWheelTbl, rank) /\ FreeOK(OSTmrTbl, OSTmrFreeList, rank)
    BY DEF TimersInv, ListsInv
  <2>2. OSTmrTbl \in [Timers -> OS_TMR] /\ OSTmrWheelTbl \in [Spokes -> OS_TMR_WHEEL]
    BY <2>1 DEF WheelOK, Tables, SpokeTables
  <2>3. OSTmrFreeList \in TimerPtrs
    BY <2>1 DEF FreeOK, Chained, UnusedIn, TimerPtrs
  <2>4. Cardinality(UnusedIn(OSTmrTbl)) \in 0..NumTimers /\ NumTimers \in Nat
    BY TimersCounted, TimersAssumption DEF UnusedIn
  <2>5. OSTmrUsed \in 0..NumTimers /\ OSTmrFree \in 0..NumTimers
    BY <2>4 DEF TimersInv, PoolInv
  <2> QED
    BY <2>2, <2>3, <2>5 DEF TypeOK, TimersInv, WalkInv
<1> QED
  BY <1>1, TimersInOrder, PTL

\* No timer expires that a callback has stopped, as long as callbacks leave alone
\* the timer that the walk has saved ("If we stopped the timer", os_tmr.c:621).
THEOREM StoppedTimersStay ==
  ASSUME MayCallOnNext = FALSE
  PROVE  Spec => OnlyRunningExpire
<1>1. TimersInv /\ [Next]_vars => [ExpireTimer => Running(task.ptmr)]_vars
  BY ExpireStep DEF Running
<1> QED
  BY <1>1, TimersInOrder, PTL DEF Spec, OnlyRunningExpire

-----------------------------------------------------------------------------
(* The lists that OSTmrNext leads through *)

LEMMA LeastNatural ==
  ASSUME NEW T \in SUBSET Nat, T # {}
  PROVE  \E n \in T : \A m \in T : n <= m
<1>1. PICK n \in T : \A m \in T : ~(<<m, n>> \in OpToRel(<, Nat))
  BY NatLessThanWellFounded, WFMin
<1>2. ASSUME NEW m \in T
      PROVE  n <= m
  <2>1. ~(m < n)
    BY <1>1 DEF OpToRel
  <2> QED
    BY <2>1
<1> QED
  BY <1>2

\* The list from q on, of at most n timers, once those of n - 1 are known.
Longer(tbl, F, n) ==
  [q \in TimerPtrs |-> IF q = NULL \/ n = 0 THEN <<>>
                       ELSE <<q>> \o F[n - 1][tbl[q].next]]

\* F has the lists of up to m timers.
ListsUpTo(tbl, F, m) ==
  /\ F \in [0..m -> [TimerPtrs -> Seq(Timers)]]
  /\ \A n \in 0..m : F[n] = Longer(tbl, F, n)

LEMMA NextIsPtr ==
  ASSUME NEW tbl \in Tables, NEW q \in TimerPtrs, q # NULL
  PROVE  q \in Timers /\ tbl[q].next \in TimerPtrs
BY DEF Tables, OS_TMR, TimerPtrs

LEMMA ListsExist ==
  ASSUME NEW tbl \in Tables, NEW m \in Nat
  PROVE  \E F : ListsUpTo(tbl, F, m)
<1> DEFINE Bad == {n \in Nat : ~ \E F : ListsUpTo(tbl, F, n)}
<1>1. SUFFICES ASSUME Bad # {} PROVE FALSE
  OBVIOUS
<1>2. PICK n \in Bad : \A k \in Bad : n <= k
  BY <1>1, LeastNatural
<1>3. n \in Nat /\ ~ \E F : ListsUpTo(tbl, F, n)
  OBVIOUS
<1>4. CASE n = 0
  <2> DEFINE F == [k \in 0..0 |-> [q \in TimerPtrs |-> <<>>]]
  <2>1. F \in [0..0 -> [TimerPtrs -> Seq(Timers)]]
    OBVIOUS
  <2>2. \A k \in 0..0 : F[k] = Longer(tbl, F, k)
    BY DEF Longer
  <2>3. ListsUpTo(tbl, F, 0)
    BY <2>1, <2>2 DEF ListsUpTo
  <2> QED
    BY <1>3, <1>4, <2>3
<1>5. CASE n # 0
  <2>1. n - 1 \in Nat /\ n - 1 \notin Bad
    BY <1>2, <1>3, <1>5
  <2>2. PICK F : ListsUpTo(tbl, F, n - 1)
    BY <2>1
  <2> HIDE DEF Bad
  <2> DEFINE G == [k \in 0..n |-> IF k = n THEN Longer(tbl, F, n) ELSE F[k]]
  <2>3. F \in [0..(n - 1) -> [TimerPtrs -> Seq(Timers)]]
        /\ \A k \in 0..(n - 1) : F[k] = Longer(tbl, F, k)
    BY <2>2 DEF ListsUpTo
  <2>4. n - 1 \in 0..(n - 1) /\ F[n - 1] \in [TimerPtrs -> Seq(Timers)]
    BY <1>3, <1>5, <2>3
  <2>5. Longer(tbl, F, n) \in [TimerPtrs -> Seq(Timers)]
    <3>1. ASSUME NEW q \in TimerPtrs
          PROVE  (IF q = NULL \/ n = 0 THEN <<>> ELSE <<q>> \o F[n - 1][tbl[q].next])
                    \in Seq(Timers)
      <4>1. CASE q = NULL
        BY <4>1
      <4>2. CASE q # NULL
        <5>1. q \in Timers /\ tbl[q].next \in TimerPtrs
          BY <4>2, NextIsPtr
        <5>2. F[n - 1][tbl[q].next] \in Seq(Timers)
          BY <2>4, <5>1
        <5> QED
          BY <1>5, <4>2, <5>1, <5>2
      <4> QED
        BY <4>1, <4>2
    <3> QED
      BY <3>1 DEF Longer
  <2>6. ASSUME NEW k \in 0..n
        PROVE  G[k] \in [TimerPtrs -> Seq(Timers)]
    <3>1. CASE k = n
      BY <2>5, <3>1
    <3>2. CASE k # n
      <4>1. k \in 0..(n - 1)
        BY <1>3, <3>2
      <4> QED
        BY <2>3, <3>2, <4>1
    <3> QED
      BY <3>1, <3>2
  <2>7. ASSUME NEW k \in 0..n
        PROVE  G[k] = Longer(tbl, G, k)
    <3>1. Longer(tbl, G, k) = Longer(tbl, F, k)
      <4>1. CASE k = 0
        BY <4>1 DEF Longer
      <4>2. CASE k # 0
        <5>1. k - 1 \in 0..n /\ k - 1 # n
          BY <1>3, <4>2
        <5>2. G[k - 1] = F[k - 1]
          BY <5>1
        <5> HIDE DEF G
        <5> QED
          BY <5>2 DEF Longer
      <4> QED
        BY <4>1, <4>2
    <3>2. CASE k = n
      BY <3>1, <3>2
    <3>3. CASE k # n
      <4>1. k \in 0..(n - 1)
        BY <1>3, <3>3
      <4> QED
        BY <2>3, <3>1, <3>3, <4>1
    <3> QED
      BY <3>2, <3>3
  <2>8. G \in [0..n -> [TimerPtrs -> Seq(Timers)]]
    BY <2>6
  <2> HIDE DEF G
  <2>9. ListsUpTo(tbl, G, n)
    BY <2>7, <2>8 DEF ListsUpTo
  <2> QED
    BY <1>3, <2>9
<1> QED
  BY <1>4, <1>5

\* ListFrom is the list of at most NumTimers timers.
LEMMA ListFromIs ==
  ASSUME OSTmrTbl \in Tables
  PROVE  \E F : /\ ListsUpTo(OSTmrTbl, F, NumTimers)
                /\ \A p \in TimerPtrs : ListFrom(p) = F[NumTimers][p]
<1> DEFINE Step(F) == [n \in 0..NumTimers |->
                         [q \in TimerPtrs |-> IF q = NULL \/ n = 0 THEN <<>>
                                              ELSE <<q>> \o F[n - 1][OSTmrTbl[q].next]]]
           L == CHOOSE F : F = Step(F)
<1>1. PICK F : ListsUpTo(OSTmrTbl, F, NumTimers)
  BY ListsExist, TimersAssumption
<1>2. F = Step(F)
  <2>1. \A n \in 0..NumTimers : F[n] = Step(F)[n]
    BY <1>1 DEF ListsUpTo, Longer
  <2>2. F = [n \in 0..NumTimers |-> F[n]]
    BY <1>1 DEF ListsUpTo
  <2>3. Step(F) = [n \in 0..NumTimers |-> Step(F)[n]]
    OBVIOUS
  <2> HIDE DEF Step
  <2> QED
    BY <2>1, <2>2, <2>3
<1>3. L = Step(L)
  <2> HIDE DEF Step
  <2> QED
    BY <1>2
<1>4. \A p \in TimerPtrs : ListFrom(p) = L[NumTimers][p]
  BY DEF ListFrom
<1> HIDE DEF L
<1>5. \A n \in 0..NumTimers : L[n] = Longer(OSTmrTbl, L, n)
  <2>1. \A n \in 0..NumTimers : Step(L)[n] = Longer(OSTmrTbl, L, n)
    BY DEF Longer
  <2> HIDE DEF Step
  <2> QED
    BY <1>3, <2>1
<1>6. \A n \in 0..NumTimers : L[n] = F[n]
  <2> DEFINE Bad == {n \in 0..NumTimers : L[n] # F[n]}
  <2>1. SUFFICES ASSUME Bad # {} PROVE FALSE
    OBVIOUS
  <2>2. PICK n \in Bad : \A k \in Bad : n <= k
    <3>1. Bad \in SUBSET Nat
      BY TimersAssumption
    <3> HIDE DEF Bad
    <3> QED
      BY <2>1, <3>1, LeastNatural
  <2>3. n \in 0..NumTimers /\ L[n] # F[n]
    OBVIOUS
  <2>4. F[n] = Longer(OSTmrTbl, F, n)
    BY <1>1, <2>3 DEF ListsUpTo
  <2>5. CASE n = 0
    BY <1>5, <2>3, <2>4, <2>5 DEF Longer
  <2>6. CASE n # 0
    <3>1. n - 1 \in 0..NumTimers /\ n - 1 \notin Bad
      BY <2>2, <2>3, <2>6, TimersAssumption
    <3>2. L[n - 1] = F[n - 1]
      BY <3>1
    <3>3. Longer(OSTmrTbl, L, n) = Longer(OSTmrTbl, F, n)
      BY <3>2 DEF Longer
    <3> QED
      BY <1>5, <2>3, <2>4, <3>3
  <2> QED
    BY <2>5, <2>6
<1>7. NumTimers \in 0..NumTimers
  BY TimersAssumption
<1> QED
  BY <1>1, <1>4, <1>6, <1>7

\* The timers of S from q on.
From(S, rank, q) == {t \in S : rank[q] <= rank[t]}

\* list leads from q through all timers of S behind it.
Leads(tbl, S, rank, list, q) ==
  /\ list \in Seq(Timers) /\ Lists(list, From(S, rank, q)) /\ list[1] = q
  /\ \A k \in 2..Len(list) : tbl[list[k - 1]].next = list[k]

LEMMA FromNext ==
  ASSUME NEW tbl \in Tables, NEW S \in SUBSET Timers, NEW rank \in Ranks, NEW first,
         Chained(tbl, S, first, rank), NEW q \in S
  PROVE  LET next == tbl[q].next
         IN  IF next = NULL THEN From(S, rank, q) = {q}
             ELSE /\ next \in S /\ q \notin From(S, rank, next)
                  /\ From(S, rank, q) = {q} \cup From(S, rank, next)
<1> DEFINE next == tbl[q].next
<1>1. NextInRank(q, next, S, rank) /\ \A t \in S : rank[t] = rank[q] => t = q
  BY DEF Chained
<1>2. \A t \in S : rank[t] \in Int
  BY DEF Ranks
<1> HIDE DEF next
<1>3. CASE next = NULL
  <2>1. \A t \in S : rank[q] <= rank[t] => t = q
    BY <1>1, <1>2, <1>3 DEF NextInRank
  <2> QED
    BY <1>2, <1>3, <2>1 DEF From, next
<1>4. CASE next # NULL
  <2>1. next \in S /\ rank[q] < rank[next]
    BY <1>1, <1>4 DEF NextInRank
  <2>2. \A t \in S : rank[q] <= rank[t] <=> t = q \/ rank[next] <= rank[t]
    BY <1>1, <1>2, <1>4 DEF NextInRank
  <2>3. q \notin From(S, rank, next)
    BY <1>2, <2>1 DEF From
  <2>4. From(S, rank, q) = {q} \cup From(S, rank, next)
    BY <2>2 DEF From
  <2> QED
    BY <1>4, <2>1, <2>3, <2>4 DEF next
<1> QED
  BY <1>3, <1>4

LEMMA LeadsOn ==
  ASSUME NEW tbl \in Tables, NEW S \in SUBSET Timers, NEW rank \in Ranks, NEW first,
         Chained(tbl, S, first, rank), NEW q \in S, tbl[q].next # NULL,
         NEW list, Leads(tbl, S, rank, list, tbl[q].next)
  PROVE  Leads(tbl, S, rank, <<q>> \o list, q)
<1> DEFINE next == tbl[q].next
           longer == <<q>> \o list
           A == From(S, rank, next)
<1>1. /\ next \in S /\ q \notin A /\ From(S, rank, q) = {q} \cup A
  BY FromNext
<1>2. /\ list \in Seq(Timers) /\ Len(list) = Cardinality(A)
      /\ {list[k] : k \in DOMAIN list} = A /\ list[1] = next
      /\ \A k \in 2..Len(list) : tbl[list[k - 1]].next = list[k]
  BY DEF Leads, Lists
<1>3. IsFiniteSet(A) /\ Cardinality(A) \in Nat
  BY TimersCounted, FS_CardinalityType DEF From
<1>4. Cardinality({q} \cup A) = Cardinality(A) + 1
  <2>1. {q} \cup A = A \cup {q}
    OBVIOUS
  <2> HIDE DEF A
  <2> QED
    BY <1>1, <1>3, <2>1, FS_AddElement
<1> HIDE DEF A, next
<1>5. /\ longer \in Seq(Timers) /\ Len(longer) = Len(list) + 1 /\ longer[1] = q
      /\ \A k \in 1..Len(list) : longer[k + 1] = list[k]
  BY <1>2
<1>6. \A k \in 2..Len(longer) : k - 1 \in 1..Len(list) /\ longer[k] = list[k - 1]
  <2> SUFFICES ASSUME NEW k \in 2..Len(longer)
               PROVE  k - 1 \in 1..Len(list) /\ longer[k] = list[k - 1]
    OBVIOUS
  <2>1. k - 1 \in 1..Len(list) /\ k = (k - 1) + 1
    BY <1>2, <1>5
  <2> QED
    BY <1>5, <2>1
<1> HIDE DEF longer
<1>7. DOMAIN list = 1..Len(list) /\ DOMAIN longer = 1..Len(longer) /\ Len(list) \in Nat
  BY <1>2, <1>5
<1>8. {longer[k] : k \in DOMAIN longer} = {q} \cup A
  <2>1. ASSUME NEW k \in DOMAIN longer
        PROVE  longer[k] \in {q} \cup A
    <3>1. CASE k = 1
      BY <1>5, <3>1
    <3>2. CASE k # 1
      <4>1. k \in 2..Len(longer)
        BY <1>7, <3>2
      <4> QED
        BY <1>2, <1>6, <1>7, <4>1
    <3> QED
      BY <3>1, <3>2
  <2>2. ASSUME NEW t \in {q} \cup A
        PROVE  \E k \in DOMAIN longer : longer[k] = t
    <3>1. CASE t = q
      <4>1. 1 \in DOMAIN longer
        BY <1>5, <1>7
      <4> QED
        BY <1>5, <3>1, <4>1
    <3>2. CASE t \in A
      <4>1. PICK k \in DOMAIN list : list[k] = t
        BY <1>2, <3>2
      <4>2. k + 1 \in DOMAIN longer /\ longer[k + 1] = t
        BY <1>5, <1>7, <4>1
      <4> QED
        BY <4>2
    <3> QED
      BY <3>1, <3>2
  <2> QED
    BY <2>1, <2>2
<1>9. \A k \in 2..Len(longer) : tbl[longer[k - 1]].next = longer[k]
  <2> SUFFICES ASSUME NEW k \in 2..Len(longer)
               PROVE  tbl[longer[k - 1]].next = longer[k]
    OBVIOUS
  <2>1. k - 1 \in 1..Len(list) /\ longer[k] = list[k - 1]
    BY <1>6
  <2>2. CASE k = 2
    BY <1>2, <1>5, <2>1, <2>2 DEF next
  <2>3. CASE k # 2
    <3>1. k - 1 \in 2..Len(longer) /\ k - 1 \in 2..Len(list)
      BY <1>5, <1>7, <2>1, <2>3
    <3>2. longer[k - 1] = list[(k - 1) - 1]
      BY <1>6, <3>1
    <3>3. tbl[list[(k - 1) - 1]].next = list[k - 1]
      BY <1>2, <3>1
    <3> QED
      BY <2>1, <3>2, <3>3
  <2> QED
    BY <2>2, <2>3
<1>10. Len(longer) = Cardinality({q} \cup A)
  BY <1>2, <1>4, <1>5
<1> QED
  BY <1>1, <1>5, <1>8, <1>9, <1>10 DEF Leads, Lists, longer, A

LEMMA ChainListed ==
  ASSUME NEW tbl \in Tables, NEW S \in SUBSET Timers, NEW rank \in Ranks, NEW first,
         Chained(tbl, S, first, rank), NEW F, ListsUpTo(tbl, F, NumTimers)
  PROVE  \A n \in 0..NumTimers : \A q \in S :
           Cardinality(From(S, rank, q)) <= n => Leads(tbl, S, rank, F[n][q], q)
<1> DEFINE Good(n) == \A q \in S :
             Cardinality(From(S, rank, q)) <= n => Leads(tbl, S, rank, F[n][q], q)
           Bad == {n \in 0..NumTimers : ~Good(n)}
<1>0. NumTimers \in Nat
  BY TimersAssumption
<1>1. SUFFICES ASSUME Bad # {} PROVE FALSE
  OBVIOUS
<1>2. PICK n \in Bad : \A k \in Bad : n <= k
  <2>1. Bad \in SUBSET Nat
    BY <1>0
  <2> HIDE DEF Bad
  <2> QED
    BY <1>1, <2>1, LeastNatural
<1>3. n \in 0..NumTimers /\ ~Good(n)
  OBVIOUS
<1>4. PICK q \in S : Cardinality(From(S, rank, q)) <= n /\ ~Leads(tbl, S, rank, F[n][q], q)
  BY <1>3
<1> DEFINE A == From(S, rank, q)
           next == tbl[q].next
<1>5. IsFiniteSet(A) /\ Cardinality(A) \in Nat /\ q \in A
  <2>1. rank[q] <= rank[q]
    BY DEF Ranks
  <2> QED
    BY <2>1, TimersCounted, FS_CardinalityType DEF From
<1>6. Cardinality(A) # 0
  BY <1>5, FS_EmptySet
<1>7. n # 0 /\ n - 1 \in 0..NumTimers /\ n - 1 \notin Bad
  BY <1>0, <1>2, <1>3, <1>4, <1>5, <1>6
<1>8. Good(n - 1)
  BY <1>7
<1> HIDE DEF Bad, Good
<1>9. F[n][q] = <<q>> \o F[n - 1][next]
  <2>1. F[n] = Longer(tbl, F, n)
    BY <1>3 DEF ListsUpTo
  <2>2. q # NULL /\ q \in TimerPtrs
    BY NoTimerIsNull DEF TimerPtrs
  <2>3. Longer(tbl, F, n)[q] = <<q>> \o F[n - 1][next]
    BY <1>7, <2>2 DEF Longer
  <2> QED
    BY <2>1, <2>3
<1>10. CASE next = NULL
  <2>1. F[n - 1][NULL] = <<>>
    BY <1>7 DEF ListsUpTo, Longer, TimerPtrs
  <2>2. F[n][q] = <<q>>
    BY <1>9, <1>10, <2>1
  <2>3. A = {q} /\ Cardinality({q}) = 1
    <3>1. A = {q}
      BY <1>10, FromNext
    <3>2. Cardinality({} \cup {q}) = 0 + 1
      BY FS_EmptySet, FS_AddElement
    <3> QED
      BY <3>1, <3>2
  <2>4. <<q>> \in Seq(Timers) /\ Len(<<q>>) = 1 /\ {<<q>>[k] : k \in DOMAIN <<q>>} = {q}
    OBVIOUS
  <2>5. Leads(tbl, S, rank, <<q>>, q)
    BY <2>3, <2>4 DEF Leads, Lists
  <2> QED
    BY <1>4, <2>2, <2>5
<1>11. CASE next # NULL
  <2>1. next \in S /\ q \notin From(S, rank, next) /\ A = {q} \cup From(S, rank, next)
    BY <1>11, FromNext
  <2>2. From(S, rank, next) = A \ {q}
    BY <2>1
  <2> HIDE DEF A
  <2>3. Cardinality(A \ {q}) = Cardinality(A) - 1
    BY <1>5, FS_RemoveElement
  <2>4. Cardinality(From(S, rank, next)) <= n - 1
    BY <1>3, <1>4, <1>5, <2>2, <2>3 DEF A
  <2>5. Leads(tbl, S, rank, F[n - 1][next], next)
    BY <1>8, <2>1, <2>4 DEF Good
  <2>6. Leads(tbl, S, rank, <<q>> \o F[n - 1][next], q)
    BY <1>11, <2>5, LeadsOn
  <2> QED
    BY <1>4, <1>9, <2>6
<1> QED
  BY <1>10, <1>11

\* OSTmrPrev leads back through list.
BackIn(list) ==
  \A k \in DOMAIN list : OSTmrTbl[list[k]].prev = IF k = 1 THEN NULL ELSE list[k - 1]

\* The list of a chain is its timers, each of them once.
LEMMA ChainExact ==
  ASSUME OSTmrTbl \in Tables, NEW S \in SUBSET Timers, NEW rank \in Ranks, NEW first,
         Chained(OSTmrTbl, S, first, rank)
  PROVE  LET list == ListFrom(first)
         IN  /\ list \in Seq(Timers) /\ Lists(list, S)
             /\ LinkedBack(OSTmrTbl, S, first) => BackIn(list)
<1> DEFINE list == ListFrom(first)
<1>1. PICK F : /\ ListsUpTo(OSTmrTbl, F, NumTimers)
               /\ \A p \in TimerPtrs : ListFrom(p) = F[NumTimers][p]
  BY ListFromIs
<1>2. first \in TimerPtrs /\ NumTimers \in 0..NumTimers
  BY TimersAssumption DEF Chained, TimerPtrs
<1>3. list = F[NumTimers][first]
  BY <1>1, <1>2
<1> HIDE DEF list
<1>4. CASE first = NULL
  <2>1. list = <<>>
    BY <1>1, <1>2, <1>3, <1>4 DEF ListsUpTo, Longer
  <2>2. S = {} /\ Cardinality(S) = 0
    BY <1>4, FS_EmptySet DEF Chained
  <2>3. <<>> \in Seq(Timers) /\ Len(<<>>) = 0 /\ {<<>>[k] : k \in DOMAIN <<>>} = {}
    OBVIOUS
  <2>4. DOMAIN list = {}
    BY <2>1, <2>3
  <2> QED
    BY <2>1, <2>2, <2>3, <2>4 DEF Lists, BackIn, list
<1>5. CASE first # NULL
  <2>1. first \in S /\ \A t \in S : rank[first] <= rank[t]
    BY <1>5 DEF Chained
  <2>2. From(S, rank, first) = S
    BY <2>1 DEF From
  <2>3. Cardinality(S) <= NumTimers
    BY TimersCounted, TimersAssumption
  <2>4. Leads(OSTmrTbl, S, rank, list, first)
    BY <1>1, <1>2, <1>3, <2>1, <2>2, <2>3, ChainListed
  <2>5. /\ list \in Seq(Timers) /\ Lists(list, S) /\ list[1] = first
        /\ \A k \in 2..Len(list) : OSTmrTbl[list[k - 1]].next = list[k]
    BY <2>2, <2>4 DEF Leads
  <2>6. ASSUME NEW k \in DOMAIN list, LinkedBack(OSTmrTbl, S, first)
        PROVE  OSTmrTbl[list[k]].prev = IF k = 1 THEN NULL ELSE list[k - 1]
    <3>1. CASE k = 1
      BY <2>1, <2>5, <2>6, <3>1 DEF LinkedBack
    <3>2. CASE k # 1
      <4> DEFINE u == list[k - 1]
                 t == list[k]
                 p == OSTmrTbl[t].prev
      <4>1. k \in 2..Len(list) /\ k \in DOMAIN list /\ k - 1 \in DOMAIN list
        BY <2>5, <3>2
      <4>2. u \in S /\ t \in S /\ OSTmrTbl[u].next = t
        BY <2>5, <4>1 DEF Lists
      <4> HIDE DEF u, t
      <4>3. \A v \in S : rank[v] \in Int
        BY DEF Ranks
      <4>4. NextInRank(u, t, S, rank) /\ t # NULL
        BY <4>2, NoTimerIsNull DEF Chained
      <4>5. t # first
        BY <2>1, <4>2, <4>3, <4>4 DEF NextInRank
      <4>6. p \in S /\ OSTmrTbl[p].next = t
        BY <2>6, <4>2, <4>5 DEF LinkedBack
      <4>7. NextInRank(p, t, S, rank)
        BY <4>6 DEF Chained
      <4>8. rank[p] = rank[u]
        BY <4>2, <4>3, <4>4, <4>6, <4>7 DEF NextInRank
      <4>9. p = u
        BY <4>2, <4>6, <4>8 DEF Chained
      <4> QED
        BY <3>2, <4>9 DEF u, t
    <3> QED
      BY <3>1, <3>2
  <2>7. LinkedBack(OSTmrTbl, S, first) => BackIn(list)
    BY <2>6 DEF BackIn
  <2> QED
    BY <2>5, <2>7 DEF list
<1> QED
  BY <1>4, <1>5

\* Every spoke lists exactly its running timers, linked both ways, and the free
\* list the deleted ones, with their counts, at every point of a walk.
THEOREM WheelStaysExact ==
  ASSUME MayCallOnNext = FALSE
  PROVE  Spec => []WheelExact
<1>1. TimersInv => WheelExact
  <2> SUFFICES ASSUME TimersInv PROVE WheelExact
    OBVIOUS
  <2>1. PICK rank \in Ranks :
          WheelOK(OSTmrTbl, OSTmrWheelTbl, rank) /\ FreeOK(OSTmrTbl, OSTmrFreeList, rank)
    BY DEF TimersInv, ListsInv
  <2>2. OSTmrTbl \in Tables
    BY <2>1 DEF WheelOK
  <2>3. ASSUME NEW i \in Spokes
        PROVE  SpokeExact(i)
    <3> DEFINE S == OnSpoke(OSTmrTbl, i)
               first == OSTmrWheelTbl[i].first
               list == ListFrom(first)
    <3>1. /\ S \in SUBSET Timers /\ Chained(OSTmrTbl, S, first, rank)
          /\ LinkedBack(OSTmrTbl, S, first) /\ OSTmrWheelTbl[i].entries = Cardinality(S)
      BY <2>1 DEF WheelOK, SpokeOK, OnSpoke
    <3>2. S = {t \in Timers : Running(t) /\ SpokeOf(OSTmrTbl[t].match) = i}
      BY DEF OnSpoke, Running
    <3> HIDE DEF S, first
    <3>3. /\ list \in Seq(Timers) /\ Lists(list, S)
          /\ LinkedBack(OSTmrTbl, S, first) => BackIn(list)
      BY <2>2, <3>1, ChainExact
    <3> QED
      BY <3>1, <3>2, <3>3 DEF SpokeExact, BackIn, Lists, first
  <2>4. Lists(ListFrom(OSTmrFreeList), UnusedIn(OSTmrTbl))
    <3>1. UnusedIn(OSTmrTbl) \in SUBSET Timers
      BY DEF UnusedIn
    <3> QED
      BY <2>1, <2>2, <3>1, ChainExact DEF FreeOK
  <2>5. Len(ListFrom(OSTmrFreeList)) = Cardinality(UnusedIn(OSTmrTbl))
    BY <2>4 DEF Lists
  <2> QED
    BY <2>3, <2>4, <2>5 DEF WheelExact, UnusedIn, TimersInv, PoolInv
<1> QED
  BY <1>1, TimersInOrder, PTL

-----------------------------------------------------------------------------
(* The refinement of CountdownTimers *)

\* What the countdown has for a timer.
PlanIn(tmr) ==
  IF tmr.state = "UNUSED" THEN NULL
  ELSE [dly |-> tmr.dly, period |-> tmr.period, opt |-> tmr.opt, callback |-> tmr.callback]

RemainIn(tmr, time) ==
  CASE tmr.state = "RUNNING" -> (tmr.match - time) % TimeMod
    [] tmr.state = "STOPPED" ->
         IF tmr.opt = "PERIODIC" /\ tmr.dly = 0 THEN tmr.period ELSE tmr.dly
    [] OTHER -> 0

\* The mapping, and the mapping of the next state.
LEMMA Mapped ==
  /\ \A t \in Timers : /\ OSTmrStateGet(t) = OSTmrTbl[t].state
                       /\ PlanOf(t) = PlanIn(OSTmrTbl[t])
                       /\ OSTmrRemainGet(t) = RemainIn(OSTmrTbl[t], OSTmrTime)
  /\ \A t \in Timers : /\ OSTmrStateGet(t)' = OSTmrTbl'[t].state
                       /\ PlanOf(t)' = PlanIn(OSTmrTbl'[t])
                       /\ OSTmrRemainGet(t)' = RemainIn(OSTmrTbl'[t], OSTmrTime')
BY DEF OSTmrStateGet, PlanOf, PlanIn, OSTmrRemainGet, RemainIn

\* The map of a step that changes t alone.
LEMMA BecomeMapped ==
  ASSUME NEW t \in Timers, OnlyAt(OSTmrTbl', OSTmrTbl, t), OSTmrTime' = OSTmrTime
  PROVE  Countdown!Become(t, OSTmrTbl'[t].state, PlanIn(OSTmrTbl'[t]),
                          RemainIn(OSTmrTbl'[t], OSTmrTime))
<1>1. ASSUME NEW u \in Timers \ {t}
      PROVE  /\ OSTmrTbl'[u].state = OSTmrTbl[u].state
             /\ PlanIn(OSTmrTbl'[u]) = PlanIn(OSTmrTbl[u])
             /\ RemainIn(OSTmrTbl'[u], OSTmrTime) = RemainIn(OSTmrTbl[u], OSTmrTime)
  BY DEF OnlyAt, SamePlan, PlanIn, RemainIn
<1> QED
  BY <1>1, Mapped DEF Countdown!Become

LEMMA CallingMapped ==
  /\ UNCHANGED task =>
       UNCHANGED (IF task.at = "callback" THEN task.ptmr ELSE NULL)
  /\ task.at # "callback" /\ task'.at # "callback" =>
       UNCHANGED (IF task.at = "callback" THEN task.ptmr ELSE NULL)
OBVIOUS

LEMMA CallsRefine ==
  ASSUME MayCallOnNext = FALSE, TimersInv, NEW t \in Timers,
         OSTmrDel(t) \/ OSTmrStart(t) \/ OSTmrStop(t) \/ \E k \in Plans : OSTmrCreate(t, k)
  PROVE  Countdown!Service(t)
<1> DEFINE old == OSTmrTbl[t]
           new == OSTmrTbl'[t]
<1>1. OSTmrTime' = OSTmrTime /\ UNCHANGED task
  BY DEF OSTmrDel, OSTmrStart, OSTmrStop, OSTmrCreate, taskVars
<1>2. OnlyAt(OSTmrTbl', OSTmrTbl, t)
  BY DelStep, StartStep, StopStep, CreateStep
<1>3. Countdown!Become(t, new.state, PlanIn(new), RemainIn(new, OSTmrTime))
  BY <1>1, <1>2, BecomeMapped
<1>4. old.state # "UNUSED" => Planned(old)
  BY DEF TimersInv, PlanInv
<1>5. ASSUME SamePlan(new, old), old.state # "UNUSED", new.state # "UNUSED"
      PROVE  PlanIn(new) = PlanIn(old)
  BY <1>5 DEF SamePlan, PlanIn
<1>6. CASE OSTmrDel(t)
  <2>1. old.state # "UNUSED" /\ new.state = "UNUSED"
    BY <1>6, DelStep
  <2>2. PlanIn(new) = NULL /\ RemainIn(new, OSTmrTime) = 0
    BY <2>1 DEF PlanIn, RemainIn
  <2> QED
    BY <1>1, <1>3, <2>1, <2>2, Mapped, CallingMapped
      DEF Countdown!Service, Countdown!DeleteTimer
<1>7. CASE OSTmrStart(t)
  <2>1. /\ old.state # "UNUSED" /\ new.state = "RUNNING" /\ SamePlan(new, old)
        /\ (new.match - OSTmrTime) % TimeMod = IF old.dly = 0 THEN old.period ELSE old.dly
    BY <1>7, StartStep
  <2>2. RemainIn(new, OSTmrTime) = Countdown!FirstDelay(PlanIn(old))
    BY <1>4, <2>1 DEF PlanIn, RemainIn, Countdown!FirstDelay, Planned, ValidPlan
  <2> QED
    BY <1>1, <1>3, <1>5, <2>1, <2>2, Mapped, CallingMapped
      DEF Countdown!Service, Countdown!StartTimer
<1>8. CASE OSTmrStop(t)
  <2>1. old.state = "RUNNING" /\ new.state = "STOPPED" /\ SamePlan(new, old)
    BY <1>8, StopStep
  <2>2. RemainIn(new, OSTmrTime) = Countdown!FirstDelay(PlanIn(old))
    BY <2>1 DEF PlanIn, RemainIn, Countdown!FirstDelay, SamePlan
  <2> QED
    BY <1>1, <1>3, <1>5, <2>1, <2>2, Mapped, CallingMapped
      DEF Countdown!Service, Countdown!StopTimer
<1>9. ASSUME NEW k \in Plans, OSTmrCreate(t, k)
      PROVE  Countdown!Service(t)
  <2>1. old.state = "UNUSED" /\ new.state = "STOPPED" /\ SamePlan(new, k)
    BY <1>9, CreateStep
  <2>2. PlanIn(new) = k
    <3>1. k \in [opt : {"PERIODIC", "ONE_SHOT"}, dly : Times, period : Times,
                 callback : BOOLEAN]
      BY TimersAssumption
    <3>2. k = [dly |-> k.dly, period |-> k.period, opt |-> k.opt, callback |-> k.callback]
      BY <3>1
    <3> QED
      BY <2>1, <3>2 DEF PlanIn, SamePlan
  <2>3. RemainIn(new, OSTmrTime) = Countdown!FirstDelay(k)
    BY <2>1 DEF RemainIn, Countdown!FirstDelay, SamePlan
  <2>4. Countdown!CreateTimer(t, k)
    BY <1>3, <2>1, <2>2, <2>3, Mapped DEF Countdown!CreateTimer
  <2> QED
    BY <1>1, <2>4, CallingMapped DEF Countdown!Service
<1> QED
  BY <1>6, <1>7, <1>8, <1>9

LEMMA ExpireRefines ==
  ASSUME TimersInv, ExpireTimer
  PROVE  \E t \in Timers : Countdown!Expire(t)
<1> DEFINE t == task.ptmr
           old == OSTmrTbl[t]
           new == OSTmrTbl'[t]
<1>1. /\ task.at = "walk" /\ t \in Timers /\ old.state = "RUNNING"
      /\ old.match = OSTmrTime /\ OSTmrTime' = OSTmrTime
      /\ SamePlan(new, old) /\ OnlyAt(OSTmrTbl', OSTmrTbl, t)
      /\ IF old.opt = "PERIODIC"
         THEN /\ new.state = "RUNNING"
              /\ (new.match - OSTmrTime) % TimeMod = old.period
         ELSE new.state = "COMPLETED"
  BY ExpireStep
<1>2. IF old.callback THEN task'.at = "callback" /\ task'.ptmr = t ELSE task'.at = "walk"
  BY DEF ExpireTimer, TimersInv, WalkInv
<1>3. Countdown!Become(t, new.state, PlanIn(new), RemainIn(new, OSTmrTime))
  BY <1>1, BecomeMapped
<1>4. /\ PlanIn(new) = PlanIn(old)
      /\ PlanIn(old).opt = old.opt /\ PlanIn(old).period = old.period
      /\ PlanIn(old).callback = old.callback
  BY <1>1 DEF PlanIn, SamePlan
<1>5. RemainIn(old, OSTmrTime) = 0
  <2>1. OSTmrTime \in 0..(TimeMod - 1)
    BY DEF TimersInv, Times
  <2>2. (OSTmrTime - OSTmrTime) % TimeMod = 0
    BY <2>1, TimersAssumption, CountsDown
  <2> QED
    BY <1>1, <2>2 DEF RemainIn
<1>6. RemainIn(new, OSTmrTime) = IF old.opt = "PERIODIC" THEN old.period ELSE 0
  BY <1>1 DEF RemainIn
<1> HIDE DEF t
<1>7. Countdown!Due(t)
  BY <1>1, <1>5, Mapped DEF Countdown!Due
<1>8. IF PlanOf(t).opt = "PERIODIC"
      THEN Countdown!Become(t, "RUNNING", PlanOf(t), PlanOf(t).period)
      ELSE Countdown!Become(t, "COMPLETED", PlanOf(t), 0)
  BY <1>1, <1>3, <1>4, <1>6, Mapped
<1>9. (IF task'.at = "callback" THEN task'.ptmr ELSE NULL) = IF PlanOf(t).callback THEN t ELSE NULL
  BY <1>1, <1>2, <1>4, Mapped
<1>10. Countdown!Expire(t)
  BY <1>1, <1>7, <1>8, <1>9 DEF Countdown!Expire
<1> QED
  BY <1>1, <1>10

LEMMA BeginRefines ==
  ASSUME TimersInv, BeginSpoke
  PROVE  Countdown!Tick
<1>1. /\ task.at = "signalled" /\ task'.at = "walk"
      /\ OSTmrTime' = (OSTmrTime + 1) % TimeMod /\ OSTmrTbl' = OSTmrTbl
  BY DEF BeginSpoke, Later
<1>2. \A t \in Timers : OSTmrTbl[t].state = "RUNNING" => OSTmrTbl[t].match # OSTmrTime
  BY <1>1 DEF TimersInv, ListsInv, DueAhead, Saved
<1>3. \A t \in Timers : OSTmrTbl[t].match \in 0..(TimeMod - 1)
  <2>1. OSTmrTbl \in Tables
    BY DEF TimersInv, ListsInv, WheelOK
  <2> QED
    BY <2>1 DEF Tables, OS_TMR, Times
<1>4. OSTmrTime \in 0..(TimeMod - 1) /\ TimeMod \in Nat \ {0}
  BY TimersAssumption DEF TimersInv, Times
<1>5. ASSUME NEW t \in Timers, OSTmrTbl[t].state = "RUNNING"
      PROVE  /\ RemainIn(OSTmrTbl[t], OSTmrTime) # 0
             /\ RemainIn(OSTmrTbl'[t], OSTmrTime') = RemainIn(OSTmrTbl[t], OSTmrTime) - 1
  <2> DEFINE e == OSTmrTbl[t].match
  <2>1. e \in 0..(TimeMod - 1) /\ e # OSTmrTime
    BY <1>2, <1>3, <1>5
  <2> HIDE DEF e
  <2>2. /\ (e - OSTmrTime) % TimeMod # 0
        /\ (e - ((OSTmrTime + 1) % TimeMod)) % TimeMod = ((e - OSTmrTime) % TimeMod) - 1
    BY <1>4, <2>1, CountsDown
  <2> QED
    BY <1>1, <1>5, <2>2 DEF RemainIn, e
<1>6. ASSUME NEW t \in Timers, OSTmrTbl[t].state # "RUNNING"
      PROVE  RemainIn(OSTmrTbl'[t], OSTmrTime') = RemainIn(OSTmrTbl[t], OSTmrTime)
  BY <1>1, <1>6 DEF RemainIn
<1>7. \A t \in Timers : ~Countdown!Due(t)
  BY <1>5, Mapped DEF Countdown!Due
<1>8. [t \in Timers |-> OSTmrRemainGet(t)]' =
        [t \in Timers |-> IF OSTmrStateGet(t) = "RUNNING" THEN OSTmrRemainGet(t) - 1
                          ELSE OSTmrRemainGet(t)]
  BY <1>5, <1>6, Mapped
<1>9. /\ [t \in Timers |-> OSTmrStateGet(t)]' = [t \in Timers |-> OSTmrStateGet(t)]
      /\ [t \in Timers |-> PlanOf(t)]' = [t \in Timers |-> PlanOf(t)]
  BY <1>1, Mapped
<1> QED
  BY <1>1, <1>7, <1>8, <1>9, Mapped DEF Countdown!Tick

LEMMA StutterRefines ==
  ASSUME UNCHANGED <<OSTmrTbl, OSTmrTime>>,
         UNCHANGED (IF task.at = "callback" THEN task.ptmr ELSE NULL)
  PROVE  UNCHANGED Countdown!countVars
<1>1. /\ [t \in Timers |-> OSTmrStateGet(t)]' = [t \in Timers |-> OSTmrStateGet(t)]
      /\ [t \in Timers |-> PlanOf(t)]' = [t \in Timers |-> PlanOf(t)]
      /\ [t \in Timers |-> OSTmrRemainGet(t)]' = [t \in Timers |-> OSTmrRemainGet(t)]
  BY Mapped
<1> QED
  BY <1>1 DEF Countdown!countVars

\* OSTmr_Task expires each running timer in the very tick in which its delay or
\* period has passed, and calls its callback once, whatever the wheel's size, the
\* wrap of OSTmrTime and the calls between the ticks and from the callbacks.
THEOREM TimersCountDown ==
  ASSUME MayCallOnNext = FALSE
  PROVE  Spec => ImplementsCountdown
<1>1. Init => Countdown!CountInit
  <2> SUFFICES ASSUME Init PROVE Countdown!CountInit
    OBVIOUS
  <2>1. \A t \in Timers : OSTmrTbl[t].state = "UNUSED"
    BY DEF Init
  <2>2. task.at = "wait"
    BY DEF Init, Waiting
  <2>3. \A t \in Timers : PlanIn(OSTmrTbl[t]) = NULL /\ RemainIn(OSTmrTbl[t], OSTmrTime) = 0
    BY <2>1 DEF PlanIn, RemainIn
  <2> QED
    BY <2>1, <2>2, <2>3, Mapped DEF Countdown!CountInit
<1>2. TimersInv /\ [Next]_vars => [Countdown!CountNext]_Countdown!countVars
  <2> SUFFICES ASSUME TimersInv, [Next]_vars
               PROVE  [Countdown!CountNext]_Countdown!countVars
    OBVIOUS
  <2>1. ASSUME NEW t \in Timers,
               OSTmrDel(t) \/ OSTmrStart(t) \/ OSTmrStop(t)
                 \/ \E k \in Plans : OSTmrCreate(t, k)
        PROVE  Countdown!CountNext
    BY <2>1, CallsRefine DEF Countdown!CountNext
  <2>2. CASE ExpireTimer
    BY <2>2, ExpireRefines DEF Countdown!CountNext
  <2>3. CASE BeginSpoke
    BY <2>3, BeginRefines DEF Countdown!CountNext
  <2>4. CASE CallbackReturns
    <3>1. /\ task.at = "callback" /\ task'.at = "walk" /\ task.ptmr # NULL
          /\ OSTmrTbl' = OSTmrTbl /\ OSTmrTime' = OSTmrTime
      BY <2>4 DEF CallbackReturns, TimersInv, WalkInv
    <3>2. /\ [t \in Timers |-> OSTmrStateGet(t)]' = [t \in Timers |-> OSTmrStateGet(t)]
          /\ [t \in Timers |-> PlanOf(t)]' = [t \in Timers |-> PlanOf(t)]
          /\ [t \in Timers |-> OSTmrRemainGet(t)]' = [t \in Timers |-> OSTmrRemainGet(t)]
      BY <3>1, Mapped
    <3>3. Countdown!Return
      BY <3>1, <3>2 DEF Countdown!Return
    <3> QED
      BY <3>3 DEF Countdown!CountNext
  <2>5. CASE OSTmrSignal \/ SkipTimer \/ EndSpoke \/ UNCHANGED vars
    <3>1. UNCHANGED <<OSTmrTbl, OSTmrTime>>
      BY <2>5 DEF OSTmrSignal, SkipTimer, EndSpoke, vars
    <3>2. UNCHANGED task \/ (task.at # "callback" /\ task'.at # "callback")
      BY <2>5 DEF OSTmrSignal, SkipTimer, EndSpoke, vars, TimersInv, WalkInv, Signalled, Waiting
    <3> QED
      BY <3>1, <3>2, CallingMapped, StutterRefines
  <2> QED
    BY <2>1, <2>2, <2>3, <2>4, <2>5 DEF Next, OSTmr_Task
<1> QED
  BY <1>1, <1>2, TimersInOrder, PTL DEF Spec, ImplementsCountdown, Countdown!CountSpec
=============================================================================
