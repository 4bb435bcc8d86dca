----------------------- MODULE UcosEventServiceProofs -----------------------
(***************************************************************************)
(* That the semaphores, mailboxes, queues and mutexes of UcosServices      *)
(* implement EventService, proved for any values of the constants: what is *)
(* stored in an event is what its control block and its ring buffer hold,  *)
(* nobody waits for an event that has something in stock, and each call    *)
(* and each return of a pend is one step of EventService or one that it    *)
(* does not see.                                                           *)
(***************************************************************************)
EXTENDS UcosStoresProofs, UcosServicesRefines, SequenceTheorems

-----------------------------------------------------------------------------
(* EventService keeps stock and waiting tasks apart *)

NeverBoth ==
  \A t \in Tasks : \A e \in Events :
    e \in WaitsNow[t] => StocksNow[e] = <<>> /\ KindsNow[e] # "UNUSED"

\* What a state is to EventService are functions.
Functions ==
  /\ KindsNow = [e \in Events |-> KindsNow[e]]
  /\ StocksNow = [e \in Events |-> StocksNow[e]]
  /\ WaitsNow = [t \in Tasks |-> WaitsNow[t]]
  /\ ResultsNow = [t \in Tasks |-> ResultsNow[t]]
  /\ PriosNow = [t \in Tasks |-> PriosNow[t]]

LEMMA FunctionsNow == Functions
BY DEF Functions, KindsNow, StocksNow, WaitsNow, ResultsNow, PriosNow, StockOf, WaitsFor, ResultOf,
       OwnPrio, Exists, Owner, OwnerPrio, IsMutex, Raised, HasCeiling, PCP, QueueOf

LEMMA NeverBothTasks ==
  ASSUME NeverBoth, Functions, NEW t \in Tasks,
         \/ Abstract!TimeOut(t) \/ Abstract!GoOn(t) \/ Abstract!SetPrio(t, PriosNow'[t])
         \/ \E S \in SUBSET Events : Abstract!TakeFrom(t, S) \/ Abstract!Wait(t, S)
  PROVE  NeverBoth'
<1>1. CASE Abstract!TimeOut(t)
  BY <1>1 DEF Functions, NeverBoth, Abstract!TimeOut
<1>2. CASE Abstract!GoOn(t)
  BY <1>2 DEF NeverBoth, Abstract!GoOn
<1>3. CASE Abstract!SetPrio(t, PriosNow'[t])
  BY <1>3 DEF Functions, NeverBoth, Abstract!SetPrio
<1>4. ASSUME NEW S \in SUBSET Events, Abstract!TakeFrom(t, S)
      PROVE  NeverBoth'
  BY <1>4 DEF NeverBoth, Abstract!TakeFrom
<1>5. ASSUME NEW S \in SUBSET Events, Abstract!Wait(t, S)
      PROVE  NeverBoth'
  BY <1>5 DEF Functions, NeverBoth, Abstract!Wait
<1> QED
  BY <1>1, <1>2, <1>3, <1>4, <1>5

LEMMA NeverBothAnswers ==
  ASSUME NeverBoth, NEW W, NEW err, NEW e, NEW item, Abstract!AnswerTo(W, err, e, item)
  PROVE  \A t \in Tasks : WaitsNow'[t] = IF t \in W THEN {} ELSE WaitsNow[t]
BY DEF Abstract!AnswerTo

LEMMA NeverBothEvents ==
  ASSUME NeverBoth, Functions, NEW e \in Events,
         \/ Abstract!Create(e, KindsNow'[e], StocksNow'[e]) \/ Abstract!Delete(e)
         \/ Abstract!SetCount(e, Len(StocksNow'[e])) \/ Abstract!Flush(e) \/ Abstract!TakeAway(e)
         \/ \E item, front : Abstract!Store(e, item, front)
         \/ \E all : Abstract!Abort(e, all)
         \/ \E item, all : Abstract!Post(e, item, all)
  PROVE  NeverBoth'
<1>1. CASE Abstract!Create(e, KindsNow'[e], StocksNow'[e])
  BY <1>1 DEF Functions, NeverBoth, Abstract!Create
<1>2. CASE Abstract!Delete(e)
  <2>1. \A t \in Tasks : WaitsNow'[t] = IF t \in Abstract!Waiting(e) THEN {} ELSE WaitsNow[t]
    BY <1>2, NeverBothAnswers DEF Abstract!Delete
  <2>2. \A f \in Events : f # e => KindsNow'[f] = KindsNow[f] /\ StocksNow'[f] = StocksNow[f]
    BY <1>2 DEF Functions, Abstract!Delete
  <2> QED
    BY <2>1, <2>2 DEF NeverBoth, Abstract!Waiting
<1>3. CASE Abstract!SetCount(e, Len(StocksNow'[e]))
  <2>1. /\ \A t \in Tasks : e \notin WaitsNow[t]
        /\ WaitsNow' = WaitsNow /\ KindsNow' = KindsNow
        /\ \A f \in Events : f # e => StocksNow'[f] = StocksNow[f]
    BY <1>3 DEF Functions, Abstract!SetCount, Abstract!Waiting
  <2> QED
    BY <2>1 DEF NeverBoth
<1>4. CASE Abstract!Flush(e)
  BY <1>4 DEF Functions, NeverBoth, Abstract!Flush
<1>5. ASSUME NEW item, NEW front, Abstract!Store(e, item, front)
      PROVE  NeverBoth'
  <2>1. /\ \A t \in Tasks : e \notin WaitsNow[t]
        /\ WaitsNow' = WaitsNow /\ KindsNow' = KindsNow
        /\ \A f \in Events : f # e => StocksNow'[f] = StocksNow[f]
    BY <1>5 DEF Functions, Abstract!Store, Abstract!Waiting
  <2> QED
    BY <2>1 DEF NeverBoth
<1>6. ASSUME NEW all, NEW item, Abstract!Abort(e, all) \/ Abstract!Post(e, item, all)
      PROVE  NeverBoth'
  <2>1. /\ \A t \in Tasks : WaitsNow'[t] = {} \/ WaitsNow'[t] = WaitsNow[t]
        /\ UNCHANGED <<KindsNow, StocksNow>>
    BY <1>6, NeverBothAnswers DEF Abstract!Abort, Abstract!Post
  <2> QED
    BY <2>1 DEF NeverBoth
<1>7. CASE Abstract!TakeAway(e)
  <2>1. /\ \A t \in Tasks : e \notin WaitsNow[t]
        /\ WaitsNow' = WaitsNow /\ KindsNow' = KindsNow
        /\ \A f \in Events : f # e => StocksNow'[f] = StocksNow[f]
    BY <1>7 DEF Functions, NeverBoth, Abstract!TakeAway
  <2> QED
    BY <2>1 DEF NeverBoth
<1> QED
  BY <1>1, <1>2, <1>3, <1>4, <1>5, <1>6, <1>7

LEMMA NeverBothStep ==
  ASSUME NeverBoth, Functions, [Abstract!Next]_(Abstract!vars)
  PROVE  NeverBoth'
<1>1. CASE UNCHANGED Abstract!vars
  BY <1>1 DEF NeverBoth, Abstract!vars
<1>2. CASE Abstract!Next
  BY <1>2, NeverBothTasks, NeverBothEvents DEF Abstract!Next
<1> QED
  BY <1>1, <1>2

-----------------------------------------------------------------------------
(* What a control block, a TCB and the place of a task say to EventService *)

Contents(q) == [i \in 1..q.entries |-> q.slots[(q.out + i - 1) % QSize]]

StockIn(m, queues) ==
  CASE m.type = "SEM"   -> [i \in 1..m.cnt |-> NULL]
    [] m.type = "MBOX"  -> IF m.ptr = NULL THEN <<>> ELSE <<m.ptr>>
    [] m.type = "Q"     -> Contents(queues[m.ptr])
    [] m.type = "MUTEX" -> IF m.ptr = NULL THEN <<NULL>> ELSE <<>>
    [] OTHER -> <<>>

WaitsOf(c, k) == IF Unans(c, k) THEN k.on ELSE {}

Nothing == [err |-> "none", got |-> {}]
Told(err, got) == [err |-> err, got |-> got]
AnswerIn(c) == Told(IF c.statpend = "OK" THEN "NONE" ELSE c.statpend, {<<c.eventptr, c.msg>>})

ResultIn(c, k) ==
  IF k.at = "returned" THEN Told(k.err, k.got)
  ELSE IF k.at = "pend" /\ k.svc # "OSFlagPend" /\ ~Unans(c, k) THEN AnswerIn(c)
  ELSE Nothing

\* An owner has the priority that its mutex saved, raised or not.
PrioIs(t, p, tcbs, pcs, ecbs) ==
  IF Live(pcs[t])
  THEN /\ p \in Nat /\ p # 0
       /\ \A e \in Mutexes(ecbs) : ecbs[e].ptr = t => p = Saved(ecbs[e]) + 1
       /\ ~Owns(ecbs, t) => p = tcbs[t].prio + 1
  ELSE p = 0

Mapped ==
  /\ Functions
  /\ \A e \in Events : KindsNow[e] = ecb[e].type /\ StocksNow[e] = StockIn(ecb[e], OSQTbl)
  /\ \A t \in Tasks : WaitsNow[t] = WaitsOf(tcb[t], pc[t]) /\ ResultsNow[t] = ResultIn(tcb[t], pc[t])
  /\ \A t \in Tasks : PrioIs(t, PriosNow[t], tcb, pc, ecb)

\* A task waits for something if and only if it is in a wait list.
LEMMA PendsOn ==
  ASSUME NEW c, NEW k, NEW ecbs, Shape(c, k, ecbs), k.at = "pend"
  PROVE  k.on \subseteq Events /\ (k.on = {} <=> k.svc = "OSFlagPend")
BY DEF Shape, SingleShape, MultiShape, FlagShape, SinglePends

LEMMA WaitsMapped ==
  ASSUME KernelInv, NEW t \in Tasks
  PROVE  WaitsFor(t) = WaitsOf(tcb[t], pc[t]) /\ ResultOf(t) = ResultIn(tcb[t], pc[t])
<1>1. Data(OSRdy, OSEventTbl, tcb, pc, ecb)
  BY DEF KernelInv
<1>2. Shape(tcb[t], pc[t], ecb)
  BY <1>1 DEF Data
<1>3. CASE pc[t].at = "pend"
  <2>1. t \in LiveSet(pc)
    BY <1>3 DEF LiveSet, Live
  <2>2. pc[t].on \subseteq Events /\ (pc[t].on = {} <=> pc[t].svc = "OSFlagPend")
    BY <1>2, <1>3, PendsOn
  <2>3. \A e \in pc[t].on : tcb[t].prio \in OSEventTbl[e] <=> Unans(tcb[t], pc[t])
    BY <1>1, <2>1, <2>2, InLists DEF WaitSet
  <2>4. WaitsFor(t) = WaitsOf(tcb[t], pc[t])
    BY <1>3, <2>3 DEF WaitsFor, WaitsOf
  <2> QED
    BY <1>3, <2>2, <2>4 DEF ResultOf, ResultIn, AnswerIn, Told, Nothing, WaitsOf
<1>4. CASE pc[t].at # "pend"
  BY <1>4 DEF WaitsFor, WaitsOf, ResultOf, ResultIn, Told, Nothing, Unans
<1> QED
  BY <1>3, <1>4

LEMMA PrioMapped ==
  ASSUME KernelInv, NEW t \in LiveSet(pc), NEW p, p = OwnPrio(t) + 1
  PROVE  PrioIs(t, p, tcb, pc, ecb)
<1> DEFINE Raising == {e \in Events : IsMutex(e) /\ Owner(e) = t /\ Raised(e)}
<1>1. /\ OwnersOK(tcb, pc, ecb) /\ HoldsOK(tcb, pc, ecb, holds)
      /\ \A u \in Tasks : Shape(tcb[u], pc[u], ecb)
      /\ tcb[t].prio \in Prios /\ Prios \subseteq Nat /\ t \in Tasks /\ Live(pc[t])
  BY TasksAssumption DEF KernelInv, Data, LiveSet
<1>2. \A e \in Mutexes(ecb) : ecb[e].ptr = t =>
        /\ Saved(ecb[e]) \in Prios
        /\ RaisedIn(ecb[e], tcb) \/ tcb[t].prio = Saved(ecb[e])
  BY <1>1, Constants DEF OwnersOK, OwnedMutex, FreeMutex
<1>3. \A e, f \in Mutexes(ecb) : ecb[e].ptr = t /\ ecb[f].ptr = t => e = f
  BY <1>1, OwnsOne
<1>4. CASE \E e \in Events : e \in Raising
  <2> DEFINE e == CHOOSE e \in Events : IsMutex(e) /\ Owner(e) = t /\ Raised(e)
  <2>1. e \in Raising
    BY <1>4
  <2>2. OwnPrio(t) = OwnerPrio(e)
    BY <1>4 DEF OwnPrio
  <2> HIDE DEF e
  <2>3. e \in Mutexes(ecb) /\ ecb[e].ptr = t /\ OwnPrio(t) = Saved(ecb[e])
    BY <2>1, <2>2, OwnersAre
  <2>4. Owns(ecb, t) /\ p = Saved(ecb[e]) + 1 /\ Saved(ecb[e]) \in Nat
    BY <1>1, <1>2, <2>3 DEF Owns
  <2>5. \A f \in Mutexes(ecb) : ecb[f].ptr = t => f = e
    BY <1>3, <2>3
  <2> HIDE DEF Raising
  <2> QED
    BY <1>1, <2>4, <2>5 DEF PrioIs
<1>5. CASE ~ \E e \in Events : e \in Raising
  <2>1. OwnPrio(t) = tcb[t].prio
    BY <1>5 DEF OwnPrio
  <2>2. \A e \in Mutexes(ecb) : ecb[e].ptr = t => tcb[t].prio = Saved(ecb[e])
    BY <1>2, <1>5, OwnersAre DEF Mutexes
  <2>3. p = tcb[t].prio + 1 /\ tcb[t].prio \in Nat
    BY <1>1, <2>1
  <2> HIDE DEF Raising
  <2> QED
    BY <1>1, <2>2, <2>3 DEF PrioIs
<1> QED
  BY <1>4, <1>5

LEMMA MappedNow ==
  ASSUME KernelInv
  PROVE  Mapped
<1>1. ASSUME NEW e \in Events
      PROVE  KindsNow[e] = ecb[e].type /\ StocksNow[e] = StockIn(ecb[e], OSQTbl)
  BY DEF KindsNow, StocksNow, StockOf, StockIn, QueueOf, Owner, Contents
<1>2. ASSUME NEW t \in Tasks
      PROVE  WaitsNow[t] = WaitsOf(tcb[t], pc[t]) /\ ResultsNow[t] = ResultIn(tcb[t], pc[t])
  BY WaitsMapped DEF WaitsNow, ResultsNow, WaitsFor, ResultOf
<1>3. ASSUME NEW t \in Tasks
      PROVE  PrioIs(t, PriosNow[t], tcb, pc, ecb)
  <2>1. PriosNow[t] = IF Exists(t) THEN OwnPrio(t) + 1 ELSE 0
    BY DEF PriosNow, Exists, OwnPrio, IsMutex, Owner, Raised, OwnerPrio, HasCeiling, PCP
  <2>2. Exists(t) <=> t \in LiveSet(pc)
    BY DEF Exists, LiveSet, Live
  <2>3. ~Live(pc[t]) <=> t \notin LiveSet(pc)
    BY DEF LiveSet
  <2> QED
    BY <2>1, <2>2, <2>3, PrioMapped DEF PrioIs
<1> QED
  BY <1>1, <1>2, <1>3, FunctionsNow DEF Mapped

-----------------------------------------------------------------------------
(* What a ring buffer holds *)

LEMMA Quotient ==
  ASSUME NEW x \in Int, NEW m \in Nat \ {0}
  PROVE  /\ x = m * (x \div m) + (x % m) /\ x % m \in Int
         /\ 0 <= x /\ x < m => x \div m = 0
         /\ m <= x /\ x < 2 * m => x \div m = 1
<1> DEFINE q == x \div m
           r == x % m
<1>1. x = m * q + r /\ r \in 0..(m - 1) /\ q \in Int
  OBVIOUS
<1> HIDE DEF q, r
<1>2. /\ 0 <= x /\ x < m => q = 0
      /\ m <= x /\ x < 2 * m => q = 1
  BY <1>1
<1> QED
  BY <1>1, <1>2 DEF q, r

LEMMA Wraps ==
  ASSUME NEW x \in Int, 0 <= x, x < 2 * QSize
  PROVE  x % QSize = Wrapped(x) /\ Wrapped(x) \in 0..(QSize - 1)
<1>1. QSize \in Nat \ {0}
  BY EventsAssumption
<1>2. CASE x < QSize
  <2>1. x = QSize * 0 + (x % QSize) /\ x % QSize \in Int
    BY <1>1, <1>2, Quotient
  <2> QED
    BY <1>1, <1>2, <2>1 DEF Wrapped
<1>3. CASE ~(x < QSize)
  <2>1. x = QSize * 1 + (x % QSize) /\ x % QSize \in Int
    BY <1>1, <1>3, Quotient
  <2> QED
    BY <1>1, <1>3, <2>1 DEF Wrapped
<1> QED
  BY <1>2, <1>3

\* The messages of a ring by their slots.
LEMMA RingSlots ==
  ASSUME NEW q \in Rings
  PROVE  /\ Contents(q) = [i \in 1..q.entries |-> q.slots[Wrapped(q.out + i - 1)]]
         /\ \A i \in 1..q.entries : Wrapped(q.out + i - 1) \in 0..(QSize - 1)
<1>1. ASSUME NEW i \in 1..q.entries
      PROVE  /\ (q.out + i - 1) % QSize = Wrapped(q.out + i - 1)
             /\ Wrapped(q.out + i - 1) \in 0..(QSize - 1)
  <2>1. q.out + i - 1 \in Int /\ 0 <= q.out + i - 1 /\ q.out + i - 1 < 2 * QSize
    BY RingFields
  <2> QED
    BY <2>1, Wraps
<1> QED
  BY <1>1 DEF Contents

\* What a ring holds, as a sequence of messages.
LEMMA ContentsOf ==
  ASSUME NEW q \in Rings
  PROVE  /\ Contents(q) \in Seq(Msgs \cup {NULL}) /\ Len(Contents(q)) = q.entries
         /\ \A i \in 1..q.entries : Contents(q)[i] = q.slots[Wrapped(q.out + i - 1)]
<1>1. /\ q.entries \in Nat
      /\ q.slots \in [0..(QSize - 1) -> Msgs \cup {NULL}]
  BY RingFields
<1>2. /\ Contents(q) = [i \in 1..q.entries |-> q.slots[Wrapped(q.out + i - 1)]]
      /\ \A i \in 1..q.entries : Wrapped(q.out + i - 1) \in 0..(QSize - 1)
  BY RingSlots
<1>3. \A i \in 1..q.entries : q.slots[Wrapped(q.out + i - 1)] \in Msgs \cup {NULL}
  BY <1>1, <1>2
<1> HIDE DEF Wrapped
<1>4. Contents(q) \in [1..q.entries -> Msgs \cup {NULL}]
  BY <1>2, <1>3
<1>5. Contents(q) \in Seq(Msgs \cup {NULL}) /\ Len(Contents(q)) = q.entries
  BY <1>1, <1>4
<1> QED
  BY <1>2, <1>5

LEMMA ContentsTaken ==
  ASSUME NEW q \in Rings, q.entries > 0, NEW r \in Rings,
         r.slots = q.slots, r.out = NextSlot(q.out), r.entries = q.entries - 1
  PROVE  /\ Contents(q) # <<>> /\ Head(Contents(q)) = q.slots[q.out]
         /\ Contents(r) = Tail(Contents(q))
<1>1. /\ QSize \in Nat /\ QSize # 0 /\ q.out \in 0..(QSize - 1) /\ q.entries \in 0..QSize
  BY RingFields
<1>2. /\ Contents(q) \in Seq(Msgs \cup {NULL}) /\ Len(Contents(q)) = q.entries
      /\ Contents(r) \in Seq(Msgs \cup {NULL}) /\ Len(Contents(r)) = q.entries - 1
  BY ContentsOf
<1>3. Contents(q) # <<>> /\ Head(Contents(q)) = q.slots[q.out]
  <2>1. 1 \in 1..q.entries /\ Wrapped(q.out + 1 - 1) = q.out
    BY <1>1 DEF Wrapped
  <2>2. Contents(q)[1] = q.slots[q.out]
    BY <2>1, ContentsOf
  <2> QED
    BY <1>1, <1>2, <2>2
<1>4. ASSUME NEW i \in 1..(q.entries - 1)
      PROVE  Contents(r)[i] = Contents(q)[i + 1]
  <2>1. i + 1 \in 1..q.entries /\ i \in 1..r.entries
    BY <1>1
  <2>2. /\ Contents(r)[i] = r.slots[Wrapped(r.out + i - 1)]
        /\ Contents(q)[i + 1] = q.slots[Wrapped(q.out + (i + 1) - 1)]
    BY <2>1, ContentsOf
  <2>3. Wrapped(r.out + i - 1) = Wrapped(q.out + (i + 1) - 1)
    BY <1>1, <2>1 DEF Wrapped, NextSlot
  <2> QED
    BY <2>2, <2>3
<1>5. Contents(r) = Tail(Contents(q))
  <2>1. /\ Tail(Contents(q)) \in Seq(Msgs \cup {NULL}) /\ Len(Tail(Contents(q))) = q.entries - 1
        /\ \A i \in 1..(q.entries - 1) : Tail(Contents(q))[i] = Contents(q)[i + 1]
    BY <1>2, <1>3
  <2> QED
    BY <1>2, <1>4, <2>1, SeqEqual
<1> QED
  BY <1>3, <1>5

LEMMA ContentsEmpty ==
  ASSUME NEW q, q.entries = 0
  PROVE  Contents(q) = <<>>
BY DEF Contents

LEMMA ContentsAppended ==
  ASSUME NEW q \in Rings, q.entries < QSize, NEW msg \in Msgs \cup {NULL}, NEW r \in Rings,
         r.slots = Slots(q, q.in, msg), r.out = q.out, r.entries = q.entries + 1
  PROVE  Contents(r) = Append(Contents(q), msg)
<1>1. /\ QSize \in Nat /\ QSize # 0 /\ q.out \in 0..(QSize - 1) /\ q.entries \in 0..QSize
      /\ q.in \in 0..(QSize - 1) /\ q.in = Wrapped(q.out + q.entries)
      /\ q.slots \in [0..(QSize - 1) -> Msgs \cup {NULL}]
  BY RingFields DEF RingOK
<1>2. /\ Contents(q) \in Seq(Msgs \cup {NULL}) /\ Len(Contents(q)) = q.entries
      /\ Contents(r) \in Seq(Msgs \cup {NULL}) /\ Len(Contents(r)) = q.entries + 1
  BY ContentsOf
<1>3. /\ Append(Contents(q), msg) \in Seq(Msgs \cup {NULL})
      /\ Len(Append(Contents(q), msg)) = q.entries + 1
      /\ Append(Contents(q), msg)[q.entries + 1] = msg
      /\ \A i \in 1..q.entries : Append(Contents(q), msg)[i] = Contents(q)[i]
  BY <1>2
<1>4. ASSUME NEW i \in 1..(q.entries + 1)
      PROVE  Contents(r)[i] = Append(Contents(q), msg)[i]
  <2>1. Contents(r)[i] = Slots(q, q.in, msg)[Wrapped(q.out + i - 1)]
    BY ContentsOf
  <2>2. Wrapped(q.out + i - 1) \in 0..(QSize - 1) /\ i \in 1..r.entries
    BY <1>1 DEF Wrapped
  <2>3. CASE i = q.entries + 1
    <3>1. Wrapped(q.out + i - 1) = q.in
      BY <1>1, <2>3
    <3> QED
      BY <1>1, <1>3, <2>1, <2>3, <3>1 DEF Slots
  <2>4. CASE i \in 1..q.entries
    <3>1. Wrapped(q.out + i - 1) # q.in
      BY <1>1, <2>4 DEF Wrapped
    <3>2. Contents(q)[i] = q.slots[Wrapped(q.out + i - 1)]
      BY <2>4, ContentsOf
    <3> QED
      BY <1>1, <1>3, <2>1, <2>2, <2>4, <3>1, <3>2 DEF Slots
  <2>5. i = q.entries + 1 \/ i \in 1..q.entries
    <3>1. q.entries \in Nat
      BY <1>1
    <3> QED
      BY <3>1
  <2> QED
    BY <2>3, <2>4, <2>5
<1> QED
  BY <1>2, <1>3, <1>4, SeqEqual

LEMMA ContentsPrepended ==
  ASSUME NEW q \in Rings, q.entries < QSize, NEW msg \in Msgs \cup {NULL}, NEW r \in Rings,
         r.slots = Slots(q, PrevSlot(q.out), msg), r.out = PrevSlot(q.out),
         r.entries = q.entries + 1
  PROVE  Contents(r) = <<msg>> \o Contents(q)
<1>1. /\ QSize \in Nat /\ QSize # 0 /\ q.out \in 0..(QSize - 1) /\ q.entries \in 0..QSize
      /\ q.slots \in [0..(QSize - 1) -> Msgs \cup {NULL}]
  BY RingFields
<1>2. /\ Contents(q) \in Seq(Msgs \cup {NULL}) /\ Len(Contents(q)) = q.entries
      /\ Contents(r) \in Seq(Msgs \cup {NULL}) /\ Len(Contents(r)) = q.entries + 1
  BY ContentsOf
<1>3. /\ <<msg>> \o Contents(q) \in Seq(Msgs \cup {NULL})
      /\ Len(<<msg>> \o Contents(q)) = q.entries + 1
      /\ (<<msg>> \o Contents(q))[1] = msg
      /\ \A i \in 2..(q.entries + 1) : (<<msg>> \o Contents(q))[i] = Contents(q)[i - 1]
  BY <1>1, <1>2
<1>4. ASSUME NEW i \in 1..(q.entries + 1)
      PROVE  Contents(r)[i] = (<<msg>> \o Contents(q))[i]
  <2>1. Contents(r)[i] = Slots(q, PrevSlot(q.out), msg)[Wrapped(PrevSlot(q.out) + i - 1)]
    BY ContentsOf
  <2>2. /\ Wrapped(PrevSlot(q.out) + i - 1) \in 0..(QSize - 1)
        /\ PrevSlot(q.out) \in 0..(QSize - 1)
    BY <1>1 DEF Wrapped, PrevSlot
  <2>3. CASE i = 1
    <3>1. Wrapped(PrevSlot(q.out) + i - 1) = PrevSlot(q.out)
      BY <1>1, <2>2, <2>3 DEF Wrapped
    <3> QED
      BY <1>1, <1>3, <2>1, <2>2, <2>3, <3>1 DEF Slots
  <2>4. CASE i \in 2..(q.entries + 1)
    <3>1. i - 1 \in 1..q.entries
      BY <1>1, <2>4
    <3>2. Wrapped(PrevSlot(q.out) + i - 1) = Wrapped(q.out + (i - 1) - 1)
      BY <1>1, <2>4 DEF Wrapped, PrevSlot
    <3>3. Wrapped(PrevSlot(q.out) + i - 1) # PrevSlot(q.out)
      BY <1>1, <2>4 DEF Wrapped, PrevSlot
    <3>4. Contents(q)[i - 1] = q.slots[Wrapped(q.out + (i - 1) - 1)]
      BY <3>1, ContentsOf
    <3> QED
      BY <1>1, <1>3, <2>1, <2>2, <2>4, <3>2, <3>3, <3>4 DEF Slots
  <2>5. i = 1 \/ i \in 2..(q.entries + 1)
    <3>1. q.entries \in Nat
      BY <1>1
    <3> QED
      BY <3>1
  <2> QED
    BY <2>3, <2>4, <2>5
<1> QED
  BY <1>2, <1>3, <1>4, SeqEqual

-----------------------------------------------------------------------------
(* What EventService sees of a step *)

SameEvent(e) ==
  ecb'[e].type = ecb[e].type /\ StockIn(ecb'[e], OSQTbl') = StockIn(ecb[e], OSQTbl)

SameTask(t) ==
  /\ WaitsOf(tcb'[t], pc'[t]) = WaitsOf(tcb[t], pc[t])
  /\ ResultIn(tcb'[t], pc'[t]) = ResultIn(tcb[t], pc[t])

\* The priority that a task has or gets back when it posts its mutex.
BaseIs(t, b, tcbs, ecbs) ==
  \/ \E e \in Mutexes(ecbs) : ecbs[e].ptr = t /\ Saved(ecbs[e]) = b
  \/ ~Owns(ecbs, t) /\ tcbs[t].prio = b

SamePrioOf(t) ==
  /\ Live(pc'[t]) <=> Live(pc[t])
  /\ Live(pc[t]) => \E b : BaseIs(t, b, tcb, ecb) /\ BaseIs(t, b, tcb', ecb')

LEMMA EventsKept ==
  ASSUME Mapped, Mapped', \A e \in Events : SameEvent(e)
  PROVE  UNCHANGED <<KindsNow, StocksNow>>
BY DEF Mapped, Functions, SameEvent

LEMMA EventSet ==
  ASSUME Mapped, Mapped', NEW e \in Events, \A f \in Events \ {e} : SameEvent(f)
  PROVE  /\ KindsNow' = [KindsNow EXCEPT ![e] = ecb'[e].type]
         /\ StocksNow' = [StocksNow EXCEPT ![e] = StockIn(ecb'[e], OSQTbl')]
BY DEF Mapped, Functions, SameEvent

LEMMA TasksKept ==
  ASSUME Mapped, Mapped', \A t \in Tasks : SameTask(t)
  PROVE  UNCHANGED <<WaitsNow, ResultsNow>>
BY DEF Mapped, Functions, SameTask

LEMMA TaskSet ==
  ASSUME Mapped, Mapped', NEW x \in Tasks, \A t \in Tasks \ {x} : SameTask(t)
  PROVE  /\ WaitsNow' = [WaitsNow EXCEPT ![x] = WaitsOf(tcb'[x], pc'[x])]
         /\ ResultsNow' = [ResultsNow EXCEPT ![x] = ResultIn(tcb'[x], pc'[x])]
BY DEF Mapped, Functions, SameTask

LEMMA PrioOf ==
  ASSUME NEW t, NEW p, NEW q, NEW b, NEW tcbs, NEW pcs, NEW ecbs, NEW tcbs2, NEW pcs2, NEW ecbs2,
         PrioIs(t, p, tcbs, pcs, ecbs), PrioIs(t, q, tcbs2, pcs2, ecbs2),
         Live(pcs[t]), Live(pcs2[t]), BaseIs(t, b, tcbs, ecbs), BaseIs(t, b, tcbs2, ecbs2)
  PROVE  p = q
BY DEF PrioIs, BaseIs

LEMMA PrioMappedSame ==
  ASSUME Mapped, Mapped', NEW t \in Tasks, SamePrioOf(t)
  PROVE  PriosNow'[t] = PriosNow[t]
<1>1. PrioIs(t, PriosNow[t], tcb, pc, ecb) /\ PrioIs(t, PriosNow'[t], tcb', pc', ecb')
  BY DEF Mapped
<1>2. CASE Live(pc[t])
  BY <1>1, <1>2, PrioOf DEF SamePrioOf
<1>3. CASE ~Live(pc[t])
  BY <1>1, <1>3 DEF SamePrioOf, PrioIs
<1> QED
  BY <1>2, <1>3

LEMMA PriosKept ==
  ASSUME Mapped, Mapped', \A t \in Tasks : SamePrioOf(t)
  PROVE  PriosNow' = PriosNow
BY PrioMappedSame DEF Mapped, Functions

LEMMA PrioSet ==
  ASSUME Mapped, Mapped', NEW x \in Tasks, \A t \in Tasks \ {x} : SamePrioOf(t)
  PROVE  PriosNow' = [PriosNow EXCEPT ![x] = PriosNow'[x]]
<1>1. \A t \in Tasks \ {x} : PriosNow'[t] = PriosNow[t]
  BY PrioMappedSame
<1> QED
  BY <1>1 DEF Mapped, Functions

\* What each of these says in terms of the variables.
LEMMA EventIsSame ==
  ASSUME NEW e, ecb'[e] = ecb[e], ecb[e].type = "Q" => OSQTbl'[ecb[e].ptr] = OSQTbl[ecb[e].ptr]
  PROVE  SameEvent(e)
BY DEF SameEvent, StockIn

LEMMA EventsAreSame ==
  ASSUME ecb' = ecb, OSQTbl' = OSQTbl
  PROVE  \A e \in Events : SameEvent(e)
BY DEF SameEvent

LEMMA TaskIsSame ==
  ASSUME NEW t, tcb'[t] = tcb[t], pc'[t] = pc[t]
  PROVE  SameTask(t)
BY DEF SameTask

LEMMA PrioIsSame ==
  ASSUME MutexesStay, NEW t, tcb'[t].prio = tcb[t].prio, Live(pc'[t]) <=> Live(pc[t])
  PROVE  SamePrioOf(t)
<1>1. Mutexes(ecb') = Mutexes(ecb) /\ \A e \in Mutexes(ecb) : ecb'[e] = ecb[e]
  BY DEF MutexesStay, Mutexes
<1>2. CASE Owns(ecb, t)
  <2>1. PICK e \in Mutexes(ecb) : ecb[e].ptr = t
    BY <1>2 DEF Owns
  <2>2. BaseIs(t, Saved(ecb[e]), tcb, ecb) /\ BaseIs(t, Saved(ecb[e]), tcb', ecb')
    BY <1>1, <2>1 DEF BaseIs
  <2> QED
    BY <2>2 DEF SamePrioOf
<1>3. CASE ~Owns(ecb, t)
  <2>1. ~Owns(ecb', t)
    BY <1>1, <1>3 DEF Owns
  <2> QED
    BY <1>3, <2>1 DEF BaseIs, SamePrioOf
<1> QED
  BY <1>2, <1>3

LEMMA PriosAreSame ==
  ASSUME MutexesStay, \A t \in Tasks : tcb'[t].prio = tcb[t].prio /\ (Live(pc'[t]) <=> Live(pc[t]))
  PROVE  \A t \in Tasks : SamePrioOf(t)
BY PrioIsSame

-----------------------------------------------------------------------------
(* Ticks and task services *)

Unseen ==
  /\ \A e \in Events : SameEvent(e)
  /\ \A t \in Tasks : SameTask(t) /\ SamePrioOf(t)

LEMMA UnseenIsStutter ==
  ASSUME Mapped, Mapped', Unseen
  PROVE  UNCHANGED Abstract!vars
BY EventsKept, TasksKept, PriosKept DEF Unseen, Abstract!vars

InAnsweredPend(c, k) == k.at = "pend" /\ ~Unans(c, k)

LEMMA TcbsUnseen ==
  ASSUME WaitsStay, ecb' = ecb, OSQTbl' = OSQTbl,
         \A t \in Tasks :
           /\ tcb'[t].prio = tcb[t].prio
           /\ InAnsweredPend(tcb[t], pc[t]) => AnswerIn(tcb'[t]) = AnswerIn(tcb[t])
  PROVE  Unseen
<1>1. \A e \in Events : SameEvent(e)
  BY EventsAreSame
<1>2. \A t \in Tasks : SamePrioOf(t)
  BY SameEcb, PriosAreSame DEF WaitsStay
<1>3. ASSUME NEW t \in Tasks
      PROVE  SameTask(t)
  <2>1. pc' = pc /\ (Unans(tcb'[t], pc[t]) <=> Unans(tcb[t], pc[t]))
    BY DEF WaitsStay
  <2> QED
    BY <2>1 DEF SameTask, WaitsOf, ResultIn, InAnsweredPend
<1> QED
  BY <1>1, <1>2, <1>3 DEF Unseen

\* A delay or a timeout runs only until the answer.
LEMMA AnsweredHasNoDelay ==
  ASSUME KernelInv, NEW t \in Tasks, InAnsweredPend(tcb[t], pc[t])
  PROVE  tcb[t].dly = 0
<1>1. Shape(tcb[t], pc[t], ecb)
  BY DEF KernelInv, Data
<1> QED
  BY <1>1 DEF Shape, WaitShape, InAnsweredPend

LEMMA TcbUnseen ==
  ASSUME KernelInv, WaitsStay, ecb' = ecb, OSQTbl' = OSQTbl,
         NEW x \in Tasks, NEW c, tcb' = [tcb EXCEPT ![x] = c], c.prio = tcb[x].prio,
         InAnsweredPend(tcb[x], pc[x]) => tcb[x].dly # 0 \/ AnswerIn(c) = AnswerIn(tcb[x])
  PROVE  Unseen
<1>1. DOMAIN tcb = Tasks
  BY DEF KernelInv, Data
<1>2. tcb'[x] = c /\ \A t \in Tasks \ {x} : tcb'[t] = tcb[t]
  BY <1>1
<1>3. InAnsweredPend(tcb[x], pc[x]) => AnswerIn(c) = AnswerIn(tcb[x])
  BY AnsweredHasNoDelay
<1>4. ASSUME NEW t \in Tasks
      PROVE  /\ tcb'[t].prio = tcb[t].prio
             /\ InAnsweredPend(tcb[t], pc[t]) => AnswerIn(tcb'[t]) = AnswerIn(tcb[t])
  BY <1>2, <1>3
<1> QED
  BY <1>4, TcbsUnseen

LEMMA TickUnseen ==
  ASSUME KernelInv, OSTimeTick, ecb' = ecb, holds' = holds, OSQTbl' = OSQTbl
  PROVE  Unseen
<1>1. tcb \in [Tasks -> OS_TCB] /\ WaitsStay
  BY OSTimeTickKernel DEF KernelInv, Data
<1>2. ASSUME NEW t \in Tasks
      PROVE  /\ tcb'[t].prio = tcb[t].prio
             /\ InAnsweredPend(tcb[t], pc[t]) => AnswerIn(tcb'[t]) = AnswerIn(tcb[t])
  <2> DEFINE c == [tcb[t] EXCEPT !.dly = tcb[t].dly - 1]
  <2>1. tcb'[t] = tcb[t] \/ (tcb[t].dly # 0 /\ (tcb'[t] = c \/ tcb'[t] = EndOfWait(c)))
    BY DEF OSTimeTick
  <2>2. c.prio = tcb[t].prio /\ EndOfWait(c).prio = tcb[t].prio
    BY <1>1, EndOfWaitPrio
  <2> HIDE DEF c
  <2> QED
    BY <2>1, <2>2, AnsweredHasNoDelay
<1> QED
  BY <1>1, <1>2, TcbsUnseen

LEMMA DlyUnseen ==
  ASSUME KernelInv, NEW ticks \in 1..MaxDly, OSTimeDly(ticks), ecb' = ecb, holds' = holds,
         OSQTbl' = OSQTbl
  PROVE  Unseen
<1> DEFINE c == [tcb[OSTCBCur] EXCEPT !.dly = ticks]
<1>1. OSTCBCur \in Tasks /\ tcb' = [tcb EXCEPT ![OSTCBCur] = c] /\ pc[OSTCBCur].at # "pend"
  BY DEF OSTimeDly, TaskCall, InTask
<1>2. c.prio = tcb[OSTCBCur].prio
  BY <1>1, EndOfWaitPrio DEF KernelInv, Data
<1> HIDE DEF c
<1> QED
  BY <1>1, <1>2, OSTimeDlyKernel, TcbUnseen DEF InAnsweredPend

LEMMA ResumeUnseen ==
  ASSUME KernelInv, NEW p \in Prios, OSTimeDlyResume(p), ecb' = ecb, holds' = holds,
         OSQTbl' = OSQTbl
  PROVE  Unseen
<1> DEFINE x == OSTCBPrioTbl[p]
           c == EndOfWait([tcb[x] EXCEPT !.dly = 0])
<1>1. x \in Tasks /\ tcb' = [tcb EXCEPT ![x] = c] /\ tcb[x].dly # 0
  BY DEF OSTimeDlyResume
<1>2. c.prio = tcb[x].prio
  BY <1>1, EndOfWaitPrio DEF KernelInv, Data
<1> HIDE DEF c, x
<1> QED
  BY <1>1, <1>2, OSTimeDlyResumeKernel, TcbUnseen

LEMMA SuspendUnseen ==
  ASSUME KernelInv, Hazards = {}, NEW p \in Prios, OSTaskSuspend(p) \/ OSTaskResume(p),
         ecb' = ecb, holds' = holds, OSQTbl' = OSQTbl
  PROVE  Unseen
<1> DEFINE x == OSTCBPrioTbl[p]
<1>1. PICK s : x \in Tasks /\ tcb' = [tcb EXCEPT ![x].stat = s]
  BY DEF OSTaskSuspend, OSTaskResume
<1> DEFINE c == [tcb[x] EXCEPT !.stat = s]
<1>2. c.prio = tcb[x].prio /\ AnswerIn(c) = AnswerIn(tcb[x])
  BY <1>1 DEF OS_TCB, AnswerIn, KernelInv, Data
<1>3. tcb' = [tcb EXCEPT ![x] = c]
  BY <1>1
<1>4. WaitsStay
  BY OSTaskSuspendKernel, OSTaskResumeKernel
<1> HIDE DEF c, x
<1> QED
  BY <1>1, <1>2, <1>3, <1>4, TcbUnseen

LEMMA SameUnseen ==
  ASSUME tcb' = tcb, pc' = pc, ecb' = ecb, OSQTbl' = OSQTbl
  PROVE  Unseen
<1>1. WaitsStay
  BY DEF WaitsStay
<1> QED
  BY <1>1, TcbsUnseen

\* A step of EventService, or one that it does not see.
AbstractStep == [Abstract!Next]_(Abstract!vars)

LEMMA StutterStep ==
  ASSUME Mapped, Mapped', Unseen
  PROVE  AbstractStep
BY UnseenIsStutter DEF AbstractStep

LEMMA TasksStep ==
  ASSUME NEW t \in Tasks,
         \/ Abstract!TimeOut(t) \/ Abstract!GoOn(t) \/ Abstract!SetPrio(t, PriosNow'[t])
         \/ \E S \in SUBSET Events : Abstract!TakeFrom(t, S) \/ Abstract!Wait(t, S)
  PROVE  AbstractStep
BY DEF AbstractStep, Abstract!Next

\* What a step of one task leaves of the others.
LEMMA OthersSame ==
  ASSUME MutexesStay, NEW x, \A t \in Tasks \ {x} : tcb'[t] = tcb[t] /\ pc'[t] = pc[t]
  PROVE  \A t \in Tasks \ {x} : SameTask(t) /\ SamePrioOf(t)
BY TaskIsSame, PrioIsSame

LEMMA TaskStepSeen ==
  ASSUME KernelInv, Mapped, Mapped', TaskStep, ecb' = ecb, OSQTbl' = OSQTbl
  PROVE  AbstractStep
<1> DEFINE x == OSTCBCur
<1>1. /\ x \in Tasks /\ pc[x].at = "returned" /\ pc' = [pc EXCEPT ![x] = InTask] /\ tcb' = tcb
      /\ DOMAIN pc = Tasks
  BY DEF TaskStep, KernelInv, Data
<1> HIDE DEF x
<1>2. /\ pc'[x] = InTask /\ \A t \in Tasks \ {x} : tcb'[t] = tcb[t] /\ pc'[t] = pc[t]
      /\ InTask.at = "task"
  BY <1>1 DEF InTask
<1>3. MutexesStay /\ \A t \in Tasks : SamePrioOf(t)
  BY <1>1, <1>2, SameEcb, PrioIsSame DEF Live
<1>4. \A t \in Tasks \ {x} : SameTask(t)
  BY <1>2, <1>3, OthersSame
<1>5. /\ WaitsOf(tcb'[x], pc'[x]) = {} /\ WaitsOf(tcb[x], pc[x]) = {}
      /\ ResultIn(tcb'[x], pc'[x]) = Nothing
  BY <1>1, <1>2 DEF WaitsOf, ResultIn, Unans
<1>6. WaitsNow[x] = {}
  BY <1>1, <1>5 DEF Mapped
<1>7. UNCHANGED <<KindsNow, StocksNow, PriosNow>>
  BY <1>3, EventsAreSame, EventsKept, PriosKept
<1>8. /\ WaitsNow' = [WaitsNow EXCEPT ![x] = {}]
      /\ ResultsNow' = [ResultsNow EXCEPT ![x] = Nothing]
  BY <1>1, <1>4, <1>5, TaskSet
<1>9. WaitsNow' = WaitsNow
  BY <1>1, <1>6, <1>8 DEF Mapped, Functions
<1>10. CASE ResultsNow[x] # Nothing
  <2>1. Abstract!GoOn(x)
    BY <1>6, <1>7, <1>8, <1>9, <1>10 DEF Abstract!GoOn, Abstract!NoResult, Nothing
  <2> QED
    BY <1>1, <2>1, TasksStep
<1>11. CASE ResultsNow[x] = Nothing
  <2>1. ResultsNow' = ResultsNow
    BY <1>1, <1>8, <1>11 DEF Mapped, Functions
  <2> QED
    BY <1>7, <1>9, <2>1 DEF AbstractStep, Abstract!vars
<1> QED
  BY <1>10, <1>11

LEMMA ChangePrioSeen ==
  ASSUME KernelInv, Mapped, Mapped', Hazards = {}, NotesKept, NEW p \in Prios, NEW q \in Prios,
         OSTaskChangePrio(p, q), ecb' = ecb, holds' = holds, OSQTbl' = OSQTbl
  PROVE  AbstractStep
<1> DEFINE x == OSTCBPrioTbl[p]
<1>1. /\ x \in LiveSet(pc) /\ x \in Tasks /\ tcb[x] \in OS_TCB /\ Live(pc[x])
      /\ tcb' = [tcb EXCEPT ![x].prio = q] /\ pc' = pc /\ DOMAIN tcb = Tasks
  BY TaskAt DEF OSTaskChangePrio, KernelInv, Data
<1>2. WaitsStay
  BY OSTaskChangePrioKernel
<1> DEFINE c == [tcb[x] EXCEPT !.prio = q]
<1>3. tcb'[x] = c /\ AnswerIn(c) = AnswerIn(tcb[x])
  BY <1>1 DEF OS_TCB, AnswerIn
<1> HIDE DEF c, x
<1>4. \A t \in Tasks \ {x} : tcb'[t] = tcb[t] /\ pc'[t] = pc[t]
  BY <1>1
<1>5. \A t \in Tasks \ {x} : SameTask(t) /\ SamePrioOf(t)
  BY <1>4, SameEcb, OthersSame
<1>6. SameTask(x)
  <2>1. Unans(tcb'[x], pc[x]) <=> Unans(tcb[x], pc[x])
    BY <1>1, <1>2 DEF WaitsStay
  <2> QED
    BY <1>1, <1>3, <2>1 DEF SameTask, WaitsOf, ResultIn
<1>7. UNCHANGED <<KindsNow, StocksNow, WaitsNow, ResultsNow>>
  BY <1>5, <1>6, EventsAreSame, EventsKept, TasksKept
<1>8. PriosNow[x] # 0 /\ PriosNow'[x] # 0
  BY <1>1 DEF Mapped, PrioIs
<1>9. PriosNow' = [PriosNow EXCEPT ![x] = PriosNow'[x]]
  BY <1>1, <1>5, PrioSet
<1>10. Abstract!SetPrio(x, PriosNow'[x])
  BY <1>7, <1>8, <1>9 DEF Abstract!SetPrio
<1> QED
  BY <1>1, <1>10, TasksStep

LEMMA DeleteTaskSeen ==
  ASSUME KernelInv, Mapped, Mapped', NEW p \in Prios, DeleteTask(p)
  PROVE  AbstractStep
<1> DEFINE x == OSTCBPrioTbl[p]
           c == NewTCB(InitPrio[x])
<1>1. /\ x \in Tasks /\ Live(pc[x]) /\ pc' = [pc EXCEPT ![x] = Dormant]
      /\ tcb' = [tcb EXCEPT ![x] = c] /\ DOMAIN tcb = Tasks /\ DOMAIN pc = Tasks
      /\ ecb' = ecb /\ OSQTbl' = OSQTbl
  BY TaskAt DEF DeleteTask, OSTaskDel, eventVars, KernelInv, Data
<1> HIDE DEF x, c
<1>2. \A t \in Tasks \ {x} : tcb'[t] = tcb[t] /\ pc'[t] = pc[t]
  BY <1>1
<1>3. \A t \in Tasks \ {x} : SameTask(t) /\ SamePrioOf(t)
  BY <1>1, <1>2, SameEcb, OthersSame
<1>4. pc'[x].at = "dormant"
  BY <1>1 DEF Dormant
<1>5. WaitsOf(tcb'[x], pc'[x]) = {} /\ ResultIn(tcb'[x], pc'[x]) = Nothing
  BY <1>4 DEF WaitsOf, ResultIn, Unans
<1>6. PriosNow'[x] = 0 /\ PriosNow[x] # 0
  BY <1>1, <1>4 DEF Mapped, PrioIs, Live
<1>7. UNCHANGED <<KindsNow, StocksNow>>
  BY <1>1, EventsAreSame, EventsKept
<1>8. /\ WaitsNow' = [WaitsNow EXCEPT ![x] = {}]
      /\ ResultsNow' = [ResultsNow EXCEPT ![x] = Nothing]
  BY <1>1, <1>3, <1>5, TaskSet
<1>9. PriosNow' = [PriosNow EXCEPT ![x] = PriosNow'[x]]
  BY <1>1, <1>3, PrioSet
<1>10. Abstract!SetPrio(x, PriosNow'[x])
  BY <1>6, <1>7, <1>8, <1>9 DEF Abstract!SetPrio, Abstract!NoResult, Nothing
<1> QED
  BY <1>1, <1>10, TasksStep

LEMMA CreateTaskSeen ==
  ASSUME KernelInv, Mapped, Mapped', NEW x \in Tasks, CreateTask(x)
  PROVE  AbstractStep
<1> DEFINE c == NewTCB(InitPrio[x])
<1>1. /\ ~Live(pc[x]) /\ pc' = [pc EXCEPT ![x] = InTask]
      /\ tcb' = [tcb EXCEPT ![x] = c] /\ DOMAIN tcb = Tasks /\ DOMAIN pc = Tasks
      /\ ecb' = ecb /\ OSQTbl' = OSQTbl
  BY DEF CreateTask, OSTaskCreate, eventVars, KernelInv, Data, Exists, Live
<1> HIDE DEF c
<1>2. \A t \in Tasks \ {x} : tcb'[t] = tcb[t] /\ pc'[t] = pc[t]
  BY <1>1
<1>3. \A t \in Tasks \ {x} : SameTask(t) /\ SamePrioOf(t)
  BY <1>1, <1>2, SameEcb, OthersSame
<1>4. pc'[x].at = "task" /\ pc[x].at = "dormant"
  BY <1>1 DEF InTask, Live
<1>5. /\ WaitsOf(tcb'[x], pc'[x]) = {} /\ ResultIn(tcb'[x], pc'[x]) = Nothing
      /\ WaitsOf(tcb[x], pc[x]) = {} /\ ResultIn(tcb[x], pc[x]) = Nothing
  BY <1>4 DEF WaitsOf, ResultIn, Unans
<1>6. PriosNow'[x] # 0 /\ WaitsNow'[x] = {} /\ ResultsNow'[x] = Nothing
  BY <1>4, <1>5 DEF Mapped, PrioIs, Live
<1>7. SameTask(x)
  BY <1>5 DEF SameTask
<1>8. UNCHANGED <<KindsNow, StocksNow, WaitsNow, ResultsNow>>
  BY <1>1, <1>3, <1>7, EventsAreSame, EventsKept, TasksKept
<1>9. PriosNow' = [PriosNow EXCEPT ![x] = PriosNow'[x]]
  BY <1>3, PrioSet
<1>10. Abstract!SetPrio(x, PriosNow'[x])
  BY <1>6, <1>8, <1>9 DEF Abstract!SetPrio, Abstract!Idle, Abstract!NoResult, Nothing
<1> QED
  BY <1>10, TasksStep

LEMMA TasksSeen ==
  ASSUME KernelInv, Mapped, Mapped', Hazards = {}, NotesKept, TasksNext,
         ecb' = ecb, holds' = holds, OSQTbl' = OSQTbl
  PROVE  AbstractStep
<1>1. CASE OSTimeTick
  BY <1>1, TickUnseen, StutterStep
<1>2. CASE TaskStep
  BY <1>2, TaskStepSeen
<1>3. CASE \E ticks \in 1..MaxDly : OSTimeDly(ticks)
  BY <1>3, DlyUnseen, StutterStep
<1>4. CASE \E p \in Prios : OSTimeDlyResume(p) \/ OSTaskSuspend(p) \/ OSTaskResume(p)
  BY <1>4, ResumeUnseen, SuspendUnseen, StutterStep
<1>5. CASE \E p \in Prios, q \in NewPrios : OSTaskChangePrio(p, q)
  <2>1. PICK p \in Prios, q \in NewPrios : OSTaskChangePrio(p, q)
    BY <1>5
  <2>2. q \in Prios
    BY TasksAssumption
  <2> QED
    BY <2>1, <2>2, ChangePrioSeen
<1>6. CASE OSSchedLock \/ OSSchedUnlock
  BY <1>6, SameUnseen, StutterStep DEF OSSchedLock, OSSchedUnlock
<1> QED
  BY <1>1, <1>2, <1>3, <1>4, <1>5, <1>6 DEF TasksNext

-----------------------------------------------------------------------------
(* The steps of EventService in terms of the variables *)

LEMMA EventsStep ==
  ASSUME NEW e \in Events,
         \/ Abstract!Create(e, KindsNow'[e], StocksNow'[e]) \/ Abstract!Delete(e)
         \/ Abstract!SetCount(e, Len(StocksNow'[e])) \/ Abstract!Flush(e) \/ Abstract!TakeAway(e)
         \/ \E i \in DOMAIN StocksNow'[e], front \in BOOLEAN :
              Abstract!Store(e, StocksNow'[e][i], front)
         \/ \E all \in BOOLEAN : Abstract!Abort(e, all)
         \/ \E t \in Tasks, all \in BOOLEAN : \E r \in ResultsNow'[t].got : Abstract!Post(e, r[2], all)
  PROVE  AbstractStep
BY DEF AbstractStep, Abstract!Next

StockNow(e) == StockIn(ecb[e], OSQTbl)

\* A task in its own code.
CanCall(x) ==
  /\ x \in Tasks /\ Live(pc[x])
  /\ WaitsOf(tcb[x], pc[x]) = {} /\ ResultIn(tcb[x], pc[x]) = Nothing

LEMMA CallerCan ==
  ASSUME OSTCBCur \in Tasks, pc[OSTCBCur] = InTask
  PROVE  CanCall(OSTCBCur)
<1>1. pc[OSTCBCur].at = "task"
  BY DEF InTask
<1> QED
  BY <1>1 DEF CanCall, Live, WaitsOf, Unans, ResultIn

LEMMA CanCallIsIdle ==
  ASSUME Mapped, NEW x, CanCall(x)
  PROVE  x \in Tasks /\ Abstract!Idle(x)
<1>1. PriosNow[x] # 0 /\ WaitsNow[x] = {} /\ ResultsNow[x] = Nothing
  BY DEF Mapped, CanCall, PrioIs
<1> QED
  BY <1>1 DEF CanCall, Abstract!Idle, Abstract!NoResult, Nothing

LEMMA SetToItself ==
  ASSUME Mapped, NEW x \in Tasks
  PROVE  /\ WaitsNow = [WaitsNow EXCEPT ![x] = WaitsNow[x]]
         /\ ResultsNow = [ResultsNow EXCEPT ![x] = ResultsNow[x]]
<1>1. WaitsNow = [t \in Tasks |-> WaitsNow[t]] /\ ResultsNow = [t \in Tasks |-> ResultsNow[t]]
  BY DEF Mapped, Functions
<1> QED
  BY <1>1

LEMMA TakenStep ==
  ASSUME Mapped, Mapped', NEW x, CanCall(x), NEW S \in SUBSET Events, S # {},
         \A e \in S : /\ StockNow(e) # <<>> /\ StockIn(ecb'[e], OSQTbl') = Tail(StockNow(e))
                      /\ ecb'[e].type = ecb[e].type,
         \A e \in Events \ S : SameEvent(e),
         \A t \in Tasks \ {x} : SameTask(t), \A t \in Tasks : SamePrioOf(t),
         WaitsOf(tcb'[x], pc'[x]) = {},
         ResultIn(tcb'[x], pc'[x]) = Told("NONE", {<<e, Head(StockNow(e))>> : e \in S})
  PROVE  AbstractStep
<1>1. x \in Tasks /\ Abstract!Idle(x) /\ WaitsNow[x] = {}
  BY CanCallIsIdle DEF Mapped, CanCall
<1>2. /\ \A e \in Events : KindsNow[e] = ecb[e].type /\ StocksNow[e] = StockNow(e)
      /\ \A e \in Events : KindsNow'[e] = ecb'[e].type /\ StocksNow'[e] = StockIn(ecb'[e], OSQTbl')
      /\ Functions /\ Functions'
  BY DEF Mapped, StockNow
<1>3. KindsNow' = KindsNow
  <2>1. \A e \in Events : ecb'[e].type = ecb[e].type
    BY DEF SameEvent
  <2>2. \A e \in Events : KindsNow'[e] = KindsNow[e]
    BY <1>2, <2>1
  <2> QED
    BY <1>2, <2>2 DEF Functions
<1>4. StocksNow' = [e \in Events |-> IF e \in S THEN Tail(StocksNow[e]) ELSE StocksNow[e]]
  <2>1. \A e \in Events : StocksNow'[e] = IF e \in S THEN Tail(StocksNow[e]) ELSE StocksNow[e]
    BY <1>2, Zenon DEF SameEvent, StockNow
  <2>2. StocksNow' = [e \in Events |-> StocksNow'[e]]
    BY <1>2 DEF Functions
  <2> QED
    BY <2>1, <2>2
<1>5. WaitsNow' = WaitsNow
  <2>1. WaitsNow' = [WaitsNow EXCEPT ![x] = {}]
    BY <1>1, TaskSet
  <2> QED
    BY <1>1, <2>1, SetToItself
<1>6. ResultsNow' = [ResultsNow EXCEPT ![x] =
                       [err |-> "NONE", got |-> {<<e, Head(StocksNow[e])>> : e \in S}]]
  <2>1. ResultsNow' = [ResultsNow EXCEPT ![x] = ResultIn(tcb'[x], pc'[x])]
    BY <1>1, TaskSet
  <2>2. {<<e, Head(StockNow(e))>> : e \in S} = {<<e, Head(StocksNow[e])>> : e \in S}
    BY <1>2
  <2> QED
    BY <2>1, <2>2 DEF Told
<1>7. PriosNow' = PriosNow
  BY PriosKept
<1>8. \A e \in S : StocksNow[e] # <<>>
  BY <1>2
<1>9. Abstract!TakeFrom(x, S)
  BY <1>1, <1>3, <1>4, <1>5, <1>6, <1>7, <1>8 DEF Abstract!TakeFrom
<1> QED
  BY <1>1, <1>9, TasksStep

LEMMA WaitedStep ==
  ASSUME Mapped, Mapped', NEW x, CanCall(x), NEW S \in SUBSET Events, S # {},
         \A e \in S : StockNow(e) = <<>> /\ ecb[e].type # "UNUSED",
         \A e \in Events : SameEvent(e),
         \A t \in Tasks \ {x} : SameTask(t), \A t \in Tasks : SamePrioOf(t),
         WaitsOf(tcb'[x], pc'[x]) = S, ResultIn(tcb'[x], pc'[x]) = Nothing
  PROVE  AbstractStep
<1>1. x \in Tasks /\ Abstract!Idle(x) /\ ResultsNow[x] = Nothing
  BY CanCallIsIdle DEF Mapped, CanCall
<1>2. UNCHANGED <<KindsNow, StocksNow, PriosNow>>
  BY EventsKept, PriosKept
<1>3. WaitsNow' = [WaitsNow EXCEPT ![x] = S] /\ ResultsNow' = [ResultsNow EXCEPT ![x] = Nothing]
  BY <1>1, TaskSet
<1>4. ResultsNow' = ResultsNow
  BY <1>1, <1>3, SetToItself
<1>5. \A e \in S : KindsNow[e] # "UNUSED" /\ StocksNow[e] = <<>>
  BY DEF Mapped, StockNow
<1>6. Abstract!Wait(x, S)
  BY <1>1, <1>2, <1>3, <1>4, <1>5 DEF Abstract!Wait
<1> QED
  BY <1>1, <1>6, TasksStep

-----------------------------------------------------------------------------
(* Taking what is there *)

LEMMA Nulls ==
  ASSUME NEW n \in Nat, n > 0
  PROVE  /\ [i \in 1..n |-> NULL] # <<>> /\ Head([i \in 1..n |-> NULL]) = NULL
         /\ Tail([i \in 1..n |-> NULL]) = [i \in 1..(n - 1) |-> NULL]
<1> DEFINE s == [i \in 1..n |-> NULL]
           r == [i \in 1..(n - 1) |-> NULL]
<1>1. s \in Seq({NULL}) /\ Len(s) = n /\ r \in Seq({NULL}) /\ Len(r) = n - 1
  OBVIOUS
<1>2. (\A i \in 1..n : s[i] = NULL) /\ \A i \in 1..(n - 1) : r[i] = NULL
  OBVIOUS
<1> HIDE DEF s, r
<1>3. s # <<>> /\ Head(s) = NULL
  BY <1>1, <1>2
<1>4. Tail(s) \in Seq({NULL}) /\ Len(Tail(s)) = n - 1 /\ \A i \in 1..(n - 1) : Tail(s)[i] = s[i + 1]
  BY <1>1, <1>3
<1>5. Tail(s) = r
  BY <1>1, <1>2, <1>4, SeqEqual
<1> QED
  BY <1>3, <1>5 DEF s, r

LEMMA SemTaken ==
  ASSUME StoresInv, NEW e \in Events, ecb[e].type = "SEM", ecb[e].cnt > 0, NEW queues,
         NEW m, m = [ecb[e] EXCEPT !.cnt = @ - 1]
  PROVE  /\ StockNow(e) # <<>> /\ Head(StockNow(e)) = NULL
         /\ StockIn(m, queues) = Tail(StockNow(e)) /\ m.type = "SEM"
<1>1. ecb[e] \in SemECBs
  BY EcbFields DEF StoresInv
<1>2. ecb[e].cnt \in Nat /\ m.type = "SEM" /\ m.cnt = ecb[e].cnt - 1
  BY <1>1, EventsAssumption DEF SemECBs, ECB
<1>3. StockNow(e) = [i \in 1..ecb[e].cnt |-> NULL]
  BY DEF StockNow, StockIn
<1>4. StockIn(m, queues) = [i \in 1..(ecb[e].cnt - 1) |-> NULL]
  BY <1>2 DEF StockIn
<1> QED
  BY <1>2, <1>3, <1>4, Nulls

LEMMA MboxTaken ==
  ASSUME StoresInv, NEW e \in Events, ecb[e].type = "MBOX", ecb[e].ptr # NULL, NEW queues,
         NEW m, m = [ecb[e] EXCEPT !.ptr = NULL]
  PROVE  /\ StockNow(e) # <<>> /\ Head(StockNow(e)) = ecb[e].ptr
         /\ StockIn(m, queues) = Tail(StockNow(e)) /\ m.type = "MBOX"
<1>1. ecb[e] \in MboxECBs
  BY EcbFields DEF StoresInv
<1>2. m.type = "MBOX" /\ m.ptr = NULL
  BY <1>1 DEF MboxECBs, ECB
<1>3. StockNow(e) = <<ecb[e].ptr>> /\ StockIn(m, queues) = <<>>
  BY <1>2 DEF StockNow, StockIn
<1> QED
  BY <1>2, <1>3

LEMMA QTaken ==
  ASSUME StoresInv, NEW e \in Events, ecb[e].type = "Q", QueueOf(e).entries > 0, NEW queues,
         queues[ecb[e].ptr] = [QueueOf(e) EXCEPT !.out = NextSlot(@), !.entries = @ - 1]
  PROVE  /\ StockNow(e) # <<>> /\ Head(StockNow(e)) = QueueOf(e).slots[QueueOf(e).out]
         /\ StockIn(ecb[e], queues) = Tail(StockNow(e))
<1> DEFINE q == QueueOf(e)
           r == [q EXCEPT !.out = NextSlot(@), !.entries = @ - 1]
<1>1. q \in Rings /\ StockNow(e) = Contents(q)
  BY QueueRing DEF StockNow, StockIn
<1>2. StockIn(ecb[e], queues) = Contents(r)
  BY DEF StockIn
<1>3. r \in Rings /\ r.slots = q.slots /\ r.out = NextSlot(q.out) /\ r.entries = q.entries - 1
  BY <1>1, RingTaken
<1>4. q.entries > 0
  OBVIOUS
<1> HIDE DEF q, r
<1>5. /\ Contents(q) # <<>> /\ Head(Contents(q)) = q.slots[q.out] /\ Contents(r) = Tail(Contents(q))
  BY <1>1, <1>3, <1>4, ContentsTaken
<1> QED
  BY <1>1, <1>2, <1>5 DEF q

LEMMA TakenStocks ==
  ASSUME PoolsInv, StoresInv, NEW S \in SUBSET Events, Take(S),
         \A e \in S : ecb[e].type \in PostTypes /\ Available(e)
  PROVE  /\ \A e \in S : /\ StockNow(e) # <<>> /\ Head(StockNow(e)) = FirstMessage(e)
                         /\ StockIn(ecb'[e], OSQTbl') = Tail(StockNow(e))
                         /\ ecb'[e].type = ecb[e].type
         /\ \A e \in Events \ S : SameEvent(e)
<1>1. \A e \in Events :
        ecb'[e] = IF e \notin S THEN ecb[e]
                  ELSE IF ecb[e].type = "SEM" THEN [ecb[e] EXCEPT !.cnt = @ - 1]
                  ELSE IF ecb[e].type = "MBOX" THEN [ecb[e] EXCEPT !.ptr = NULL] ELSE ecb[e]
  BY Zenon DEF Take
<1>2. \A q \in Queues :
        OSQTbl'[q] = IF \E e \in S : ecb[e].type = "Q" /\ ecb[e].ptr = q
                     THEN [OSQTbl[q] EXCEPT !.out = NextSlot(@), !.entries = @ - 1] ELSE OSQTbl[q]
  BY Zenon DEF Take
<1>3. ASSUME NEW e \in Events \ S
      PROVE  SameEvent(e)
  <2>1. ecb'[e] = ecb[e]
    BY <1>1
  <2>2. ASSUME ecb[e].type = "Q"
        PROVE  OSQTbl'[ecb[e].ptr] = OSQTbl[ecb[e].ptr]
    <3>1. ecb[e].ptr \in Queues
      BY <2>2 DEF PoolsInv, QueueEvents
    <3>2. ~ \E f \in S : ecb[f].type = "Q" /\ ecb[f].ptr = ecb[e].ptr
      BY <2>2 DEF PoolsInv, QueueEvents
    <3> QED
      BY <1>2, <3>1, <3>2, Zenon
  <2> QED
    BY <2>1, <2>2, EventIsSame
<1>4. ASSUME NEW e \in S
      PROVE  /\ StockNow(e) # <<>> /\ Head(StockNow(e)) = FirstMessage(e)
             /\ StockIn(ecb'[e], OSQTbl') = Tail(StockNow(e))
             /\ ecb'[e].type = ecb[e].type
  <2>1. CASE ecb[e].type = "SEM"
    <3>1. ecb[e].cnt > 0 /\ FirstMessage(e) = NULL
      BY <2>1 DEF Available, FirstMessage
    <3>2. ecb'[e] = [ecb[e] EXCEPT !.cnt = @ - 1]
      BY <1>1, <2>1
    <3> QED
      BY <2>1, <3>1, <3>2, SemTaken
  <2>2. CASE ecb[e].type = "MBOX"
    <3>1. ecb[e].ptr # NULL /\ FirstMessage(e) = ecb[e].ptr
      BY <2>2 DEF Available, FirstMessage
    <3>2. ecb'[e] = [ecb[e] EXCEPT !.ptr = NULL]
      BY <1>1, <2>2
    <3> QED
      BY <2>2, <3>1, <3>2, MboxTaken
  <2>3. CASE ecb[e].type = "Q"
    <3>1. QueueOf(e).entries > 0 /\ FirstMessage(e) = QueueOf(e).slots[QueueOf(e).out]
      BY <2>3 DEF Available, FirstMessage
    <3>2. ecb'[e] = ecb[e]
      BY <1>1, <2>3
    <3>3. ecb[e].ptr \in Queues /\ QueueOf(e) = OSQTbl[ecb[e].ptr]
      BY <2>3, QueueRing
    <3>4. OSQTbl'[ecb[e].ptr] = [QueueOf(e) EXCEPT !.out = NextSlot(@), !.entries = @ - 1]
      BY <1>2, <2>3, <3>3, Zenon
    <3> QED
      BY <2>3, <3>1, <3>2, <3>4, QTaken, Zenon
  <2>4. ecb[e].type \in PostTypes
    OBVIOUS
  <2> QED
    BY <2>1, <2>2, <2>3, <2>4 DEF PostTypes
<1> QED
  BY <1>3, <1>4

LEMMA TakeNowSeen ==
  ASSUME KernelInv, PoolsInv, StoresInv, Mapped, Mapped',
         OSTCBCur \in Tasks, pc[OSTCBCur] = InTask, NEW S \in SUBSET Events, S # {},
         \A e \in S : ecb[e].type \in PostTypes /\ Available(e), TakeNow(S)
  PROVE  AbstractStep
<1> DEFINE x == OSTCBCur
           got == {<<e, FirstMessage(e)>> : e \in S}
           k == Returned("NONE", got)
<1>1. CanCall(x) /\ x \in Tasks
  BY CallerCan
<1>2. pc' = [pc EXCEPT ![x] = k] /\ tcb' = tcb /\ Take(S)
  BY DEF TakeNow
<1>3. PriosStay /\ MutexesStay
  BY <1>2, TakeNowPrios, TakeMutexes
<1>4. k.at = "returned" /\ k.err = "NONE" /\ k.got = got
  BY DEF Returned
<1>5. DOMAIN pc = Tasks /\ pc[x].at = "task"
  BY DEF KernelInv, Data, InTask
<1>6. got = {<<e, Head(StockNow(e))>> : e \in S}
  BY <1>2, TakenStocks
<1> HIDE DEF x, k, got
<1>7. pc'[x] = k /\ \A t \in Tasks \ {x} : pc'[t] = pc[t] /\ tcb'[t] = tcb[t]
  BY <1>1, <1>2, <1>5
<1>8. \A t \in Tasks : SamePrioOf(t)
  <2>1. \A t \in Tasks : Live(pc'[t]) <=> Live(pc[t])
    BY <1>4, <1>5, <1>7 DEF Live
  <2> QED
    BY <1>3, <2>1, PriosAreSame DEF PriosStay
<1>9. \A t \in Tasks \ {x} : SameTask(t)
  BY <1>7, TaskIsSame
<1>10. WaitsOf(tcb'[x], pc'[x]) = {} /\ ResultIn(tcb'[x], pc'[x]) = Told("NONE", got)
  BY <1>4, <1>7 DEF WaitsOf, ResultIn, Unans
<1> QED
  BY <1>1, <1>2, <1>6, <1>8, <1>9, <1>10, TakenStocks, TakenStep

-----------------------------------------------------------------------------
(* Mutexes change hands *)

LEMMA OtherEventsSame ==
  ASSUME NEW e, OthersKept(e, ecb, ecb'), OSQTbl' = OSQTbl
  PROVE  \A f \in Events \ {e} : SameEvent(f)
BY EventIsSame DEF OthersKept

\* Of a task that has nothing to do with e.
LEMMA PrioOfOther ==
  ASSUME NEW e, OthersKept(e, ecb, ecb'), NEW t,
         e \in Mutexes(ecb) => ecb[e].ptr # t, e \in Mutexes(ecb') => ecb'[e].ptr # t,
         tcb'[t].prio = tcb[t].prio, Live(pc'[t]) <=> Live(pc[t])
  PROVE  SamePrioOf(t)
<1>1. \A f \in Events \ {e} : (f \in Mutexes(ecb') <=> f \in Mutexes(ecb)) /\ ecb'[f] = ecb[f]
  BY DEF OthersKept, Mutexes
<1>2. Mutexes(ecb) \subseteq Events /\ Mutexes(ecb') \subseteq Events
  BY DEF Mutexes
<1>3. CASE Owns(ecb, t)
  <2>1. PICK f \in Mutexes(ecb) : ecb[f].ptr = t
    BY <1>3 DEF Owns
  <2>2. f \in Mutexes(ecb') /\ ecb'[f] = ecb[f]
    BY <1>1, <1>2, <2>1
  <2>3. BaseIs(t, Saved(ecb[f]), tcb, ecb) /\ BaseIs(t, Saved(ecb[f]), tcb', ecb')
    BY <2>1, <2>2 DEF BaseIs
  <2> QED
    BY <2>3 DEF SamePrioOf
<1>4. CASE ~Owns(ecb, t)
  <2>1. ~Owns(ecb', t)
    BY <1>1, <1>2, <1>4 DEF Owns
  <2> QED
    BY <1>4, <2>1 DEF BaseIs, SamePrioOf
<1> QED
  BY <1>3, <1>4

LEMMA PrioOfTaker ==
  ASSUME NEW e \in Mutexes(ecb'), NEW t, ecb'[e].ptr = t, Saved(ecb'[e]) = tcb[t].prio,
         ~Owns(ecb, t), Live(pc'[t]), Live(pc[t])
  PROVE  SamePrioOf(t)
<1>1. BaseIs(t, tcb[t].prio, tcb, ecb) /\ BaseIs(t, tcb[t].prio, tcb', ecb')
  BY DEF BaseIs
<1> QED
  BY <1>1 DEF SamePrioOf

LEMMA PrioOfGiver ==
  ASSUME NEW e \in Mutexes(ecb), NEW t, ecb[e].ptr = t, tcb'[t].prio = Saved(ecb[e]),
         ~Owns(ecb', t), Live(pc'[t]), Live(pc[t])
  PROVE  SamePrioOf(t)
<1>1. BaseIs(t, Saved(ecb[e]), tcb, ecb) /\ BaseIs(t, Saved(ecb[e]), tcb', ecb')
  BY DEF BaseIs
<1> QED
  BY <1>1 DEF SamePrioOf

LEMMA MutexStock ==
  ASSUME NEW m, NEW queues, m.type = "MUTEX"
  PROVE  StockIn(m, queues) = IF m.ptr = NULL THEN <<NULL>> ELSE <<>>
BY DEF StockIn

LEMMA MutexIsFree ==
  ASSUME KernelInv, NEW e \in Mutexes(ecb)
  PROVE  /\ Saved(ecb[e]) = 255 => ecb[e].ptr = NULL
         /\ Saved(ecb[e]) # 255 => ecb[e].ptr \in LiveSet(pc) /\ ecb[e].ptr # NULL
<1>1. OwnersOK(tcb, pc, ecb)
  BY DEF KernelInv
<1>2. 255 \notin Prios
  BY TasksAssumption
<1>3. LiveSet(pc) \subseteq Tasks
  BY DEF LiveSet
<1> QED
  BY <1>1, <1>2, <1>3, Constants DEF OwnersOK, FreeMutex, OwnedMutex

LEMMA TakeMutexSeen ==
  ASSUME KernelInv, PoolsInv, Mapped, Mapped', NEW e \in Events,
         TaskCall("OSMutex"), IsMutex(e), holds[OSTCBCur] = {}, TakeMutex(e)
  PROVE  AbstractStep
<1> DEFINE x == OSTCBCur
           got == {<<e, NULL>>}
           k == Returned("NONE", got)
<1>1. /\ CanCall(x) /\ x \in Tasks /\ tcb[x].prio \in Prios /\ Live(pc[x])
      /\ DOMAIN pc = Tasks /\ x # NULL
  BY CallerCan, CurrentRuns, Constants DEF Cur, TaskCall, KernelInv, Data, CanCall
<1>2. e \in Mutexes(ecb) /\ Saved(ecb[e]) = 255
  BY OwnersAre DEF TakeMutex, OS_MUTEX_AVAILABLE
<1>3. ecb[e].ptr = NULL /\ Ceil(ecb[e]) \in PCPs /\ ~Owns(ecb, x)
  <2>1. OwnersOK(tcb, pc, ecb)
    BY DEF KernelInv
  <2> QED
    BY <1>2, <2>1, MutexIsFree, CallerOwnsNone DEF OwnersOK, Owns
<1>4. /\ ecb' = [ecb EXCEPT ![e].cnt = MutexCnt(Ceil(ecb[e]), tcb[x].prio), ![e].ptr = x]
      /\ pc' = [pc EXCEPT ![x] = k] /\ tcb' = tcb /\ OSQTbl' = OSQTbl
  BY OwnersAre DEF TakeMutex, GiveMutex
<1>5. k.at = "returned" /\ k.err = "NONE" /\ k.got = got
  BY DEF Returned
<1> HIDE DEF x, k, got
<1>6. MutexIs(ecb'[e], Ceil(ecb[e]), tcb[x].prio, x) /\ OthersKept(e, ecb, ecb')
  <2>1. Ceil(ecb[e]) \in 0..255
    BY <1>3, CeilIsPrio
  <2>2. Prios \subseteq 0..255
    BY TasksAssumption
  <2>3. tcb[x].prio \in 0..255 /\ ecb[e].type = "MUTEX"
    BY <1>1, <2>2 DEF IsMutex
  <2>4. MutexSet(e, Ceil(ecb[e]), tcb[x].prio, x, ecb, ecb')
    BY <1>4, <2>3 DEF MutexSet
  <2> QED
    BY <2>1, <2>3, <2>4, SetMutex, Zenon
<1>7. pc'[x] = k /\ \A t \in Tasks \ {x} : pc'[t] = pc[t] /\ tcb'[t] = tcb[t]
  BY <1>1, <1>4
<1>8. e \in Mutexes(ecb') /\ ecb'[e].ptr = x /\ Saved(ecb'[e]) = tcb[x].prio /\ ecb'[e].type = "MUTEX"
  BY <1>6 DEF Mutexes, MutexIs
<1>9. ASSUME NEW t \in Tasks
      PROVE  SamePrioOf(t)
  <2>1. CASE t = x
    <3>1. Live(pc'[x])
      BY <1>5, <1>7 DEF Live
    <3> QED
      BY <1>1, <1>3, <1>8, <2>1, <3>1, PrioOfTaker
  <2>2. CASE t # x
    <3>1. ecb[e].ptr # t
      BY <1>3, Constants
    <3> QED
      BY <1>6, <1>7, <1>8, <2>2, <3>1, PrioOfOther
  <2> QED
    BY <2>1, <2>2
<1>10. \A t \in Tasks \ {x} : SameTask(t)
  BY <1>7, TaskIsSame
<1>11. WaitsOf(tcb'[x], pc'[x]) = {} /\ ResultIn(tcb'[x], pc'[x]) = Told("NONE", got)
  BY <1>5, <1>7 DEF WaitsOf, ResultIn, Unans
<1>12. StockNow(e) = <<NULL>> /\ StockIn(ecb'[e], OSQTbl') = <<>> /\ ecb[e].type = "MUTEX"
  BY <1>1, <1>3, <1>8, MutexStock DEF StockNow, IsMutex
<1>13. got = {<<f, Head(StockNow(f))>> : f \in {e}}
  <2>1. Head(<<NULL>>) = NULL
    OBVIOUS
  <2> QED
    BY <1>12, <2>1 DEF got
<1>14. StockNow(e) # <<>> /\ StockIn(ecb'[e], OSQTbl') = Tail(StockNow(e))
  BY <1>12
<1>15. \A f \in Events \ {e} : SameEvent(f)
  BY <1>4, <1>6, OtherEventsSame
<1> DEFINE S == {e}
<1>16. /\ S \in SUBSET Events /\ S # {}
       /\ \A f \in S : /\ StockNow(f) # <<>> /\ StockIn(ecb'[f], OSQTbl') = Tail(StockNow(f))
                       /\ ecb'[f].type = ecb[f].type
       /\ got = {<<f, Head(StockNow(f))>> : f \in S}
  BY <1>8, <1>12, <1>13, <1>14
<1> HIDE DEF S
<1>17. \A f \in Events \ S : SameEvent(f)
  BY <1>15 DEF S
<1> QED
  BY <1>1, <1>9, <1>10, <1>11, <1>16, <1>17, TakenStep

-----------------------------------------------------------------------------
(* Waiting for what is not there *)

LEMMA NoStock ==
  ASSUME StoresInv, NEW e \in Events, ecb[e].type \in PostTypes, ~Available(e)
  PROVE  StockNow(e) = <<>> /\ ecb[e].type # "UNUSED"
<1>1. CASE ecb[e].type = "SEM"
  <2>1. ecb[e] \in SemECBs
    BY <1>1, EcbFields DEF StoresInv
  <2>2. ecb[e].cnt \in Nat
    BY <2>1, EventsAssumption DEF SemECBs, ECB
  <2>3. ecb[e].cnt = 0
    BY <1>1, <2>2 DEF Available
  <2>4. StockNow(e) = [i \in 1..0 |-> NULL]
    BY <1>1, <2>3 DEF StockNow, StockIn
  <2>5. [i \in 1..0 |-> NULL] = <<>>
    OBVIOUS
  <2> QED
    BY <1>1, <2>4, <2>5
<1>2. CASE ecb[e].type = "MBOX"
  BY <1>2 DEF Available, StockNow, StockIn
<1>3. CASE ecb[e].type = "Q"
  <2>1. QueueOf(e) \in Rings
    BY <1>3, QueueRing
  <2>2. QueueOf(e).entries \in Nat
    BY <2>1, RingFields
  <2>3. QueueOf(e).entries = 0
    BY <1>3, <2>2 DEF Available
  <2>4. StockNow(e) = Contents(QueueOf(e))
    BY <1>3 DEF StockNow, StockIn, QueueOf
  <2> QED
    BY <1>3, <2>3, <2>4, ContentsEmpty
<1> QED
  BY <1>1, <1>2, <1>3 DEF PostTypes

LEMMA BeginsToWait ==
  ASSUME KernelInv, Mapped, Mapped', OSTCBCur \in Tasks, pc[OSTCBCur] = InTask,
         NEW c, NEW k, c.prio = tcb[OSTCBCur].prio, k.at = "pend", k.svc # "OSFlagPend",
         Unans(c, k), k.on \in SUBSET Events, k.on # {},
         \A e \in k.on : StockNow(e) = <<>> /\ ecb[e].type # "UNUSED",
         tcb' = [tcb EXCEPT ![OSTCBCur] = c], pc' = [pc EXCEPT ![OSTCBCur] = k],
         ecb' = ecb, OSQTbl' = OSQTbl
  PROVE  AbstractStep
<1> DEFINE x == OSTCBCur
<1>1. CanCall(x) /\ x \in Tasks /\ pc[x].at = "task" /\ DOMAIN tcb = Tasks /\ DOMAIN pc = Tasks
  BY CallerCan DEF KernelInv, Data, InTask
<1>2. tcb' = [tcb EXCEPT ![x] = c] /\ pc' = [pc EXCEPT ![x] = k] /\ c.prio = tcb[x].prio
  OBVIOUS
<1> HIDE DEF x
<1>3. /\ tcb'[x] = c /\ pc'[x] = k
      /\ \A t \in Tasks \ {x} : tcb'[t] = tcb[t] /\ pc'[t] = pc[t]
  BY <1>1, <1>2
<1>4. \A t \in Tasks : SamePrioOf(t)
  <2>1. MutexesStay
    BY SameEcb
  <2>2. \A t \in Tasks : tcb'[t].prio = tcb[t].prio /\ (Live(pc'[t]) <=> Live(pc[t]))
    BY <1>1, <1>2, <1>3 DEF Live
  <2> QED
    BY <2>1, <2>2, PriosAreSame
<1>5. \A t \in Tasks \ {x} : SameTask(t)
  BY <1>3, TaskIsSame
<1>6. WaitsOf(tcb'[x], pc'[x]) = k.on /\ ResultIn(tcb'[x], pc'[x]) = Nothing
  BY <1>3 DEF WaitsOf, ResultIn
<1> QED
  BY <1>1, <1>4, <1>5, <1>6, EventsAreSame, WaitedStep

LEMMA PendOnSeen ==
  ASSUME KernelInv, PoolsInv, StoresInv, Mapped, Mapped', NEW name, NEW type \in PostTypes,
         NEW e \in Events, NEW timeout \in 0..MaxDly, NEW svc \in SinglePends \ {"OSMutexPend"},
         CanPend(name, e, type), PendOn(svc, e, timeout)
  PROVE  AbstractStep
<1>1. OSTCBCur \in Tasks /\ pc[OSTCBCur] = InTask /\ ecb[e].type = type
  BY DEF CanPend, TaskCall
<1>2. CASE Available(e) /\ TakeNow({e})
  <2> DEFINE S == {e}
  <2>1. S \in SUBSET Events /\ S # {} /\ TakeNow(S)
        /\ \A f \in S : ecb[f].type \in PostTypes /\ Available(f)
    BY <1>1, <1>2
  <2> HIDE DEF S
  <2> QED
    BY <1>1, <2>1, TakeNowSeen
<1>3. CASE /\ ~Available(e)
           /\ OS_EventTaskWait(svc, ecb[e].type, e, timeout)
           /\ UNCHANGED <<calls, OSLockNesting, OSTCBPrioTbl, eventVars>>
           /\ OS_Sched
  <2> DEFINE x == OSTCBCur
             d == WaitingTCB(tcb[x], {type}, timeout)
             c == [d EXCEPT !.eventptr = e]
             k == Pending(svc, {e})
  <2>1. /\ x \in LiveSet(pc) /\ Runs(tcb[x], pc[x]) /\ Shape(tcb[x], pc[x], ecb) /\ tcb[x] \in OS_TCB
    BY <1>1, CurrentRuns DEF Cur
  <2>2. pc[x].at = "task" /\ k.at = "pend" /\ k.svc = svc /\ k.on = {e}
    BY <1>1 DEF InTask, Pending
  <2>3. OutShape(tcb[x]) /\ tcb[x].stat = {}
    BY <2>1, <2>2, ShapeOfRunning DEF Shape
  <2>4. /\ tcb' = [tcb EXCEPT ![x] = c] /\ pc' = [pc EXCEPT ![x] = k]
        /\ ecb' = ecb /\ OSQTbl' = OSQTbl
    BY <1>1, <1>3 DEF OS_EventTaskWait, eventVars
  <2>5. {type} \in SUBSET StatBits /\ type \in EventTypes /\ type # "MUTEX"
    BY DEF StatBits, OS_STAT_PEND_ANY, PostTypes, EventTypes
  <2>6. /\ d \in OS_TCB /\ d.prio = tcb[x].prio /\ d.stat = {type} /\ d.statpend = "OK"
        /\ d.multiptr = {}
    BY <2>1, <2>3, <2>5, WaitingFields DEF OutShape
  <2> HIDE DEF d, k
  <2>7. c.prio = tcb[x].prio /\ WaitingSingle(c, k, e, type)
    BY <2>2, <2>5, <2>6 DEF OS_TCB, WaitingSingle
  <2> HIDE DEF c
  <2>8. Unans(c, k)
    BY <1>1, <2>5, <2>7, ShapeOfWaiting
  <2>9. StockNow(e) = <<>> /\ ecb[e].type # "UNUSED"
    BY <1>1, <1>3, NoStock
  <2>10. k.on \in SUBSET Events /\ k.on # {} /\ k.svc # "OSFlagPend"
         /\ \A f \in k.on : StockNow(f) = <<>> /\ ecb[f].type # "UNUSED"
    BY <2>2, <2>9 DEF SinglePends
  <2> HIDE DEF x
  <2> QED
    BY <1>1, <2>2, <2>4, <2>7, <2>8, <2>10, BeginsToWait DEF x
<1> QED
  BY <1>2, <1>3 DEF PendOn

LEMMA PendMultiSeen ==
  ASSUME KernelInv, PoolsInv, StoresInv, Mapped, Mapped', NEW S \in SUBSET Events, S # {},
         NEW timeout \in 0..MaxDly, OSEventPendMulti(S, timeout)
  PROVE  AbstractStep
<1> DEFINE bits == {ecb[e].type : e \in S} \cup {"MULTI"}
           ready == {e \in S : Available(e)}
<1>1. /\ OSTCBCur \in Tasks /\ pc[OSTCBCur] = InTask
      /\ \A e \in S : ecb[e].type \in PostTypes
  BY DEF OSEventPendMulti, TaskCall, PostTypes
<1>2. CASE ready # {} /\ TakeNow(ready)
  <2>1. /\ ready \in SUBSET Events /\ ready # {} /\ TakeNow(ready)
        /\ \A f \in ready : ecb[f].type \in PostTypes /\ Available(f)
    BY <1>1, <1>2
  <2> HIDE DEF ready
  <2> QED
    BY <1>1, <2>1, TakeNowSeen
<1>3. CASE /\ ready = {}
           /\ OS_EventTaskWaitMulti("OSEventPendMulti", bits, S, timeout)
           /\ UNCHANGED <<calls, OSLockNesting, OSTCBPrioTbl, eventVars>>
           /\ OS_Sched
  <2> DEFINE x == OSTCBCur
             d == WaitingTCB(tcb[x], bits, timeout)
             d1 == [d EXCEPT !.eventptr = NULL]
             c == [d1 EXCEPT !.multiptr = S]
             k == Pending("OSEventPendMulti", S)
  <2>1. /\ x \in LiveSet(pc) /\ Runs(tcb[x], pc[x]) /\ Shape(tcb[x], pc[x], ecb) /\ tcb[x] \in OS_TCB
    BY <1>1, CurrentRuns DEF Cur
  <2>2. pc[x].at = "task" /\ k.at = "pend" /\ k.svc = "OSEventPendMulti" /\ k.on = S
    BY <1>1 DEF InTask, Pending
  <2>3. OutShape(tcb[x]) /\ tcb[x].stat = {}
    BY <2>1, <2>2, ShapeOfRunning DEF Shape
  <2>4. /\ tcb' = [tcb EXCEPT ![x] = c] /\ pc' = [pc EXCEPT ![x] = k]
        /\ ecb' = ecb /\ OSQTbl' = OSQTbl
    BY <1>3 DEF OS_EventTaskWaitMulti, eventVars
  <2>5. bits \in SUBSET StatBits
    BY <1>1 DEF StatBits, OS_STAT_PEND_ANY, PostTypes
  <2>6. \A e \in S : ~Available(e)
    BY <1>3
  <2> HIDE DEF bits, ready
  <2>7. /\ d \in OS_TCB /\ d.prio = tcb[x].prio /\ d.stat = bits /\ d.statpend = "OK"
    <3>1. tcb[x].stat \cup bits = bits
      BY <2>3
    <3>2. d \in OS_TCB /\ d.prio = tcb[x].prio /\ d.stat = tcb[x].stat \cup bits /\ d.statpend = "OK"
      BY <2>1, <2>5, WaitingFields
    <3> QED
      BY <3>1, <3>2
  <2> HIDE DEF d, k
  <2>8. d1 \in OS_TCB /\ d1.prio = tcb[x].prio /\ d1.stat = bits /\ d1.statpend = "OK" /\ d1.eventptr = NULL
    BY <2>7 DEF OS_TCB
  <2> HIDE DEF d1
  <2>9. c.prio = tcb[x].prio /\ WaitingMulti(c, k, S, {ecb[e].type : e \in S})
    BY <2>2, <2>8 DEF OS_TCB, WaitingMulti, bits
  <2> HIDE DEF c
  <2>10. Unans(c, k)
    BY <1>1, <2>9, ShapeOfWaiting
  <2>11. \A e \in S : StockNow(e) = <<>> /\ ecb[e].type # "UNUSED"
    BY <1>1, <2>6, NoStock
  <2>12. k.on \in SUBSET Events /\ k.on # {} /\ k.svc # "OSFlagPend"
         /\ \A f \in k.on : StockNow(f) = <<>> /\ ecb[f].type # "UNUSED"
    BY <2>2, <2>11
  <2> HIDE DEF x
  <2> QED
    BY <1>1, <2>2, <2>4, <2>9, <2>10, <2>12, BeginsToWait DEF x
<1> QED
  BY <1>2, <1>3 DEF OSEventPendMulti

\* The priority of its TCB is not what EventService sees of a task.
LEMMA PrioUnseen ==
  ASSUME NEW c \in OS_TCB, NEW p, NEW k
  PROVE  /\ WaitsOf([c EXCEPT !.prio = p], k) = WaitsOf(c, k)
         /\ ResultIn([c EXCEPT !.prio = p], k) = ResultIn(c, k)
<1> DEFINE d == [c EXCEPT !.prio = p]
<1>1. /\ d.stat = c.stat /\ d.statpend = c.statpend /\ d.eventptr = c.eventptr
      /\ d.multiptr = c.multiptr /\ d.msg = c.msg
  BY DEF OS_TCB
<1> HIDE DEF d
<1>2. (Unans(d, k) <=> Unans(c, k)) /\ AnswerIn(d) = AnswerIn(c)
  BY <1>1 DEF Unans, PendBits, AnswerIn
<1>3. WaitsOf(d, k) = WaitsOf(c, k) /\ ResultIn(d, k) = ResultIn(c, k)
  BY <1>2 DEF WaitsOf, ResultIn
<1> QED
  BY <1>3 DEF d

LEMMA PrioOfOwner ==
  ASSUME MutexesStay, NEW t, Owns(ecb, t), Live(pc'[t]), Live(pc[t])
  PROVE  SamePrioOf(t)
<1>1. PICK e \in Mutexes(ecb) : ecb[e].ptr = t
  BY DEF Owns
<1>2. e \in Mutexes(ecb') /\ ecb'[e] = ecb[e]
  BY <1>1 DEF MutexesStay, Mutexes
<1>3. BaseIs(t, Saved(ecb[e]), tcb, ecb) /\ BaseIs(t, Saved(ecb[e]), tcb', ecb')
  BY <1>1, <1>2 DEF BaseIs
<1> QED
  BY <1>3 DEF SamePrioOf

LEMMA MutexWaitSeen ==
  ASSUME KernelInv, Mapped, Mapped', NEW e \in Events, NEW timeout \in 0..MaxDly,
         OSMutexPend(e, timeout), ~TakeMutex(e)
  PROVE  AbstractStep
<1> DEFINE x == OSTCBCur
           o == ecb[e].ptr
           d == WaitingTCB(tcb[x], {"MUTEX"}, timeout)
           c == [d EXCEPT !.eventptr = e]
           k == Pending("OSMutexPend", {e})
<1>1. /\ TaskCall("OSMutex") /\ IsMutex(e) /\ holds[x] = {} /\ OwnerPrio(e) # 255
      /\ tcb' = [t \in Tasks |-> IF t = x THEN [WaitingTCB(tcb[t], {"MUTEX"}, timeout) EXCEPT !.eventptr = e]
                                 ELSE IF t = Owner(e) /\ MustPromote(e)
                                      THEN [tcb[t] EXCEPT !.prio = PCP(e)] ELSE tcb[t]]
      /\ pc' = [pc EXCEPT ![x] = k] /\ ecb' = ecb /\ OSQTbl' = OSQTbl
  BY DEF OSMutexPend, OS_MUTEX_AVAILABLE, eventVars
<1>2. /\ CanCall(x) /\ x \in Tasks /\ tcb[x] \in OS_TCB /\ DOMAIN pc = Tasks
      /\ tcb \in [Tasks -> OS_TCB] /\ Shape(tcb[x], pc[x], ecb) /\ Runs(tcb[x], pc[x])
      /\ pc[x].at = "task"
  BY <1>1, CallerCan, CurrentRuns DEF TaskCall, KernelInv, Data, InTask, Cur
<1>3. /\ e \in Mutexes(ecb) /\ Owner(e) = o /\ Saved(ecb[e]) # 255 /\ ecb[e].type = "MUTEX"
  BY <1>1, OwnersAre DEF IsMutex
<1>4. o \in LiveSet(pc) /\ o # NULL /\ o # x /\ Owns(ecb, o)
  BY <1>1, <1>3, MutexIsFree, CallerOwnsNone DEF Owns
<1>5. OutShape(tcb[x]) /\ tcb[x].stat = {}
  BY <1>2, ShapeOfRunning DEF Shape
<1>6. {"MUTEX"} \in SUBSET StatBits /\ ecb[e].type \in EventTypes
  BY <1>3 DEF StatBits, OS_STAT_PEND_ANY, EventTypes
<1>7. d \in OS_TCB /\ d.stat = {"MUTEX"} /\ d.statpend = "OK" /\ d.multiptr = {}
  <2>1. tcb[x].stat \cup {"MUTEX"} = {"MUTEX"} /\ tcb[x].multiptr = {}
    BY <1>5 DEF OutShape
  <2> HIDE DEF c, k
  <2>2. tcb[x] \in OS_TCB /\ {"MUTEX"} \in SUBSET StatBits
    BY <1>2, <1>6
  <2>3. /\ d \in OS_TCB /\ d.stat = tcb[x].stat \cup {"MUTEX"} /\ d.statpend = "OK"
        /\ d.multiptr = tcb[x].multiptr
    BY <2>2, WaitingFields
  <2> QED
    BY <2>1, <2>3
<1>8. k.at = "pend" /\ k.svc = "OSMutexPend" /\ k.on = {e}
  BY DEF Pending
<1>9. tcb'[x] = c /\ c.prio = tcb[x].prio
  <2>1. c.prio = tcb[x].prio
    BY <1>2, WaitingPrio
  <2>2. tcb'[x] = c
    BY <1>1, <1>2
  <2> QED
    BY <2>1, <2>2
<1>10. \A t \in Tasks \ {x} :
         tcb'[t] = IF t = o /\ MustPromote(e) THEN [tcb[t] EXCEPT !.prio = PCP(e)] ELSE tcb[t]
  BY <1>1, <1>3
<1> HIDE DEF d, k
<1>11. WaitingSingle(c, k, e, ecb[e].type)
  BY <1>3, <1>7, <1>8 DEF OS_TCB, WaitingSingle, SinglePends
<1> HIDE DEF c, x
<1>12. Unans(c, k)
  BY <1>6, <1>11, ShapeOfWaiting
<1>13. pc'[x] = k /\ \A t \in Tasks \ {x} : pc'[t] = pc[t]
  BY <1>1, <1>2
<1> HIDE DEF o
<1>14. \A t \in Tasks \ {x} : SameTask(t)
  <2>1. ASSUME NEW t \in Tasks \ {x}
        PROVE  SameTask(t)
    <3>1. CASE tcb'[t] = tcb[t]
      BY <1>13, <2>1, <3>1, TaskIsSame
    <3>2. CASE tcb'[t] = [tcb[t] EXCEPT !.prio = PCP(e)]
      <4>1. tcb[t] \in OS_TCB /\ pc'[t] = pc[t]
        BY <1>2, <1>13, <2>1
      <4> QED
        BY <3>2, <4>1, PrioUnseen DEF SameTask
    <3> QED
      BY <1>10, <2>1, <3>1, <3>2
  <2> QED
    BY <2>1
<1>15. \A t \in Tasks : SamePrioOf(t)
  <2>1. MutexesStay
    BY <1>1, SameEcb
  <2>2. \A t \in Tasks : Live(pc'[t]) <=> Live(pc[t])
    BY <1>2, <1>8, <1>13 DEF Live
  <2>3. SamePrioOf(o)
    BY <1>4, <2>1, <2>2, PrioOfOwner DEF LiveSet
  <2>4. \A t \in Tasks \ {o} : tcb'[t].prio = tcb[t].prio
    BY <1>9, <1>10
  <2> QED
    BY <2>1, <2>2, <2>3, <2>4, PrioIsSame
<1>16. WaitsOf(tcb'[x], pc'[x]) = k.on /\ ResultIn(tcb'[x], pc'[x]) = Nothing
  BY <1>8, <1>9, <1>12, <1>13 DEF WaitsOf, ResultIn
<1>17. StockNow(e) = <<>>
  BY <1>3, <1>4, MutexStock DEF StockNow, o
<1>18. k.on \in SUBSET Events /\ k.on # {} /\ \A f \in k.on : StockNow(f) = <<>> /\ ecb[f].type # "UNUSED"
  BY <1>3, <1>8, <1>17
<1> QED
  BY <1>1, <1>2, <1>14, <1>15, <1>16, <1>18, EventsAreSame, WaitedStep, Zenon

LEMMA MutexPendSeen ==
  ASSUME KernelInv, PoolsInv, Mapped, Mapped', NEW e \in Events, NEW timeout \in 0..MaxDly,
         OSMutexPend(e, timeout)
  PROVE  AbstractStep
<1>1. TaskCall("OSMutex") /\ IsMutex(e) /\ holds[OSTCBCur] = {}
  BY DEF OSMutexPend
<1> QED
  BY <1>1, TakeMutexSeen, MutexWaitSeen

-----------------------------------------------------------------------------
(* Answers *)

\* To EventService the tasks of W get the answer and the others nothing.
AnswersGiven(W, err, e, msg, tcbs, pcs, tcbs2, pcs2) ==
  \A t \in Tasks :
    /\ WaitsOf(tcbs2[t], pcs2[t]) = IF t \in W THEN {} ELSE WaitsOf(tcbs[t], pcs[t])
    /\ ResultIn(tcbs2[t], pcs2[t]) = IF t \in W THEN Told(err, {<<e, msg>>})
                                     ELSE ResultIn(tcbs[t], pcs[t])

Err(pend) == IF pend = "OK" THEN "NONE" ELSE pend

LEMMA AnswersSeen ==
  ASSUME NEW tcbs \in [Tasks -> OS_TCB], NEW pcs, NEW ecbs,
         \A t \in Tasks : Shape(tcbs[t], pcs[t], ecbs), NEW e \in Events,
         NEW W \in SUBSET WaitSet(tcbs, pcs, e), NEW pend \in {"OK", "ABORT"},
         ecbs[e].type = "MUTEX" => pend = "OK",
         NEW tcbs2, ByAnswer(W, e, ecbs[e].type, pend, tcbs, tcbs2),
         NEW msg, \A t \in W : tcbs2[t].msg = msg
  PROVE  AnswersGiven(W, Err(pend), e, msg, tcbs, pcs, tcbs2, pcs)
<1>1. /\ \A t \in W : ~Unans(tcbs2[t], pcs[t])
      /\ \A t \in W : t \in Tasks /\ Unans(tcbs[t], pcs[t]) /\ e \in pcs[t].on
      /\ \A t \in W : AnsweredTCB(tcbs[t], tcbs2[t], e, ecbs[e].type, pend)
      /\ \A t \in Tasks \ W : tcbs2[t] = tcbs[t]
  <2>1. TypesStay(W, tcbs, pcs, ecbs, ecbs)
    BY DEF TypesStay, TypesFor
  <2>2. Answering(W, e, pend, tcbs, pcs, ecbs, tcbs2, ecbs)
    BY <2>1 DEF Answering
  <2>3. \A t \in W : ~Unans(tcbs2[t], pcs[t])
    BY <2>2, AnsweredShapes
  <2>4. \A t \in W : t \in Tasks /\ Unans(tcbs[t], pcs[t]) /\ e \in pcs[t].on
    BY DEF WaitSet
  <2> QED
    BY <2>3, <2>4 DEF ByAnswer
<1>2. ASSUME NEW t \in W
      PROVE  WaitsOf(tcbs2[t], pcs[t]) = {} /\ ResultIn(tcbs2[t], pcs[t]) = Told(Err(pend), {<<e, msg>>})
  <2>1. t \in Tasks /\ Unans(tcbs[t], pcs[t]) /\ e \in pcs[t].on /\ ~Unans(tcbs2[t], pcs[t])
    BY <1>1
  <2>2. pcs[t].at = "pend" /\ Shape(tcbs[t], pcs[t], ecbs)
    BY <2>1 DEF Unans
  <2>3. pcs[t].svc # "OSFlagPend"
    BY <2>1, <2>2, PendsOn
  <2>4. tcbs2[t].eventptr = e
    <3>1. tcbs2[t].eventptr = IF tcbs[t].multiptr = {} THEN tcbs[t].eventptr ELSE e
      BY <1>1 DEF AnsweredTCB
    <3>2. tcbs[t].multiptr = {} => tcbs[t].eventptr = e
      BY <2>1, <2>2 DEF Shape, SingleShape, MultiShape, FlagShape
    <3> QED
      BY <3>1, <3>2
  <2>5. tcbs2[t].statpend = pend /\ tcbs2[t].msg = msg
    BY <1>1 DEF AnsweredTCB
  <2>6. AnswerIn(tcbs2[t]) = Told(Err(pend), {<<e, msg>>})
    BY <2>4, <2>5 DEF AnswerIn, Err
  <2> QED
    BY <2>1, <2>2, <2>3, <2>6 DEF WaitsOf, ResultIn
<1> QED
  BY <1>1, <1>2 DEF AnswersGiven

LEMMA AnswerMsg ==
  ASSUME NEW tcbs \in [Tasks -> OS_TCB], NEW W \in SUBSET Tasks, NEW e, NEW msg, NEW bit, NEW pend
  PROVE  \A t \in W : AnsweredTCBs(tcbs, W, e, msg, bit, pend)[t].msg = msg
<1> SUFFICES ASSUME NEW t \in W
             PROVE  AnsweredTCBs(tcbs, W, e, msg, bit, pend)[t].msg = msg
  OBVIOUS
<1> DEFINE c == tcbs[t]
<1>1. c \in OS_TCB /\ t \in Tasks
  OBVIOUS
<1>2. AnsweredTCBs(tcbs, W, e, msg, bit, pend)[t]
        = [c EXCEPT !.dly = 0, !.msg = msg, !.stat = @ \ {bit}, !.statpend = pend,
                    !.eventptr = IF c.multiptr = {} THEN @ ELSE e]
  BY <1>1 DEF AnsweredTCBs
<1> HIDE DEF c
<1> QED
  BY <1>1, <1>2 DEF OS_TCB

LEMMA WaitersNow ==
  ASSUME Mapped, NEW e \in Events
  PROVE  Abstract!Waiting(e) = WaitSet(tcb, pc, e)
<1>1. \A t \in Tasks : e \in WaitsNow[t] <=> Unans(tcb[t], pc[t]) /\ e \in pc[t].on
  BY DEF Mapped, WaitsOf
<1> QED
  BY <1>1 DEF Abstract!Waiting, WaitSet

LEMMA FirstIsHighest ==
  ASSUME KernelInv, Mapped, NEW e \in Events, OSEventTbl[e] # {}
  PROVE  Abstract!First(e) = HighestWaiter(e)
<1> DEFINE w == HighestWaiter(e)
           W == WaitSet(tcb, pc, e)
<1>1. w \in W /\ \A t \in W \ {w} : tcb[w].prio < tcb[t].prio
  BY WaitersOf, HighestIsAbove
<1>2. ASSUME NEW t \in W
      PROVE  PriosNow[t] = tcb[t].prio + 1 /\ tcb[t].prio \in Nat
  <2>1. t \in Tasks /\ Unans(tcb[t], pc[t]) /\ Live(pc[t])
    BY DEF WaitSet, Unans, Live
  <2>2. ~Owns(ecb, t)
    BY <2>1, WaiterOwnsNone DEF Owns
  <2>3. tcb[t].prio \in Prios
    BY <2>1 DEF KernelInv, Data, LiveSet
  <2>4. Prios \subseteq Nat
    BY TasksAssumption
  <2> QED
    BY <2>1, <2>2, <2>3, <2>4 DEF Mapped, PrioIs
<1>3. Abstract!First(e) = CHOOSE t \in W : \A u \in W : PriosNow[t] <= PriosNow[u]
  BY WaitersNow DEF Abstract!First
<1> HIDE DEF w, W
<1>4. \A u \in W : PriosNow[w] <= PriosNow[u]
  BY <1>1, <1>2
<1>5. \A t \in W : (\A u \in W : PriosNow[t] <= PriosNow[u]) => t = w
  BY <1>1, <1>2
<1> QED
  BY <1>1, <1>3, <1>4, <1>5 DEF w

LEMMA AnswersTold ==
  ASSUME Mapped, Mapped', NEW W, NEW err, NEW e, NEW msg,
         AnswersGiven(W, err, e, msg, tcb, pc, tcb', pc'), \A t \in Tasks : SamePrioOf(t)
  PROVE  Abstract!AnswerTo(W, err, e, msg)
<1>1. WaitsNow' = [t \in Tasks |-> IF t \in W THEN {} ELSE WaitsNow[t]]
  <2>1. \A t \in Tasks : WaitsNow'[t] = IF t \in W THEN {} ELSE WaitsNow[t]
    BY DEF Mapped, AnswersGiven
  <2>2. WaitsNow' = [t \in Tasks |-> WaitsNow'[t]]
    BY DEF Mapped, Functions
  <2> QED
    BY <2>1, <2>2
<1>2. ResultsNow' = [t \in Tasks |-> IF t \in W THEN [err |-> err, got |-> {<<e, msg>>}] ELSE ResultsNow[t]]
  <2>1. \A t \in Tasks :
          ResultsNow'[t] = IF t \in W THEN Told(err, {<<e, msg>>}) ELSE ResultsNow[t]
    BY DEF Mapped, AnswersGiven
  <2>2. ResultsNow' = [t \in Tasks |-> ResultsNow'[t]]
    BY DEF Mapped, Functions
  <2> QED
    BY <2>1, <2>2 DEF Told
<1> QED
  BY <1>1, <1>2, PriosKept DEF Abstract!AnswerTo

\* The tasks that a post or an abort answers.
Chosen(e, all) == IF all THEN Waiters(e) ELSE {HighestWaiter(e)}

LEMMA ChosenNow ==
  ASSUME KernelInv, Mapped, NEW e \in Events, OSEventTbl[e] # {}, NEW all
  PROVE  /\ Chosen(e, all) = IF all THEN Abstract!Waiting(e) ELSE {Abstract!First(e)}
         /\ Abstract!Waiting(e) # {} /\ Chosen(e, all) \in SUBSET WaitSet(tcb, pc, e)
         /\ HighestWaiter(e) \in Chosen(e, all) /\ HighestWaiter(e) \in Tasks
<1>1. /\ Waiters(e) = WaitSet(tcb, pc, e) /\ WaitSet(tcb, pc, e) # {}
      /\ HighestWaiter(e) \in WaitSet(tcb, pc, e)
  BY WaitersOf
<1> QED
  BY <1>1, WaitersNow, FirstIsHighest DEF Chosen, WaitSet

LEMMA PostedStep ==
  ASSUME KernelInv, Mapped, Mapped', NEW e \in Events, OSEventTbl[e] # {}, NEW all \in BOOLEAN,
         NEW msg, AnswersGiven(Chosen(e, all), "NONE", e, msg, tcb, pc, tcb', pc'),
         \A t \in Tasks : SamePrioOf(t), \A f \in Events : SameEvent(f)
  PROVE  AbstractStep
<1> DEFINE w == HighestWaiter(e)
           r == <<e, msg>>
<1>1. Abstract!Post(e, msg, all)
  BY ChosenNow, AnswersTold, EventsKept DEF Abstract!Post
<1>2. ResultsNow'[w] = Told("NONE", {r}) /\ w \in Tasks
  BY ChosenNow DEF Mapped, AnswersGiven
<1>3. r \in ResultsNow'[w].got /\ r[2] = msg
  BY <1>2 DEF Told
<1> HIDE DEF w, r
<1>4. Abstract!Post(e, r[2], all)
  BY <1>1, <1>3
<1> QED
  BY <1>2, <1>3, <1>4, EventsStep

LEMMA AbortedStep ==
  ASSUME KernelInv, Mapped, Mapped', NEW e \in Events, OSEventTbl[e] # {}, NEW all \in BOOLEAN,
         AnswersGiven(Chosen(e, all), "ABORT", e, NULL, tcb, pc, tcb', pc'),
         \A t \in Tasks : SamePrioOf(t), \A f \in Events : SameEvent(f)
  PROVE  AbstractStep
<1>1. Abstract!Abort(e, all)
  BY ChosenNow, AnswersTold, EventsKept DEF Abstract!Abort
<1> QED
  BY <1>1, EventsStep

LEMMA DeletedStep ==
  ASSUME KernelInv, Mapped, Mapped', NEW e \in Events, ecb[e].type # "UNUSED",
         AnswersGiven(WaitSet(tcb, pc, e), "NONE", e, NULL, tcb, pc, tcb', pc'),
         \A t \in Tasks : SamePrioOf(t), \A f \in Events \ {e} : SameEvent(f),
         ecb'[e].type = "UNUSED"
  PROVE  AbstractStep
<1>1. StockIn(ecb'[e], OSQTbl') = <<>>
  BY DEF StockIn
<1>2. KindsNow' = [KindsNow EXCEPT ![e] = "UNUSED"] /\ StocksNow' = [StocksNow EXCEPT ![e] = <<>>]
  BY <1>1, EventSet
<1>3. KindsNow[e] # "UNUSED"
  BY DEF Mapped
<1>4. Abstract!AnswerTo(Abstract!Waiting(e), "NONE", e, NULL)
  BY WaitersNow, AnswersTold
<1>5. Abstract!Delete(e)
  BY <1>2, <1>3, <1>4 DEF Abstract!Delete
<1> QED
  BY <1>5, EventsStep

LEMMA ReadySeen ==
  ASSUME KernelInv, NEW e \in Events, ecb[e].type # "MUTEX", NEW W \in SUBSET WaitSet(tcb, pc, e),
         NEW msg \in Msgs \cup {NULL}, NEW pend \in {"OK", "ABORT"}, ReadyWaiters(W, e, msg, pend)
  PROVE  AnswersGiven(W, Err(pend), e, msg, tcb, pc, tcb', pc') /\ pc' = pc
<1>1. /\ tcb' = AnsweredTCBs(tcb, W, e, msg, ecb[e].type, pend) /\ pc' = pc
  BY DEF ReadyWaiters, OS_EventTaskRdy
<1>2. tcb \in [Tasks -> OS_TCB] /\ (\A t \in Tasks : Shape(tcb[t], pc[t], ecb)) /\ W \in SUBSET Tasks
  BY DEF WaitSet, KernelInv, Data
<1>3. ByAnswer(W, e, ecb[e].type, pend, tcb, tcb')
  BY <1>1, <1>2, AnsweredFields
<1>4. \A t \in W : tcb'[t].msg = msg
  BY <1>1, <1>2, AnswerMsg
<1> QED
  BY <1>1, <1>2, <1>3, <1>4, AnswersSeen

LEMMA PostSeen ==
  ASSUME KernelInv, PoolsInv, Mapped, Mapped', NEW e \in Events, ecb[e].type # "MUTEX",
         NEW msg \in Msgs \cup {NULL}, NEW all \in BOOLEAN, NEW sched, PostToWaiters(e, msg, all, sched)
  PROVE  AbstractStep
<1>1. /\ OSEventTbl[e] # {} /\ ReadyWaiters(Chosen(e, all), e, msg, "OK")
      /\ ecb' = ecb /\ OSQTbl' = OSQTbl
  BY DEF PostToWaiters, eventVars, Chosen
<1>2. AnswersGiven(Chosen(e, all), Err("OK"), e, msg, tcb, pc, tcb', pc') /\ pc' = pc
  BY <1>1, ChosenNow, ReadySeen
<1>3. \A t \in Tasks : SamePrioOf(t)
  BY <1>2, PostPrios, PostMutexes, PriosAreSame DEF PriosStay
<1>4. AnswersGiven(Chosen(e, all), "NONE", e, msg, tcb, pc, tcb', pc')
  BY <1>2 DEF Err
<1> QED
  BY <1>1, <1>3, <1>4, EventsAreSame, PostedStep

LEMMA AbortSeen ==
  ASSUME KernelInv, PoolsInv, Mapped, Mapped', NEW e \in Events, ecb[e].type # "MUTEX",
         NEW all \in BOOLEAN, AbortWaiters(e, all)
  PROVE  AbstractStep
<1>1. /\ OSEventTbl[e] # {} /\ ReadyWaiters(Chosen(e, all), e, NULL, "ABORT")
      /\ ecb' = ecb /\ OSQTbl' = OSQTbl
  BY DEF AbortWaiters, eventVars, Chosen
<1>2. AnswersGiven(Chosen(e, all), Err("ABORT"), e, NULL, tcb, pc, tcb', pc') /\ pc' = pc
  BY <1>1, ChosenNow, ReadySeen
<1>3. \A t \in Tasks : SamePrioOf(t)
  BY <1>2, PostPrios, PostMutexes, PriosAreSame DEF PriosStay
<1>4. AnswersGiven(Chosen(e, all), "ABORT", e, NULL, tcb, pc, tcb', pc')
  BY <1>2 DEF Err
<1> QED
  BY <1>1, <1>3, <1>4, EventsAreSame, AbortedStep

LEMMA DeleteSeen ==
  ASSUME KernelInv, PoolsInv, Mapped, Mapped', NEW e \in Events, ecb[e].type \in PostTypes,
         NEW always, DeleteEvent(e, always), OSQTbl' = OSQTbl
  PROVE  AbstractStep
<1>1. /\ ReadyWaiters(Waiters(e), e, NULL, "OK") /\ ecb' = [ecb EXCEPT ![e] = UnusedECB]
      /\ Waiters(e) = WaitSet(tcb, pc, e) /\ ecb[e].type # "MUTEX" /\ ecb[e].type # "UNUSED"
  BY WaitersOf DEF DeleteEvent, PostTypes
<1>2. OthersKept(e, ecb, ecb') /\ ecb'[e].type = "UNUSED"
  <2>1. DOMAIN ecb = Events
    BY DEF PoolsInv, EcbShape
  <2> QED
    BY <1>1, <2>1 DEF OthersKept, UnusedECB
<1>3. AnswersGiven(WaitSet(tcb, pc, e), Err("OK"), e, NULL, tcb, pc, tcb', pc') /\ pc' = pc
  BY <1>1, ReadySeen
<1>4. \A t \in Tasks : SamePrioOf(t)
  BY <1>1, <1>3, PostPrios, PostMutexes, PriosAreSame DEF PriosStay
<1>5. AnswersGiven(WaitSet(tcb, pc, e), "NONE", e, NULL, tcb, pc, tcb', pc')
  BY <1>3 DEF Err
<1>6. \A f \in Events \ {e} : SameEvent(f)
  BY <1>2, OtherEventsSame
<1> QED
  BY <1>1, <1>2, <1>4, <1>5, <1>6, DeletedStep

-----------------------------------------------------------------------------
(* Mutexes are given back and deleted *)

\* To EventService the fall of the owner is nothing.
LEMMA LoweredUnseen ==
  ASSUME KernelInv, NEW e \in Events, IsMutex(e), NEW t \in Tasks
  PROVE  /\ WaitsOf(LoweredTCBs(e)[t], pc[t]) = WaitsOf(tcb[t], pc[t])
         /\ ResultIn(LoweredTCBs(e)[t], pc[t]) = ResultIn(tcb[t], pc[t])
         /\ t = ecb[e].ptr => LoweredTCBs(e)[t].prio = Saved(ecb[e])
         /\ t # ecb[e].ptr => LoweredTCBs(e)[t] = tcb[t]
<1>1. tcb \in [Tasks -> OS_TCB] /\ OwnersOK(tcb, pc, ecb)
  BY DEF KernelInv, Data
<1>2. e \in Mutexes(ecb) /\ Owner(e) = ecb[e].ptr /\ OwnerPrio(e) = Saved(ecb[e])
      /\ (Raised(e) <=> RaisedIn(ecb[e], tcb))
  BY OwnersAre
<1>3. t = ecb[e].ptr => Saved(ecb[e]) \in Prios /\ (Raised(e) \/ tcb[t].prio = Saved(ecb[e]))
  BY <1>1, <1>2, Constants DEF OwnersOK, FreeMutex, OwnedMutex
<1> DEFINE o == ecb[e].ptr
           s == Saved(ecb[e])
<1>4. CASE ~Raised(e)
  BY <1>3, <1>4 DEF LoweredTCBs
<1>5. CASE Raised(e)
  <2>1. o \in Tasks /\ LoweredTCBs(e) = [tcb EXCEPT ![o].prio = s]
    BY <1>2, <1>5 DEF LoweredTCBs, RaisedIn
  <2>2. tcb[t] \in OS_TCB
    BY <1>1
  <2>3. CASE t # o
    BY <1>1, <2>1, <2>3
  <2>4. CASE t = o
    <3> HIDE DEF o, s
    <3>1. LoweredTCBs(e)[t] = [tcb[t] EXCEPT !.prio = s]
      BY <1>1, <2>1, <2>4
    <3>2. LoweredTCBs(e)[t].prio = s
      BY <2>2, <3>1 DEF OS_TCB
    <3> QED
      BY <2>2, <2>4, <3>1, <3>2, PrioUnseen DEF o, s
  <2> QED
    BY <2>3, <2>4
<1> QED
  BY <1>4, <1>5

LEMMA GivenBackPrios ==
  ASSUME KernelInv, NEW e \in Events, IsMutex(e), OthersKept(e, ecb, ecb'), pc' = pc,
         e \in Mutexes(ecb') =>
           \/ ecb'[e].ptr = NULL
           \/ \E w \in WaitSet(tcb, pc, e) : ecb'[e].ptr = w /\ Saved(ecb'[e]) = tcb[w].prio,
         \A t \in Tasks : tcb'[t].prio = LoweredTCBs(e)[t].prio
  PROVE  \A t \in Tasks : SamePrioOf(t)
<1> SUFFICES ASSUME NEW t \in Tasks
             PROVE  SamePrioOf(t)
  OBVIOUS
<1>1. /\ e \in Mutexes(ecb) /\ OwnersOK(tcb, pc, ecb) /\ HoldsOK(tcb, pc, ecb, holds)
      /\ \A u \in Tasks : Shape(tcb[u], pc[u], ecb)
      /\ t # NULL
  BY OwnersAre, Constants DEF KernelInv, Data
<1>2. \A w \in WaitSet(tcb, pc, e) : w \in Tasks /\ Live(pc[w]) /\ ~Owns(ecb, w)
  BY WaiterOwnsNone DEF WaitSet, Owns, Unans, Live
<1>3. CASE t = ecb[e].ptr
  <2>1. tcb'[t].prio = Saved(ecb[e])
    BY <1>3, LoweredUnseen
  <2>2. Owns(ecb, t) /\ Live(pc[t])
    BY <1>1, <1>3 DEF Owns, OwnersOK, FreeMutex, OwnedMutex, LiveSet
  <2>3. ~Owns(ecb', t)
    <3> SUFFICES ASSUME NEW f \in Mutexes(ecb'), ecb'[f].ptr = t
                 PROVE  FALSE
      BY DEF Owns
    <3>1. CASE f = e
      BY <1>1, <1>2, <2>2, <3>1
    <3>2. CASE f # e
      <4>1. f \in Mutexes(ecb) /\ ecb[f].ptr = t
        BY <3>2 DEF OthersKept, Mutexes
      <4> QED
        BY <1>1, <1>3, <3>2, <4>1, OwnsOne
    <3> QED
      BY <3>1, <3>2
  <2> QED
    BY <1>1, <1>3, <2>1, <2>2, <2>3, PrioOfGiver
<1>4. CASE t # ecb[e].ptr /\ e \in Mutexes(ecb') /\ ecb'[e].ptr = t
  <2>1. t \in WaitSet(tcb, pc, e) /\ Saved(ecb'[e]) = tcb[t].prio
    BY <1>1, <1>4
  <2> QED
    BY <1>2, <1>4, <2>1, PrioOfTaker
<1>5. CASE t # ecb[e].ptr /\ ~(e \in Mutexes(ecb') /\ ecb'[e].ptr = t)
  <2>1. tcb'[t].prio = tcb[t].prio
    BY <1>5, LoweredUnseen
  <2> QED
    BY <1>5, <2>1, PrioOfOther
<1> QED
  BY <1>3, <1>4, <1>5

LEMMA LoweredSeen ==
  ASSUME KernelInv, NEW e \in Events, IsMutex(e), OSTCBCur \in Tasks,
         Raised(e) => Owner(e) = OSTCBCur,
         NEW W \in SUBSET WaitSet(tcb, pc, e), LowerAndReady(e, W)
  PROVE  /\ AnswersGiven(W, "NONE", e, NULL, tcb, pc, tcb', pc') /\ pc' = pc
         /\ \A t \in Tasks : tcb'[t].prio = LoweredTCBs(e)[t].prio
<1> DEFINE T == LoweredTCBs(e)
<1>1. /\ Data(LoweredRdy(e), OSEventTbl, T, pc, ecb) /\ WaitSet(T, pc, e) = WaitSet(tcb, pc, e)
      /\ ecb[e].type = "MUTEX"
  BY Lowering DEF IsMutex
<1>2. /\ tcb' = AnsweredTCBs(T, W, e, NULL, "MUTEX", "OK") /\ pc' = pc
  BY DEF LowerAndReady
<1>3. \A t \in Tasks : WaitsOf(T[t], pc[t]) = WaitsOf(tcb[t], pc[t]) /\ ResultIn(T[t], pc[t]) = ResultIn(tcb[t], pc[t])
  BY LoweredUnseen
<1> HIDE DEF T
<1>4. T \in [Tasks -> OS_TCB] /\ (\A t \in Tasks : Shape(T[t], pc[t], ecb)) /\ W \in SUBSET Tasks
  BY <1>1 DEF Data, WaitSet
<1>5. ByAnswer(W, e, ecb[e].type, "OK", T, tcb')
  BY <1>1, <1>2, <1>4, AnsweredFields
<1>6. \A t \in W : tcb'[t].msg = NULL
  BY <1>2, <1>4, AnswerMsg
<1>7. W \in SUBSET WaitSet(T, pc, e)
  BY <1>1
<1>8. AnswersGiven(W, Err("OK"), e, NULL, T, pc, tcb', pc)
  BY <1>4, <1>5, <1>6, <1>7, AnswersSeen
<1>9. AnswersGiven(W, "NONE", e, NULL, tcb, pc, tcb', pc')
  BY <1>2, <1>3, <1>8 DEF AnswersGiven, Err
<1>10. \A t \in Tasks : tcb'[t].prio = T[t].prio
  BY <1>5 DEF ByAnswer
<1> QED
  BY <1>2, <1>9, <1>10 DEF T

-----------------------------------------------------------------------------
(* What is stored *)

\* An item in front of the others, or behind them.
Added(s, item, front) == IF front THEN <<item>> \o s ELSE Append(s, item)

LEMMA AddedItem ==
  ASSUME NEW V, NEW s \in Seq(V), NEW item \in V, NEW front \in BOOLEAN
  PROVE  \E i \in DOMAIN Added(s, item, front) : Added(s, item, front)[i] = item
<1>1. CASE front
  <2>1. 1 \in DOMAIN (<<item>> \o s) /\ (<<item>> \o s)[1] = item
    OBVIOUS
  <2> QED
    BY <1>1, <2>1 DEF Added
<1>2. CASE ~front
  <2>1. Len(s) + 1 \in DOMAIN Append(s, item) /\ Append(s, item)[Len(s) + 1] = item
    OBVIOUS
  <2> QED
    BY <1>2, <2>1 DEF Added
<1> QED
  BY <1>1, <1>2

\* Nothing changes for the tasks.
TasksUnseen == \A t \in Tasks : SameTask(t) /\ SamePrioOf(t)

LEMMA StoredStep ==
  ASSUME KernelInv, Mapped, Mapped', NEW e \in Events, OSEventTbl[e] = {},
         ecb[e].type # "UNUSED", ecb'[e].type = ecb[e].type,
         NEW V, StockNow(e) \in Seq(V), NEW item \in V,
         NEW front \in BOOLEAN, front => ecb[e].type = "Q",
         StockIn(ecb'[e], OSQTbl') = Added(StockNow(e), item, front),
         \A f \in Events \ {e} : SameEvent(f), TasksUnseen
  PROVE  AbstractStep
<1>1. Abstract!Waiting(e) = {}
  BY WaitersNow, WaitersOf
<1>2. /\ KindsNow[e] = ecb[e].type /\ StocksNow[e] = StockNow(e)
      /\ KindsNow' = [KindsNow EXCEPT ![e] = ecb'[e].type]
      /\ StocksNow' = [StocksNow EXCEPT ![e] = Added(StocksNow[e], item, front)]
      /\ StocksNow'[e] = Added(StockNow(e), item, front)
  BY EventSet DEF Mapped, StockNow
<1>3. KindsNow' = KindsNow
  <2>1. KindsNow = [f \in Events |-> KindsNow[f]]
    BY DEF Mapped, Functions
  <2> QED
    BY <1>2, <2>1
<1>4. UNCHANGED <<WaitsNow, ResultsNow, PriosNow>>
  BY TasksKept, PriosKept DEF TasksUnseen
<1>5. PICK i \in DOMAIN StocksNow'[e] : StocksNow'[e][i] = item
  BY <1>2, AddedItem
<1>6. Abstract!Store(e, item, front)
  BY <1>1, <1>2, <1>3, <1>4 DEF Abstract!Store, Added
<1>7. Abstract!Store(e, StocksNow'[e][i], front)
  BY <1>5, <1>6
<1> QED
  BY <1>5, <1>7, EventsStep

LEMMA NothingForTasks ==
  ASSUME tcb' = tcb, pc' = pc, MutexesStay
  PROVE  TasksUnseen
BY TaskIsSame, PriosAreSame DEF TasksUnseen

LEMMA NullsAdded ==
  ASSUME NEW n \in Nat
  PROVE  /\ [i \in 1..n |-> NULL] \in Seq({NULL})
         /\ [i \in 1..(n + 1) |-> NULL] = Added([i \in 1..n |-> NULL], NULL, FALSE)
<1> DEFINE s == [i \in 1..n |-> NULL]
           r == [i \in 1..(n + 1) |-> NULL]
<1>1. s \in Seq({NULL}) /\ Len(s) = n /\ \A i \in 1..n : s[i] = NULL
  OBVIOUS
<1>2. r \in Seq({NULL}) /\ Len(r) = n + 1 /\ \A i \in 1..(n + 1) : r[i] = NULL
  OBVIOUS
<1> HIDE DEF s, r
<1>3. /\ Append(s, NULL) \in Seq({NULL}) /\ Len(Append(s, NULL)) = n + 1
      /\ \A i \in 1..(n + 1) : Append(s, NULL)[i] = NULL
  BY <1>1
<1>4. r = Append(s, NULL)
  BY <1>2, <1>3, SeqEqual
<1> QED
  BY <1>1, <1>4 DEF Added, s, r

LEMMA OneEcbSet ==
  ASSUME PoolsInv, NEW e \in Events, NEW m, ecb' = [ecb EXCEPT ![e] = m], OSQTbl' = OSQTbl
  PROVE  ecb'[e] = m /\ \A f \in Events \ {e} : SameEvent(f)
<1>1. DOMAIN ecb = Events
  BY DEF PoolsInv, EcbShape
<1>2. ecb'[e] = m /\ OthersKept(e, ecb, ecb')
  BY <1>1 DEF OthersKept
<1> QED
  BY <1>2, OtherEventsSame

LEMMA OneRingSet ==
  ASSUME PoolsInv, StoresInv, NEW e \in Events, ecb[e].type = "Q", ecb' = ecb,
         NEW r, OSQTbl' = [OSQTbl EXCEPT ![ecb[e].ptr] = r]
  PROVE  /\ StockNow(e) = Contents(QueueOf(e)) /\ QueueOf(e) \in Rings
         /\ StockIn(ecb'[e], OSQTbl') = Contents(r) /\ \A f \in Events \ {e} : SameEvent(f)
<1>1. /\ ecb[e].ptr \in Queues /\ QueueOf(e) \in Rings /\ QueueOf(e) = OSQTbl[ecb[e].ptr]
      /\ DOMAIN OSQTbl = Queues
  BY QueueRing DEF StoresInv
<1>2. ASSUME NEW f \in Events \ {e}
      PROVE  SameEvent(f)
  <2>1. CASE ecb[f].type = "Q"
    <3>1. ecb[f].ptr # ecb[e].ptr /\ ecb[f].ptr \in Queues
      BY <2>1 DEF PoolsInv, QueueEvents
    <3>2. OSQTbl'[ecb[f].ptr] = OSQTbl[ecb[f].ptr]
      BY <1>1, <3>1
    <3> QED
      BY <3>2, EventIsSame
  <2>2. CASE ecb[f].type # "Q"
    BY <2>2, EventIsSame
  <2> QED
    BY <2>1, <2>2
<1>3. OSQTbl'[ecb[e].ptr] = r
  BY <1>1
<1>4. StockNow(e) = Contents(QueueOf(e))
  BY <1>1 DEF StockNow, StockIn
<1>5. StockIn(ecb'[e], OSQTbl') = Contents(r)
  BY <1>3 DEF StockIn
<1> QED
  BY <1>1, <1>2, <1>4, <1>5

LEMMA SemStoreSeen ==
  ASSUME KernelInv, PoolsInv, StoresInv, Mapped, Mapped', NEW e \in Events, ecb[e].type = "SEM",
         OSEventTbl[e] = {}, ecb' = [ecb EXCEPT ![e].cnt = @ + 1], UNCHANGED taskVars,
         OSQTbl' = OSQTbl
  PROVE  AbstractStep
<1> DEFINE n == ecb[e].cnt
           m == [ecb[e] EXCEPT !.cnt = n + 1]
<1>1. ecb[e] \in SemECBs
  BY EcbFields DEF StoresInv
<1>2. n \in Nat /\ m.type = "SEM" /\ m.cnt = n + 1
  BY <1>1, EventsAssumption DEF SemECBs, ECB
<1>3. StockNow(e) = [i \in 1..n |-> NULL]
  BY DEF StockNow, StockIn
<1>4. ecb' = [ecb EXCEPT ![e] = m]
  BY <1>1
<1> HIDE DEF n, m
<1>5. ecb'[e] = m /\ \A f \in Events \ {e} : SameEvent(f)
  BY <1>4, OneEcbSet
<1>6. StockIn(ecb'[e], OSQTbl') = [i \in 1..(n + 1) |-> NULL]
  BY <1>2, <1>5 DEF StockIn
<1>7. TasksUnseen
  <2>1. MutexesStay
    BY <1>2, <1>4, MutexesStayBut
  <2> QED
    BY <2>1, NothingForTasks DEF taskVars
<1>8. StockNow(e) \in Seq({NULL}) /\ StockIn(ecb'[e], OSQTbl') = Added(StockNow(e), NULL, FALSE)
  BY <1>2, <1>3, <1>6, NullsAdded
<1>9. ecb'[e].type = ecb[e].type /\ ecb[e].type # "UNUSED"
  BY <1>2, <1>5
<1> QED
  BY <1>5, <1>7, <1>8, <1>9, StoredStep

LEMMA MboxStoreSeen ==
  ASSUME KernelInv, PoolsInv, StoresInv, Mapped, Mapped', NEW e \in Events, ecb[e].type = "MBOX",
         OSEventTbl[e] = {}, ecb[e].ptr = NULL, NEW msg \in Msgs,
         ecb' = [ecb EXCEPT ![e].ptr = msg], UNCHANGED taskVars, OSQTbl' = OSQTbl
  PROVE  AbstractStep
<1> DEFINE m == [ecb[e] EXCEPT !.ptr = msg]
<1>1. ecb[e] \in MboxECBs
  BY EcbFields DEF StoresInv
<1>2. m.type = "MBOX" /\ m.ptr = msg
  BY <1>1 DEF MboxECBs, ECB
<1>3. StockNow(e) = <<>>
  BY DEF StockNow, StockIn
<1>4. ecb' = [ecb EXCEPT ![e] = m]
  BY <1>1
<1> HIDE DEF m
<1>5. ecb'[e] = m /\ \A f \in Events \ {e} : SameEvent(f)
  BY <1>4, OneEcbSet
<1>6. msg # NULL
  BY EventsAssumption
<1>7. StockIn(ecb'[e], OSQTbl') = <<msg>>
  BY <1>2, <1>5, <1>6 DEF StockIn
<1>8. TasksUnseen
  <2>1. MutexesStay
    BY <1>2, <1>4, MutexesStayBut
  <2> QED
    BY <2>1, NothingForTasks DEF taskVars
<1>9. StockNow(e) \in Seq(Msgs) /\ StockIn(ecb'[e], OSQTbl') = Added(StockNow(e), msg, FALSE)
  BY <1>3, <1>7 DEF Added
<1>10. ecb'[e].type = ecb[e].type /\ ecb[e].type # "UNUSED"
  BY <1>2, <1>5
<1> QED
  BY <1>5, <1>8, <1>9, <1>10, StoredStep

LEMMA QStoreSeen ==
  ASSUME KernelInv, PoolsInv, StoresInv, Mapped, Mapped', NEW e \in Events, ecb[e].type = "Q",
         OSEventTbl[e] = {}, QueueOf(e).entries < QSize, NEW msg \in Msgs \cup {NULL},
         NEW front \in BOOLEAN,
         OSQTbl' = [OSQTbl EXCEPT ![ecb[e].ptr] = Enqueue(@, msg, front)],
         UNCHANGED taskVars, ecb' = ecb
  PROVE  AbstractStep
<1> DEFINE q == QueueOf(e)
           r == Enqueue(q, msg, front)
<1>1. OSQTbl' = [OSQTbl EXCEPT ![ecb[e].ptr] = r]
  BY QueueRing
<1>2. q \in Rings /\ q.entries < QSize
  BY QueueRing
<1> HIDE DEF q
<1>3. /\ r \in Rings /\ r.entries = q.entries + 1
      /\ front => r.slots = Slots(q, PrevSlot(q.out), msg) /\ r.out = PrevSlot(q.out)
      /\ ~front => r.slots = Slots(q, q.in, msg) /\ r.out = q.out
  BY <1>2, RingPosted
<1> HIDE DEF r
<1>4. /\ StockNow(e) = Contents(q)
      /\ StockIn(ecb'[e], OSQTbl') = Contents(r) /\ \A f \in Events \ {e} : SameEvent(f)
  BY <1>1, OneRingSet DEF q
<1>5. Contents(r) = Added(Contents(q), msg, front)
  BY <1>2, <1>3, ContentsAppended, ContentsPrepended DEF Added
<1>6. Contents(q) \in Seq(Msgs \cup {NULL}) /\ msg \in Msgs \cup {NULL}
  BY <1>2, ContentsOf
<1>7. TasksUnseen
  BY SameEcb, NothingForTasks DEF taskVars
<1> QED
  BY <1>4, <1>5, <1>6, <1>7, StoredStep

LEMMA SemSetSeen ==
  ASSUME KernelInv, PoolsInv, StoresInv, Mapped, Mapped', NeverBoth, NEW e \in Events,
         NEW cnt \in 0..SemMax, OSSemSet(e, cnt)
  PROVE  AbstractStep
<1> DEFINE m == [ecb[e] EXCEPT !.cnt = cnt]
<1>1. /\ ecb[e].type = "SEM" /\ (ecb[e].cnt > 0 \/ OSEventTbl[e] = {})
      /\ ecb' = [ecb EXCEPT ![e].cnt = cnt] /\ UNCHANGED taskVars /\ OSQTbl' = OSQTbl
  BY DEF OSSemSet
<1>2. ecb[e] \in SemECBs
  BY <1>1, EcbFields DEF StoresInv
<1>3. ecb[e].cnt \in Nat /\ m.type = "SEM" /\ m.cnt = cnt /\ cnt \in Nat
  BY <1>2, EventsAssumption DEF SemECBs, ECB
<1>4. ecb' = [ecb EXCEPT ![e] = m]
  BY <1>1, <1>2
<1> HIDE DEF m
<1>5. ecb'[e] = m /\ \A f \in Events \ {e} : SameEvent(f)
  BY <1>1, <1>4, OneEcbSet
<1>6. Abstract!Waiting(e) = {}
  <2>1. CASE ecb[e].cnt > 0
    <3>1. StocksNow[e] = [i \in 1..ecb[e].cnt |-> NULL]
      BY <1>1 DEF Mapped, StockIn
    <3>2. StocksNow[e] # <<>>
      BY <1>3, <2>1, <3>1, Nulls
    <3> QED
      BY <3>2 DEF NeverBoth, Abstract!Waiting
  <2>2. CASE OSEventTbl[e] = {}
    BY <2>2, WaitersNow, WaitersOf
  <2> QED
    BY <1>1, <2>1, <2>2
<1>7. StockIn(ecb'[e], OSQTbl') = [i \in 1..cnt |-> NULL]
  BY <1>3, <1>5 DEF StockIn
<1>8. /\ KindsNow' = [KindsNow EXCEPT ![e] = "SEM"] /\ KindsNow[e] = "SEM"
      /\ StocksNow' = [StocksNow EXCEPT ![e] = [i \in 1..cnt |-> NULL]]
      /\ StocksNow'[e] = [i \in 1..cnt |-> NULL]
  <2> DEFINE s == [i \in 1..cnt |-> NULL]
  <2>1. StockIn(ecb'[e], OSQTbl') = s
    BY <1>7
  <2> HIDE DEF s
  <2>2. KindsNow' = [KindsNow EXCEPT ![e] = ecb'[e].type] /\ StocksNow' = [StocksNow EXCEPT ![e] = s]
    BY <1>5, <2>1, EventSet
  <2>3. KindsNow[e] = "SEM" /\ StocksNow'[e] = s
    BY <1>1, <2>1 DEF Mapped
  <2>4. ecb'[e].type = "SEM"
    BY <1>3, <1>5
  <2> QED
    BY <2>2, <2>3, <2>4 DEF s
<1>9. KindsNow' = KindsNow
  <2>1. KindsNow = [f \in Events |-> KindsNow[f]]
    BY DEF Mapped, Functions
  <2> QED
    BY <1>8, <2>1
<1>10. UNCHANGED <<WaitsNow, ResultsNow, PriosNow>>
  <2>1. MutexesStay
    BY <1>1, <1>3, <1>4, MutexesStayBut
  <2>2. TasksUnseen
    BY <1>1, <2>1, NothingForTasks DEF taskVars
  <2> QED
    BY <2>2, TasksKept, PriosKept DEF TasksUnseen
<1>11. Len(StocksNow'[e]) = cnt
  <2>1. Len([i \in 1..cnt |-> NULL]) = cnt
    BY <1>3
  <2> QED
    BY <1>8, <2>1
<1>12. Abstract!SetCount(e, cnt)
  BY <1>6, <1>8, <1>9, <1>10 DEF Abstract!SetCount
<1>13. Abstract!SetCount(e, Len(StocksNow'[e]))
  BY <1>11, <1>12
<1> QED
  BY <1>13, EventsStep

LEMMA FlushSeen ==
  ASSUME KernelInv, PoolsInv, StoresInv, Mapped, Mapped', NEW e \in Events, OSQFlush(e)
  PROVE  AbstractStep
<1> DEFINE r == [QueueOf(e) EXCEPT !.in = 0, !.out = 0, !.entries = 0]
<1>1. /\ ecb[e].type = "Q" /\ UNCHANGED taskVars /\ ecb' = ecb
      /\ OSQTbl' = [OSQTbl EXCEPT ![ecb[e].ptr] = [@ EXCEPT !.in = 0, !.out = 0, !.entries = 0]]
  BY DEF OSQFlush
<1>2. OSQTbl' = [OSQTbl EXCEPT ![ecb[e].ptr] = r] /\ QueueOf(e) \in Rings
  BY <1>1, QueueRing
<1>3. r.entries = 0
  BY <1>2, RingFlushed
<1> HIDE DEF r
<1>4. StockIn(ecb'[e], OSQTbl') = <<>> /\ \A f \in Events \ {e} : SameEvent(f)
  <2>1. Contents(r) = <<>>
    BY <1>3, ContentsEmpty
  <2>2. StockIn(ecb'[e], OSQTbl') = Contents(r) /\ \A f \in Events \ {e} : SameEvent(f)
    BY <1>1, <1>2, OneRingSet
  <2> QED
    BY <2>1, <2>2
<1>5. /\ KindsNow' = [KindsNow EXCEPT ![e] = "Q"] /\ KindsNow[e] = "Q"
      /\ StocksNow' = [StocksNow EXCEPT ![e] = <<>>]
  BY <1>1, <1>4, EventSet DEF Mapped
<1>6. KindsNow' = KindsNow
  <2>1. KindsNow = [f \in Events |-> KindsNow[f]]
    BY DEF Mapped, Functions
  <2> QED
    BY <1>5, <2>1
<1>7. UNCHANGED <<WaitsNow, ResultsNow, PriosNow>>
  <2>1. TasksUnseen
    BY <1>1, SameEcb, NothingForTasks DEF taskVars
  <2> QED
    BY <2>1, TasksKept, PriosKept DEF TasksUnseen
<1>8. Abstract!Flush(e)
  BY <1>5, <1>6, <1>7 DEF Abstract!Flush
<1> QED
  BY <1>8, EventsStep

LEMMA CreatedStep ==
  ASSUME Mapped, Mapped', NEW e \in Events, ecb[e].type = "UNUSED", ecb'[e].type # "UNUSED",
         \A f \in Events \ {e} : SameEvent(f), TasksUnseen
  PROVE  AbstractStep
<1>1. /\ KindsNow[e] = "UNUSED" /\ KindsNow'[e] = ecb'[e].type
      /\ StocksNow'[e] = StockIn(ecb'[e], OSQTbl')
      /\ KindsNow' = [KindsNow EXCEPT ![e] = ecb'[e].type]
      /\ StocksNow' = [StocksNow EXCEPT ![e] = StockIn(ecb'[e], OSQTbl')]
  BY EventSet DEF Mapped
<1>2. UNCHANGED <<WaitsNow, ResultsNow, PriosNow>>
  BY TasksKept, PriosKept DEF TasksUnseen
<1>3. Abstract!Create(e, KindsNow'[e], StocksNow'[e])
  BY <1>1, <1>2 DEF Abstract!Create
<1> QED
  BY <1>3, EventsStep

LEMMA CreateSeen ==
  ASSUME KernelInv, PoolsInv, StoresInv, Mapped, Mapped', NEW type \in PostTypes, NEW cnt, NEW ptr,
         CreateEvent(type, cnt, ptr),
         OSQTbl' = OSQTbl \/ (ptr \in FreeQueues /\ \E r : OSQTbl' = [OSQTbl EXCEPT ![ptr] = r])
  PROVE  AbstractStep
<1> DEFINE e == Head(OSEventFreeList)
           m == [type |-> type, cnt |-> cnt, ptr |-> ptr]
<1>1. e \in Events /\ ecb[e].type = "UNUSED"
  BY NextEvent DEF CreateEvent
<1>2. ecb' = [ecb EXCEPT ![e] = m] /\ tcb' = tcb /\ pc' = pc
  BY DEF CreateEvent
<1>3. m.type = type /\ type # "UNUSED" /\ type # "MUTEX"
  BY DEF PostTypes
<1> HIDE DEF e, m
<1>4. DOMAIN ecb = Events
  BY DEF PoolsInv, EcbShape
<1>5. ecb'[e] = m /\ \A f \in Events \ {e} : ecb'[f] = ecb[f]
  BY <1>1, <1>2, <1>4
<1>6. ASSUME NEW f \in Events \ {e}
      PROVE  SameEvent(f)
  <2>1. ASSUME ecb[f].type = "Q"
        PROVE  OSQTbl'[ecb[f].ptr] = OSQTbl[ecb[f].ptr]
    <3>1. ptr \in FreeQueues => ecb[f].ptr # ptr
      BY <2>1 DEF FreeQueues, QueueEvents
    <3>2. DOMAIN OSQTbl = Queues /\ ecb[f].ptr \in Queues
      BY <2>1 DEF StoresInv, PoolsInv, QueueEvents
    <3> QED
      BY <3>1, <3>2
  <2> QED
    BY <1>5, <2>1, EventIsSame
<1>7. MutexesStay
  BY <1>1, <1>2, <1>3, MutexesStayBut
<1> QED
  BY <1>1, <1>2, <1>3, <1>5, <1>6, <1>7, NothingForTasks, CreatedStep

-----------------------------------------------------------------------------
(* What becomes of a mutex *)

LEMMA CreateMutexSeen ==
  ASSUME KernelInv, PoolsInv, Mapped, Mapped', NEW pcp \in PCPs, OSMutexCreate(pcp)
  PROVE  AbstractStep
<1> DEFINE e == Head(OSEventFreeList)
<1>1. e \in Events /\ ecb[e].type = "UNUSED"
  BY NextEvent DEF OSMutexCreate
<1>2. /\ ecb' = [ecb EXCEPT ![e] = [type |-> "MUTEX", cnt |-> MutexCnt(pcp, 255), ptr |-> NULL]]
      /\ tcb' = tcb /\ pc' = pc /\ OSQTbl' = OSQTbl
  BY DEF OSMutexCreate, OS_MUTEX_AVAILABLE
<1> HIDE DEF e
<1>3. pcp \in 0..255 /\ 255 \in 0..255
  BY CeilIsPrio
<1>4. MutexIs(ecb'[e], pcp, 255, NULL) /\ OthersKept(e, ecb, ecb')
  <2>1. MutexSet(e, pcp, 255, NULL, ecb, ecb')
    BY <1>2 DEF MutexSet
  <2> QED
    BY <1>1, <1>3, <2>1, SetMutex, Zenon
<1>5. ecb'[e].type = "MUTEX" /\ ecb'[e].ptr = NULL /\ e \notin Mutexes(ecb)
  BY <1>1, <1>4 DEF MutexIs, Mutexes
<1>6. ASSUME NEW t \in Tasks
      PROVE  SamePrioOf(t)
  <2>1. t # NULL
    BY Constants
  <2> QED
    BY <1>2, <1>4, <1>5, <2>1, PrioOfOther
<1>7. TasksUnseen
  BY <1>2, <1>6, TaskIsSame DEF TasksUnseen
<1>8. \A f \in Events \ {e} : SameEvent(f)
  BY <1>2, <1>4, OtherEventsSame
<1> QED
  BY <1>1, <1>5, <1>7, <1>8, CreatedStep

LEMMA MutexHandedSeen ==
  ASSUME KernelInv, PoolsInv, Mapped, Mapped', NEW e \in Events, OSMutexPost(e),
         OSEventTbl[e] # {}, HandOver(e, HighestWaiter(e)), LowerAndReady(e, {HighestWaiter(e)})
  PROVE  AbstractStep
<1> DEFINE c == Ceil(ecb[e])
           w == HighestWaiter(e)
<1>1. /\ IsMutex(e) /\ OSTCBCur \in Tasks /\ Owner(e) = OSTCBCur /\ OSQTbl' = OSQTbl
  BY DEF OSMutexPost, TaskCall
<1>2. /\ e \in Mutexes(ecb) /\ Owner(e) = ecb[e].ptr /\ PCP(e) = c /\ ecb[e].type = "MUTEX"
      /\ OwnersOK(tcb, pc, ecb)
  BY <1>1, OwnersAre DEF Mutexes, KernelInv
<1>3. c \in 0..255
  <2>1. c \in PCPs
    BY <1>2 DEF OwnersOK
  <2> QED
    BY <2>1, CeilIsPrio
<1>4. w \in WaitSet(tcb, pc, e) /\ w \in Tasks
  BY WaitersOf DEF WaitSet
<1>5. tcb[w].prio \in Prios
  <2>1. w \in LiveSet(pc)
    BY <1>4, SetsAreLive
  <2> QED
    BY <2>1 DEF KernelInv, Data
<1>6. ecb' = [ecb EXCEPT ![e].cnt = MutexCnt(c, tcb[w].prio), ![e].ptr = w]
  BY <1>2 DEF HandOver, GiveMutex
<1>7. Chosen(e, FALSE) = {w} /\ LowerAndReady(e, {w})
  BY DEF Chosen
<1> HIDE DEF w, c
<1>8. MutexIs(ecb'[e], c, tcb[w].prio, w) /\ OthersKept(e, ecb, ecb')
  <2>1. MutexSet(e, c, tcb[w].prio, w, ecb, ecb')
    BY <1>2, <1>6 DEF MutexSet
  <2>2. Prios \subseteq 0..255
    BY TasksAssumption
  <2>3. tcb[w].prio \in 0..255
    BY <1>5, <2>2
  <2> QED
    BY <1>3, <2>1, <2>3, SetMutex, Zenon
<1>9. ecb'[e].type = "MUTEX" /\ ecb'[e].ptr = w /\ Saved(ecb'[e]) = tcb[w].prio
  BY <1>8 DEF MutexIs
<1>10. /\ AnswersGiven({w}, "NONE", e, NULL, tcb, pc, tcb', pc') /\ pc' = pc
       /\ \A t \in Tasks : tcb'[t].prio = LoweredTCBs(e)[t].prio
  <2>1. {w} \in SUBSET WaitSet(tcb, pc, e)
    BY <1>4
  <2> QED
    BY <1>1, <1>7, <2>1, LoweredSeen
<1>11. \A t \in Tasks : SamePrioOf(t)
  BY <1>1, <1>4, <1>8, <1>9, <1>10, GivenBackPrios
<1>12. \A f \in Events \ {e} : SameEvent(f)
  BY <1>1, <1>8, OtherEventsSame
<1>13. SameEvent(e)
  <2>1. w # NULL /\ ecb[e].ptr # NULL
    BY <1>1, <1>2, <1>4, Constants
  <2> QED
    BY <1>2, <1>9, <2>1, MutexStock DEF SameEvent
<1>14. \A f \in Events : SameEvent(f)
  BY <1>12, <1>13
<1> QED
  BY <1>7, <1>10, <1>11, <1>14, PostedStep

LEMMA MutexFreedSeen ==
  ASSUME KernelInv, PoolsInv, Mapped, Mapped', NEW e \in Events, OSMutexPost(e),
         OSEventTbl[e] = {}, LowerAndReady(e, {}),
         ecb' = [ecb EXCEPT ![e].cnt = MutexCnt(PCP(e), OS_MUTEX_AVAILABLE), ![e].ptr = NULL]
  PROVE  AbstractStep
<1> DEFINE c == Ceil(ecb[e])
<1>1. /\ IsMutex(e) /\ OSTCBCur \in Tasks /\ Owner(e) = OSTCBCur /\ OSQTbl' = OSQTbl
  BY DEF OSMutexPost, TaskCall
<1>2. /\ e \in Mutexes(ecb) /\ Owner(e) = ecb[e].ptr /\ PCP(e) = c /\ ecb[e].type = "MUTEX"
      /\ OwnersOK(tcb, pc, ecb)
  BY <1>1, OwnersAre DEF Mutexes, KernelInv
<1>3. c \in 0..255 /\ 255 \in 0..255
  <2>1. c \in PCPs
    BY <1>2 DEF OwnersOK
  <2> QED
    BY <2>1, CeilIsPrio
<1>4. ecb' = [ecb EXCEPT ![e].cnt = MutexCnt(c, 255), ![e].ptr = NULL]
  BY <1>2 DEF OS_MUTEX_AVAILABLE
<1> HIDE DEF c
<1>5. MutexIs(ecb'[e], c, 255, NULL) /\ OthersKept(e, ecb, ecb')
  <2>1. MutexSet(e, c, 255, NULL, ecb, ecb')
    BY <1>2, <1>4 DEF MutexSet
  <2> QED
    BY <1>3, <2>1, SetMutex, Zenon
<1>6. ecb'[e].type = "MUTEX" /\ ecb'[e].ptr = NULL
  BY <1>5 DEF MutexIs
<1>7. /\ AnswersGiven({}, "NONE", e, NULL, tcb, pc, tcb', pc') /\ pc' = pc
      /\ \A t \in Tasks : tcb'[t].prio = LoweredTCBs(e)[t].prio
  <2>1. {} \in SUBSET WaitSet(tcb, pc, e)
    OBVIOUS
  <2> QED
    BY <1>1, <2>1, LoweredSeen
<1>8. TasksUnseen
  <2>1. \A t \in Tasks : SamePrioOf(t)
    BY <1>1, <1>5, <1>6, <1>7, GivenBackPrios
  <2>2. \A t \in Tasks : SameTask(t)
    BY <1>7 DEF AnswersGiven, SameTask
  <2> QED
    BY <2>1, <2>2 DEF TasksUnseen
<1>9. \A f \in Events \ {e} : SameEvent(f)
  BY <1>1, <1>5, OtherEventsSame
<1>10. StockNow(e) = <<>> /\ StockIn(ecb'[e], OSQTbl') = <<NULL>>
  <2>1. ecb[e].ptr # NULL
    BY <1>1, <1>2, Constants
  <2> QED
    BY <1>2, <1>6, <2>1, MutexStock DEF StockNow
<1>11. StockNow(e) \in Seq({NULL}) /\ StockIn(ecb'[e], OSQTbl') = Added(StockNow(e), NULL, FALSE)
  BY <1>10 DEF Added
<1>12. ecb'[e].type = ecb[e].type /\ ecb[e].type # "UNUSED"
  BY <1>2, <1>6
<1> QED
  BY <1>8, <1>9, <1>11, <1>12, StoredStep

LEMMA MutexDelSeen ==
  ASSUME KernelInv, PoolsInv, Hazards = {}, Mapped, Mapped', NEW e \in Events,
         NEW always \in BOOLEAN, OSMutexDel(e, always)
  PROVE  AbstractStep
<1>1. IsMutex(e) /\ OSTCBCur \in Tasks /\ ecb' = [ecb EXCEPT ![e] = UnusedECB] /\ OSQTbl' = OSQTbl
  BY DEF OSMutexDel, TaskCall
<1>2. OthersKept(e, ecb, ecb') /\ ecb'[e].type = "UNUSED" /\ ecb[e].type # "UNUSED"
  <2>1. DOMAIN ecb = Events
    BY DEF PoolsInv, EcbShape
  <2> QED
    BY <1>1, <2>1 DEF OthersKept, UnusedECB, IsMutex
<1>3. /\ AnswersGiven(WaitSet(tcb, pc, e), "NONE", e, NULL, tcb, pc, tcb', pc') /\ pc' = pc
      /\ \A t \in Tasks : tcb'[t].prio = LoweredTCBs(e)[t].prio
  <2>1. ASSUME Raised(e) /\ Owner(e) # OSTCBCur => "DeleteOwned" \in Hazards,
               LowerAndReady(e, Waiters(e))
        PROVE  /\ AnswersGiven(WaitSet(tcb, pc, e), "NONE", e, NULL, tcb, pc, tcb', pc') /\ pc' = pc
               /\ \A t \in Tasks : tcb'[t].prio = LoweredTCBs(e)[t].prio
    <3>1. (Raised(e) => Owner(e) = OSTCBCur) /\ LowerAndReady(e, WaitSet(tcb, pc, e))
      BY <2>1, WaitersOf
    <3> QED
      BY <1>1, <3>1, LoweredSeen
  <2>2. ASSUME Raised(e) => "DeleteRaised" \in Hazards, tcb' = tcb, pc' = pc, OSEventTbl[e] = {}
        PROVE  /\ AnswersGiven(WaitSet(tcb, pc, e), "NONE", e, NULL, tcb, pc, tcb', pc') /\ pc' = pc
               /\ \A t \in Tasks : tcb'[t].prio = LoweredTCBs(e)[t].prio
    <3>1. LoweredTCBs(e) = tcb
      BY <2>2 DEF LoweredTCBs
    <3>2. WaitSet(tcb, pc, e) = {}
      BY <2>2, WaitersOf
    <3> QED
      BY <2>2, <3>1, <3>2 DEF AnswersGiven
  <2> QED
    BY <2>1, <2>2 DEF OSMutexDel
<1>4. e \notin Mutexes(ecb')
  BY <1>2 DEF Mutexes
<1>5. \A t \in Tasks : SamePrioOf(t)
  BY <1>1, <1>2, <1>3, <1>4, GivenBackPrios
<1>6. \A f \in Events \ {e} : SameEvent(f)
  BY <1>1, <1>2, OtherEventsSame
<1> QED
  BY <1>2, <1>3, <1>5, <1>6, DeletedStep

LEMMA MutexSeen ==
  ASSUME KernelInv, PoolsInv, Hazards = {}, Mapped, Mapped', MutexNext
  PROVE  AbstractStep
<1>1. ASSUME NEW e \in Events, OSMutexPost(e)
      PROVE  AbstractStep
  BY <1>1, MutexHandedSeen, MutexFreedSeen DEF OSMutexPost
<1>2. ASSUME NEW e \in Events, OSMutexAccept(e)
      PROVE  AbstractStep
  BY <1>2, TakeMutexSeen DEF OSMutexAccept
<1> QED
  BY <1>1, <1>2, CreateMutexSeen, MutexPendSeen, MutexDelSeen DEF MutexNext

-----------------------------------------------------------------------------
(* The return from a pend *)

LEMMA LeftSeen ==
  ASSUME KernelInv, Mapped, Mapped', OSTCBCur \in Tasks, pc[OSTCBCur].at = "pend",
         NEW err, NEW got, LeavePend(err, got), ecb' = ecb, OSQTbl' = OSQTbl,
         \/ err = "TO" /\ got = {} /\ WaitsOf(tcb[OSTCBCur], pc[OSTCBCur]) # {}
         \/ /\ WaitsOf(tcb[OSTCBCur], pc[OSTCBCur]) = {}
            /\ ResultIn(tcb[OSTCBCur], pc[OSTCBCur]) = Told(err, got)
  PROVE  AbstractStep
<1> DEFINE x == OSTCBCur
           c == [tcb[x] EXCEPT !.stat = OS_STAT_RDY, !.statpend = "OK", !.eventptr = NULL,
                               !.multiptr = {}, !.msg = NULL]
           k == Returned(err, got)
<1>1. tcb \in [Tasks -> OS_TCB] /\ DOMAIN pc = Tasks
  BY DEF KernelInv, Data
<1>2. tcb' = [tcb EXCEPT ![x] = c] /\ pc' = [pc EXCEPT ![x] = k]
  BY DEF LeavePend
<1>3. c.prio = tcb[x].prio
  BY <1>1, LeftFields, Zenon
<1>4. k.at = "returned" /\ k.err = err /\ k.got = got
  BY DEF Returned
<1>5. /\ x \in Tasks /\ pc[x].at = "pend"
      /\ \/ err = "TO" /\ got = {} /\ WaitsOf(tcb[x], pc[x]) # {}
         \/ WaitsOf(tcb[x], pc[x]) = {} /\ ResultIn(tcb[x], pc[x]) = Told(err, got)
  OBVIOUS
<1> HIDE DEF x, c, k
<1>6. /\ tcb'[x] = c /\ pc'[x] = k
      /\ \A t \in Tasks \ {x} : tcb'[t] = tcb[t] /\ pc'[t] = pc[t]
  BY <1>1, <1>2, <1>5
<1>7. WaitsOf(tcb'[x], pc'[x]) = {} /\ ResultIn(tcb'[x], pc'[x]) = Told(err, got)
  BY <1>4, <1>6 DEF WaitsOf, Unans, ResultIn
<1>8. \A t \in Tasks : SamePrioOf(t)
  <2>1. \A t \in Tasks : tcb'[t].prio = tcb[t].prio /\ (Live(pc'[t]) <=> Live(pc[t]))
    BY <1>3, <1>4, <1>5, <1>6 DEF Live
  <2> QED
    BY <2>1, SameEcb, PriosAreSame
<1>9. \A t \in Tasks \ {x} : SameTask(t)
  BY <1>6, TaskIsSame
<1>10. \A e \in Events : SameEvent(e)
  BY EventsAreSame
<1>11. CASE WaitsOf(tcb[x], pc[x]) = {} /\ ResultIn(tcb[x], pc[x]) = Told(err, got)
  <2>1. SameTask(x)
    BY <1>7, <1>11 DEF SameTask
  <2> QED
    BY <1>8, <1>9, <1>10, <2>1, StutterStep DEF Unseen
<1>12. CASE err = "TO" /\ got = {} /\ WaitsOf(tcb[x], pc[x]) # {}
  <2>1. UNCHANGED <<KindsNow, StocksNow, PriosNow>>
    BY <1>8, <1>10, EventsKept, PriosKept
  <2>2. /\ WaitsNow' = [WaitsNow EXCEPT ![x] = {}]
        /\ ResultsNow' = [ResultsNow EXCEPT ![x] = Told("TO", {})]
    BY <1>5, <1>7, <1>9, <1>12, TaskSet
  <2>3. WaitsNow[x] # {}
    BY <1>5, <1>12 DEF Mapped
  <2>4. Abstract!TimeOut(x)
    BY <2>1, <2>2, <2>3 DEF Abstract!TimeOut, Told
  <2> QED
    BY <1>5, <2>4, TasksStep
<1> QED
  BY <1>5, <1>11, <1>12

LEMMA ReturnsSeen ==
  ASSUME KernelInv, SwitchReturns = TRUE, Mapped, Mapped', PendReturns
  PROVE  AbstractStep
<1> DEFINE x == OSTCBCur
           answer == {<<tcb[x].eventptr, tcb[x].msg>>}
<1>1. /\ x \in Tasks /\ pc[x].at = "pend" /\ pc[x].svc # "OSFlagPend"
      /\ IF pc[x].svc = "OSEventPendMulti" THEN PendMultiTail ELSE PendTail
      /\ ecb' = ecb /\ OSQTbl' = OSQTbl
  BY DEF PendReturns, eventVars
<1>2. Runs(tcb[x], pc[x]) /\ Shape(tcb[x], pc[x], ecb) /\ Cur = tcb[x]
  BY <1>1, CurrentRuns DEF Cur
<1>3. Unans(tcb[x], pc[x]) <=> tcb[x].statpend = "TO"
  BY <1>1, <1>2 DEF Runs, Unans
<1>4. Answer(Cur.eventptr) = answer
  BY <1>2 DEF Answer
<1> HIDE DEF answer
<1>5. ASSUME tcb[x].statpend = "TO", LeavePend("TO", {})
      PROVE  AbstractStep
  <2>1. WaitsOf(tcb[x], pc[x]) # {}
    BY <1>1, <1>2, <1>3, <1>5, PendsOn DEF WaitsOf
  <2> QED
    BY <1>1, <1>5, <2>1, LeftSeen
<1>6. ASSUME NEW err, tcb[x].statpend # "TO", err = IF tcb[x].statpend = "OK" THEN "NONE" ELSE tcb[x].statpend,
             LeavePend(err, answer)
      PROVE  AbstractStep
  <2>1. WaitsOf(tcb[x], pc[x]) = {} /\ ResultIn(tcb[x], pc[x]) = Told(err, answer)
    BY <1>1, <1>3, <1>6 DEF WaitsOf, ResultIn, AnswerIn, answer
  <2> QED
    BY <1>1, <1>6, <2>1, LeftSeen
<1>7. CASE pc[x].svc = "OSEventPendMulti"
  <2>1. MultiShape(tcb[x], pc[x], ecb)
    BY <1>1, <1>2, <1>7 DEF Shape, SinglePends
  <2>2. tcb[x].eventptr = NULL => tcb[x].statpend = "TO"
    BY <1>1, <1>3, <2>1 DEF Unans, MultiShape
  <2>3. tcb[x].statpend # "TO" => ecb[tcb[x].eventptr].type # "UNUSED"
    BY <2>1, <2>2 DEF MultiShape, PostTypes
  <2>4. PendMultiTail
    BY <1>1, <1>7
  <2>5. CASE LeavePend("TO", {}) /\ tcb[x].statpend = "TO"
    BY <1>5, <2>5
  <2>6. CASE tcb[x].statpend = "ABORT" /\ LeavePend("ABORT", answer)
    BY <1>6, <2>6
  <2>7. CASE tcb[x].statpend = "OK" /\ LeavePend("NONE", answer)
    BY <1>6, <2>7
  <2> QED
    BY <1>2, <1>4, <2>2, <2>3, <2>4, <2>5, <2>6, <2>7 DEF PendMultiTail, PendTimedOut
<1>8. CASE pc[x].svc # "OSEventPendMulti"
  <2>1. PendTail
    BY <1>1, <1>8
  <2>2. CASE LeavePend("TO", {}) /\ tcb[x].statpend = "TO"
    BY <1>5, <2>2
  <2>3. CASE tcb[x].statpend = "ABORT" /\ LeavePend("ABORT", answer)
    BY <1>6, <2>3
  <2>4. CASE tcb[x].statpend = "OK" /\ LeavePend("NONE", answer)
    BY <1>6, <2>4
  <2> QED
    BY <1>2, <1>4, <2>1, <2>2, <2>3, <2>4 DEF PendTail, PendTimedOut
<1> QED
  BY <1>7, <1>8

-----------------------------------------------------------------------------
(* The calls of the services *)

\* An interrupt handler takes the first item.
LEMMA TakenAwayStep ==
  ASSUME PoolsInv, StoresInv, Mapped, Mapped', NEW e \in Events, ecb[e].type \in PostTypes,
         Available(e), Take({e}), UNCHANGED taskVars
  PROVE  AbstractStep
<1>1. /\ StockNow(e) # <<>> /\ StockIn(ecb'[e], OSQTbl') = Tail(StockNow(e))
      /\ ecb'[e].type = ecb[e].type /\ \A f \in Events \ {e} : SameEvent(f)
  BY TakenStocks
<1>2. /\ KindsNow[e] = ecb[e].type /\ StocksNow[e] = StockNow(e)
      /\ KindsNow' = [KindsNow EXCEPT ![e] = ecb'[e].type]
      /\ StocksNow' = [StocksNow EXCEPT ![e] = Tail(StocksNow[e])]
  BY <1>1, EventSet DEF Mapped, StockNow
<1>3. KindsNow' = KindsNow
  <2>1. KindsNow = [f \in Events |-> KindsNow[f]]
    BY DEF Mapped, Functions
  <2> QED
    BY <1>1, <1>2, <2>1
<1>4. UNCHANGED <<WaitsNow, ResultsNow, PriosNow>>
  <2>1. TasksUnseen
    BY TakeMutexes, NothingForTasks DEF taskVars
  <2> QED
    BY <2>1, TasksKept, PriosKept DEF TasksUnseen
<1>5. Abstract!TakeAway(e)
  BY <1>1, <1>2, <1>3, <1>4 DEF Abstract!TakeAway, PostTypes
<1> QED
  BY <1>5, EventsStep

LEMMA AcceptSeen ==
  ASSUME KernelInv, PoolsInv, StoresInv, Mapped, Mapped', NEW name, NEW e \in Events,
         NEW type \in PostTypes, Accept(name, e, type)
  PROVE  AbstractStep
<1>1. ecb[e].type \in PostTypes /\ Available(e)
  BY DEF Accept
<1>2. CASE TaskCall(name) /\ TakeNow({e})
  BY <1>1, <1>2, TakeNowSeen DEF TaskCall
<1>3. CASE Take({e}) /\ UNCHANGED taskVars
  BY <1>1, <1>3, TakenAwayStep
<1> QED
  BY <1>2, <1>3 DEF Accept

LEMMA SemSeen ==
  ASSUME KernelInv, PoolsInv, StoresInv, Mapped, Mapped', NeverBoth, NEW e \in Events, SemCall(e)
  PROVE  AbstractStep
<1>1. ASSUME NEW timeout \in 0..MaxDly, OSSemPend(e, timeout)
      PROVE  AbstractStep
  <2>1. "SEM" \in PostTypes /\ "OSSemPend" \in SinglePends \ {"OSMutexPend"}
    BY DEF PostTypes, SinglePends
  <2> QED
    BY <1>1, <2>1, PendOnSeen DEF OSSemPend
<1>2. CASE OSSemAccept(e)
  BY <1>2, AcceptSeen DEF OSSemAccept, PostTypes
<1>3. CASE OSSemPost(e)
  <2>1. CASE PostToWaiters(e, NULL, FALSE, TRUE)
    BY <1>3, <2>1, PostSeen DEF OSSemPost
  <2>2. CASE ~PostToWaiters(e, NULL, FALSE, TRUE)
    BY <1>3, <2>2, SemStoreSeen DEF OSSemPost
  <2> QED
    BY <2>1, <2>2
<1>4. ASSUME NEW cnt \in 0..SemMax, OSSemSet(e, cnt)
      PROVE  AbstractStep
  BY <1>4, SemSetSeen
<1>5. ASSUME NEW all \in BOOLEAN, OSSemPendAbort(e, all)
      PROVE  AbstractStep
  BY <1>5, AbortSeen DEF OSSemPendAbort
<1>6. ASSUME NEW all \in BOOLEAN, OSSemDel(e, all)
      PROVE  AbstractStep
  BY <1>6, DeleteSeen DEF OSSemDel, PostTypes
<1> QED
  BY <1>1, <1>2, <1>3, <1>4, <1>5, <1>6 DEF SemCall

LEMMA MboxSeen ==
  ASSUME KernelInv, PoolsInv, StoresInv, Mapped, Mapped', NEW e \in Events, MboxCall(e)
  PROVE  AbstractStep
<1>1. ASSUME NEW timeout \in 0..MaxDly, OSMboxPend(e, timeout)
      PROVE  AbstractStep
  <2>1. "MBOX" \in PostTypes /\ "OSMboxPend" \in SinglePends \ {"OSMutexPend"}
    BY DEF PostTypes, SinglePends
  <2> QED
    BY <1>1, <2>1, PendOnSeen DEF OSMboxPend
<1>2. CASE OSMboxAccept(e)
  BY <1>2, AcceptSeen DEF OSMboxAccept, PostTypes
<1>3. ASSUME NEW msg \in Msgs, NEW all \in BOOLEAN, NEW sched \in BOOLEAN,
             OSMboxPostOpt(e, msg, all, sched)
      PROVE  AbstractStep
  <2>1. CASE PostToWaiters(e, msg, all, sched)
    BY <1>3, <2>1, PostSeen DEF OSMboxPostOpt
  <2>2. CASE ~PostToWaiters(e, msg, all, sched)
    BY <1>3, <2>2, MboxStoreSeen DEF OSMboxPostOpt
  <2> QED
    BY <2>1, <2>2
<1>4. ASSUME NEW all \in BOOLEAN, OSMboxPendAbort(e, all)
      PROVE  AbstractStep
  BY <1>4, AbortSeen DEF OSMboxPendAbort
<1>5. ASSUME NEW all \in BOOLEAN, OSMboxDel(e, all)
      PROVE  AbstractStep
  BY <1>5, DeleteSeen DEF OSMboxDel, PostTypes
<1> QED
  BY <1>1, <1>2, <1>3, <1>4, <1>5 DEF MboxCall, OSMboxPost

LEMMA QSeen ==
  ASSUME KernelInv, PoolsInv, StoresInv, Mapped, Mapped', NEW e \in Events, QCall(e)
  PROVE  AbstractStep
<1>1. ASSUME NEW timeout \in 0..MaxDly, OSQPend(e, timeout)
      PROVE  AbstractStep
  <2>1. "Q" \in PostTypes /\ "OSQPend" \in SinglePends \ {"OSMutexPend"}
    BY DEF PostTypes, SinglePends
  <2> QED
    BY <1>1, <2>1, PendOnSeen DEF OSQPend
<1>2. CASE OSQAccept(e)
  BY <1>2, AcceptSeen DEF OSQAccept, PostTypes
<1>3. ASSUME NEW msg \in Msgs \cup {NULL}, NEW front \in BOOLEAN, NEW all \in BOOLEAN,
             NEW sched \in BOOLEAN,
             OSQPostOpt(e, msg, front, all, sched)
      PROVE  AbstractStep
  <2>1. CASE PostToWaiters(e, msg, all, sched)
    BY <1>3, <2>1, PostSeen DEF OSQPostOpt
  <2>2. CASE ~PostToWaiters(e, msg, all, sched)
    BY <1>3, <2>2, QStoreSeen DEF OSQPostOpt
  <2> QED
    BY <2>1, <2>2
<1>4. ASSUME NEW all \in BOOLEAN, OSQPendAbort(e, all)
      PROVE  AbstractStep
  BY <1>4, AbortSeen DEF OSQPendAbort
<1>5. ASSUME NEW all \in BOOLEAN, OSQDel(e, all)
      PROVE  AbstractStep
  BY <1>5, DeleteSeen DEF OSQDel, PostTypes
<1> QED
  BY <1>1, <1>2, <1>3, <1>4, <1>5, FlushSeen DEF QCall, OSQPost, OSQPostFront

LEMMA EventsSeen ==
  ASSUME KernelInv, PoolsInv, StoresInv, Mapped, Mapped', NeverBoth, EventsNext
  PROVE  AbstractStep
<1>1. ASSUME NEW cnt \in 0..SemMax, OSSemCreate(cnt)
      PROVE  AbstractStep
  <2>1. "SEM" \in PostTypes /\ CreateEvent("SEM", cnt, NULL) /\ OSQTbl' = OSQTbl
    BY <1>1 DEF OSSemCreate, PostTypes
  <2>2. OSQTbl' = OSQTbl \/ (NULL \in FreeQueues /\ \E r : OSQTbl' = [OSQTbl EXCEPT ![NULL] = r])
    BY <2>1
  <2> QED
    BY <2>1, <2>2, CreateSeen
<1>2. ASSUME NEW msg \in Msgs \cup {NULL}, OSMboxCreate(msg)
      PROVE  AbstractStep
  <2>1. "MBOX" \in PostTypes /\ CreateEvent("MBOX", 0, msg) /\ OSQTbl' = OSQTbl
    BY <1>2 DEF OSMboxCreate, PostTypes
  <2>2. OSQTbl' = OSQTbl \/ (msg \in FreeQueues /\ \E r : OSQTbl' = [OSQTbl EXCEPT ![msg] = r])
    BY <2>1
  <2> QED
    BY <2>1, <2>2, CreateSeen
<1>3. CASE OSQCreate
  <2> DEFINE q == Head(OSQFreeList)
  <2>1. q \in FreeQueues
    BY <1>3, TailLists DEF OSQCreate, PoolsInv
  <2>2. OSQTbl' = [OSQTbl EXCEPT ![q] = EmptyQ] /\ CreateEvent("Q", 0, q)
    BY <1>3 DEF OSQCreate
  <2> HIDE DEF q
  <2>3. \E r : OSQTbl' = [OSQTbl EXCEPT ![q] = r]
    BY <2>2
  <2>4. "Q" \in PostTypes
    BY DEF PostTypes
  <2> QED
    BY <2>1, <2>2, <2>3, <2>4, CreateSeen
<1> QED
  BY <1>1, <1>2, <1>3, SemSeen, MboxSeen, QSeen, PendMultiSeen DEF EventsNext

-----------------------------------------------------------------------------
(* The event flags, which EventService does not see *)

\* In its own code, or inside OSFlagPend.
Apart(k) == k.at = "task" \/ (k.at = "pend" /\ k.svc = "OSFlagPend" /\ k.on = {})

LEMMA ApartIsNothing ==
  ASSUME NEW c, NEW k, Apart(k)
  PROVE  WaitsOf(c, k) = {} /\ ResultIn(c, k) = Nothing /\ Live(k)
BY DEF Apart, WaitsOf, ResultIn, Unans, Live

LEMMA ApartUnseen ==
  ASSUME KernelInv, NEW x \in Tasks, NEW c, NEW k, Apart(pc[x]), Apart(k), c.prio = tcb[x].prio,
         tcb' = tcb \/ tcb' = [tcb EXCEPT ![x] = c], pc' = [pc EXCEPT ![x] = k],
         ecb' = ecb, OSQTbl' = OSQTbl
  PROVE  Unseen
<1>1. DOMAIN tcb = Tasks /\ DOMAIN pc = Tasks
  BY DEF KernelInv, Data
<1>2. /\ pc'[x] = k /\ tcb'[x].prio = tcb[x].prio
      /\ \A t \in Tasks \ {x} : tcb'[t] = tcb[t] /\ pc'[t] = pc[t]
  BY <1>1
<1>3. \A t \in Tasks : SamePrioOf(t)
  <2>1. \A t \in Tasks : tcb'[t].prio = tcb[t].prio /\ (Live(pc'[t]) <=> Live(pc[t]))
    BY <1>2, ApartIsNothing
  <2> QED
    BY <2>1, SameEcb, PriosAreSame
<1>4. \A t \in Tasks \ {x} : SameTask(t)
  BY <1>2, TaskIsSame
<1>5. SameTask(x)
  BY <1>2, ApartIsNothing DEF SameTask
<1> QED
  BY <1>3, <1>4, <1>5, EventsAreSame DEF Unseen

LEMMA ReadyFlagsUnseen ==
  ASSUME KernelInv, NodesInv, NEW g \in FlagGrps, NEW W \in SUBSET OSFlagTbl[g].waitlist,
         NEW rdy, OS_FlagTaskRdy(W, rdy), ecb' = ecb, OSQTbl' = OSQTbl
  PROVE  Unseen
<1>1. /\ tcb \in [Tasks -> OS_TCB] /\ \A t \in Tasks : Shape(tcb[t], pc[t], ecb)
  BY DEF KernelInv, Data
<1>2. /\ tcb' = [t \in Tasks |-> IF t \in W
           THEN [tcb[t] EXCEPT !.dly = 0, !.stat = @ \ {"FLAG"}, !.statpend = "OK"] ELSE tcb[t]]
      /\ pc' = pc
  BY Zenon DEF OS_FlagTaskRdy
<1>3. \A t \in W : Apart(pc[t])
  <2>1. \A t \in W : t \in Tasks /\ InFlagPend(pc[t])
    BY LinkedTasks
  <2> QED
    BY <1>1, <2>1, PendsOn DEF InFlagPend, Apart
<1>4. ASSUME NEW t \in Tasks
      PROVE  tcb'[t].prio = tcb[t].prio /\ SameTask(t)
  <2>1. CASE t \in W
    <3>1. tcb'[t] = [tcb[t] EXCEPT !.dly = 0, !.stat = @ \ {"FLAG"}, !.statpend = "OK"]
      BY <1>2, <2>1, Zenon
    <3>2. tcb'[t].prio = tcb[t].prio
      BY <1>1, <3>1, FlagReadyFields, Zenon DEF FlagReady
    <3>3. SameTask(t)
      BY <1>2, <1>3, <2>1, ApartIsNothing, Zenon DEF SameTask
    <3> QED
      BY <3>2, <3>3
  <2>2. CASE t \notin W
    BY <1>2, <2>2, TaskIsSame, Zenon
  <2> QED
    BY <2>1, <2>2
<1>5. \A t \in Tasks : SamePrioOf(t)
  BY <1>2, <1>4, SameEcb, PriosAreSame, Zenon
<1> QED
  BY <1>4, <1>5, EventsAreSame DEF Unseen

LEMMA FlagsUnseen ==
  ASSUME KernelInv, NodesInv, FlagsNext, UNCHANGED eventVars
  PROVE  Unseen
<1>1. /\ tcb \in [Tasks -> OS_TCB] /\ (\A t \in Tasks : Shape(tcb[t], pc[t], ecb))
      /\ ecb' = ecb /\ OSQTbl' = OSQTbl
  BY DEF KernelInv, Data, eventVars
<1>2. ASSUME UNCHANGED taskVars
      PROVE  Unseen
  BY <1>1, <1>2, SameUnseen DEF taskVars
<1>3. Apart(InTask) /\ Apart(Pending("OSFlagPend", {}))
  BY DEF Apart, InTask, Pending
<1>4. ASSUME NEW g, NEW wanted, NEW type, NEW consume, NEW timeout, TaskCall("OSFlag"),
             OS_FlagBlock(g, wanted, type, consume, timeout)
      PROVE  Unseen
  <2> DEFINE x == OSTCBCur
             c == WaitingTCB(tcb[x], {"FLAG"}, timeout)
             k == Pending("OSFlagPend", {})
  <2>1. x \in Tasks /\ tcb' = [tcb EXCEPT ![x] = c] /\ pc' = [pc EXCEPT ![x] = k] /\ pc[x] = InTask
    BY <1>4 DEF OS_FlagBlock, TaskCall
  <2>2. c.prio = tcb[x].prio
    BY <1>1, <2>1, WaitingPrio
  <2>3. Apart(k) /\ Apart(pc[x])
    BY <1>3, <2>1
  <2> HIDE DEF c, k, x
  <2> QED
    BY <1>1, <2>1, <2>2, <2>3, ApartUnseen
<1>5. CASE FlagPendReturns
  <2> DEFINE x == OSTCBCur
             c == [tcb[x] EXCEPT !.stat = OS_STAT_RDY, !.statpend = "OK"]
  <2>1. x \in Tasks /\ pc' = [pc EXCEPT ![x] = InTask]
    BY <1>5 DEF FlagPendReturns
  <2>2. tcb' = tcb \/ tcb' = [tcb EXCEPT ![x] = c]
    BY <1>1, <1>5, <2>1 DEF FlagPendReturns, FlagPendTimedOut, FlagPendAnswered
  <2>3. c.prio = tcb[x].prio
    <3>1. tcb[x] \in OS_TCB
      BY <1>1, <2>1
    <3> QED
      BY <3>1 DEF OS_TCB
  <2>4. Apart(pc[x])
    <3>1. pc[x].at = "pend" /\ pc[x].svc = "OSFlagPend" /\ Shape(tcb[x], pc[x], ecb)
      BY <1>1, <1>5, <2>1 DEF FlagPendReturns
    <3>2. pc[x].on = {}
      BY <3>1, PendsOn
    <3> QED
      BY <3>1, <3>2 DEF Apart
  <2> HIDE DEF c, x
  <2> QED
    BY <1>1, <1>3, <2>1, <2>2, <2>3, <2>4, ApartUnseen
<1>6. ASSUME NEW flags, OSFlagCreate(flags)
      PROVE  Unseen
  BY <1>2, <1>6 DEF OSFlagCreate
<1>7. ASSUME NEW g, NEW wanted, NEW type, NEW consume,
             \/ OSFlagAccept(g, wanted, type, consume)
             \/ \E timeout : OSFlagPend(g, wanted, type, consume, timeout)
      PROVE  Unseen
  <2>1. CASE TakeFlags(g, wanted, type, consume)
    BY <1>2, <2>1 DEF TakeFlags
  <2> QED
    BY <1>4, <1>7, <2>1 DEF OSFlagAccept, OSFlagPend
<1>8. ASSUME NEW g \in FlagGrps, NEW bits, NEW set, OSFlagPost(g, bits, set)
      PROVE  Unseen
  <2> DEFINE flags == IF set THEN OSFlagTbl[g].flags \cup bits ELSE OSFlagTbl[g].flags \ bits
             W == AnsweredBy(g, flags)
             rdy == [t \in W |-> FlagsRdy(flags, node[t].flags, node[t].type)]
  <2>1. OS_FlagTaskRdy(W, rdy)
    BY <1>8 DEF OSFlagPost
  <2>2. W \subseteq OSFlagTbl[g].waitlist
    BY DEF AnsweredBy
  <2> HIDE DEF W, rdy
  <2> QED
    BY <1>1, <2>1, <2>2, ReadyFlagsUnseen
<1>9. ASSUME NEW g \in FlagGrps, NEW always, OSFlagDel(g, always)
      PROVE  Unseen
  <2> DEFINE W == OSFlagTbl[g].waitlist
             rdy == [t \in W |-> {}]
  <2>1. OS_FlagTaskRdy(W, rdy)
    BY <1>9 DEF OSFlagDel
  <2> HIDE DEF rdy
  <2> QED
    BY <1>1, <2>1, ReadyFlagsUnseen
<1> QED
  BY <1>5, <1>6, <1>7, <1>8, <1>9 DEF FlagsNext

-----------------------------------------------------------------------------
(* The refinement *)

LEMMA StepSeen ==
  ASSUME Hazards = {}, SwitchReturns = TRUE, KernelInv, NodesInv, PoolsInv, StoresInv,
         Mapped, Mapped', NeverBoth, [Next]_vars
  PROVE  AbstractStep
<1>1. CASE TasksNext /\ NotesKept /\ UNCHANGED <<eventVars, holds, flagVars, memVars>>
  <2>1. ecb' = ecb /\ holds' = holds /\ OSQTbl' = OSQTbl
    BY <1>1 DEF eventVars
  <2> QED
    BY <1>1, <2>1, TasksSeen
<1>2. CASE EventsNext
  BY <1>2, EventsSeen
<1>3. CASE MutexPendReturns
  <2>1. PendReturns
    BY <1>3 DEF MutexPendReturns
  <2> QED
    BY <2>1, ReturnsSeen
<1>4. CASE MutexNext
  BY <1>4, MutexSeen
<1>5. CASE FlagsNext /\ UNCHANGED eventVars
  BY <1>5, FlagsUnseen, StutterStep
<1>6. CASE UNCHANGED taskVars /\ UNCHANGED eventVars
  <2>1. tcb' = tcb /\ pc' = pc /\ ecb' = ecb /\ OSQTbl' = OSQTbl
    BY <1>6 DEF taskVars, eventVars
  <2> QED
    BY <2>1, SameUnseen, StutterStep
<1>7. CASE MemNext /\ UNCHANGED eventVars
  <2>1. UNCHANGED taskVars
    BY <1>7 DEF MemNext, OSMemCreate, OSMemGet, OSMemPut
  <2> QED
    BY <1>6, <1>7, <2>1
<1>8. CASE UNCHANGED vars
  BY <1>6, <1>8 DEF vars
<1> QED
  BY <1>1, <1>2, <1>3, <1>4, <1>5, <1>7, <1>8, DeleteTaskSeen, CreateTaskSeen DEF Next

LEMMA InitSeen ==
  ASSUME Init, Mapped
  PROVE  Abstract!Init /\ NeverBoth
<1>1. /\ \A e \in Events : ecb[e].type = "UNUSED"
      /\ \A t \in Tasks : pc[t].at \in {"task", "dormant"}
  BY DEF Init, EventsInit, UnusedECB, TasksInit, InTask, Dormant
<1>2. /\ \A e \in Events : KindsNow[e] = "UNUSED" /\ StocksNow[e] = <<>>
      /\ \A t \in Tasks : WaitsNow[t] = {} /\ ResultsNow[t] = Nothing /\ PriosNow[t] \in Nat
  <2>1. \A e \in Events : KindsNow[e] = "UNUSED" /\ StocksNow[e] = <<>>
    BY <1>1 DEF Mapped, StockIn
  <2>2. ASSUME NEW t \in Tasks
        PROVE  WaitsNow[t] = {} /\ ResultsNow[t] = Nothing
    <3>1. WaitsOf(tcb[t], pc[t]) = {} /\ ResultIn(tcb[t], pc[t]) = Nothing
      BY <1>1 DEF WaitsOf, Unans, ResultIn
    <3> QED
      BY <3>1 DEF Mapped
  <2>3. ASSUME NEW t \in Tasks
        PROVE  PriosNow[t] \in Nat
    BY DEF Mapped, PrioIs
  <2> QED
    BY <2>1, <2>2, <2>3
<1>3. Functions
  BY DEF Mapped
<1>4. KindsNow = [e \in Events |-> "UNUSED"]
  BY <1>2, <1>3 DEF Functions
<1>5. StocksNow = [e \in Events |-> <<>>]
  BY <1>2, <1>3 DEF Functions
<1>6. WaitsNow = [t \in Tasks |-> {}]
  BY <1>2, <1>3 DEF Functions
<1>7. ResultsNow = [t \in Tasks |-> Nothing]
  BY <1>2, <1>3 DEF Functions
<1>8. PriosNow \in [Tasks -> Nat]
  <2>1. PriosNow = [t \in Tasks |-> PriosNow[t]]
    BY <1>3 DEF Functions
  <2> QED
    BY <1>2, <2>1
<1>9. Abstract!Init
  BY <1>4, <1>5, <1>6, <1>7, <1>8 DEF Abstract!Init, Abstract!NoResult, Nothing
<1> QED
  BY <1>2, <1>9 DEF NeverBoth

\* Whatever the numbers of tasks, events, queues and their entries, the
\* semaphores, mailboxes, queues and mutexes implement EventService: a post
\* goes to the highest task that waits, or is stored if none does, and each
\* pend returns exactly the answer it was given, once: a post's, an abort's, or
\* a deletion's, which is OS_ERR_NONE and no message and so looks like a post
\* of a semaphore or mutex.  NeverBoth, that nobody waits for an event with
\* something in stock, follows from EventService itself.
THEOREM ServicesImplementEventService ==
  ASSUME SwitchReturns = TRUE, Hazards = {}
  PROVE  Spec => ImplementsEventService
<1>1. Init => PoolsInv /\ StoresInv
  BY PoolsInitial, StoresInitial
<1>2. KernelInv /\ PoolsInv /\ StoresInv /\ [Next]_vars => PoolsInv' /\ StoresInv'
  BY PoolsStep, StoresStep
<1>3. KernelInv => Mapped
  BY MappedNow
<1>4. Init /\ Mapped => Abstract!Init /\ NeverBoth
  BY InitSeen
<1>5. /\ KernelInv /\ NodesInv /\ PoolsInv /\ StoresInv /\ Mapped /\ Mapped' /\ NeverBoth
      /\ [Next]_vars
      => AbstractStep /\ NeverBoth'
  <2> SUFFICES ASSUME KernelInv, NodesInv, PoolsInv, StoresInv, Mapped, Mapped', NeverBoth,
                      [Next]_vars
               PROVE  AbstractStep /\ NeverBoth'
    OBVIOUS
  <2>1. AbstractStep
    BY StepSeen
  <2>2. Functions
    BY DEF Mapped
  <2> QED
    BY <2>1, <2>2, NeverBothStep DEF AbstractStep
<1>6. AbstractStep => [Abstract!Next]_(Abstract!vars)
  BY DEF AbstractStep
<1>7. Spec => [](KernelInv /\ NodesInv)
  BY ServicesInvariant
<1> QED
  BY <1>1, <1>2, <1>3, <1>4, <1>5, <1>6, <1>7, PTL DEF Spec, ImplementsEventService, Abstract!Spec
=============================================================================
