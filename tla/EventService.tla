---------------------------- MODULE EventService ----------------------------
(***************************************************************************)
(* What semaphores, mailboxes, queues and mutexes promise: an event        *)
(* has a stock of what was posted and not yet taken, or tasks that wait,   *)
(* never both.  A post goes to the waiting task of the highest priority, a *)
(* broadcast to all of them; each gets exactly one answer.  A task may     *)
(* wait for several events and is answered by the first.  A wait with a    *)
(* timeout may end unanswered as long as nothing has been posted to it.    *)
(* A deletion answers all who wait without an error: it does not promise   *)
(* that they can tell it from a post.                                      *)
(***************************************************************************)
EXTENDS Naturals, Sequences

CONSTANTS Tasks, Events, NULL

VARIABLES
  kind,    \* what each event is: "SEM", "MBOX", "Q", "MUTEX" or "UNUSED"
  stock,   \* what is stored in each event, first to be taken first
  waits,   \* the events each task waits for, none if {}
  result,  \* of the task's last pend, until the task goes on
  prio     \* priority of each task, from 1 on; 0 if there is no such task

vars == <<kind, stock, waits, result, prio>>

NoResult == [err |-> "none", got |-> {}]

Init ==
  /\ kind = [e \in Events |-> "UNUSED"]
  /\ stock = [e \in Events |-> <<>>]
  /\ waits = [t \in Tasks |-> {}]
  /\ result = [t \in Tasks |-> NoResult]
  /\ prio \in [Tasks -> Nat]

Idle(t) == prio[t] # 0 /\ waits[t] = {} /\ result[t] = NoResult

Waiting(e) == {t \in Tasks : e \in waits[t]}
First(e) == CHOOSE t \in Waiting(e) : \A u \in Waiting(e) : prio[t] <= prio[u]

\* Takes the first item of each event of S.
TakeFrom(t, S) ==
  /\ Idle(t) /\ S # {} /\ \A e \in S : stock[e] # <<>>
  /\ stock' = [e \in Events |-> IF e \in S THEN Tail(stock[e]) ELSE stock[e]]
  /\ result' = [result EXCEPT ![t] = [err |-> "NONE", got |-> {<<e, Head(stock[e])>> : e \in S}]]
  /\ UNCHANGED <<kind, waits, prio>>

\* An interrupt handler takes the first item.
TakeAway(e) ==
  /\ kind[e] # "MUTEX" /\ stock[e] # <<>>
  /\ stock' = [stock EXCEPT ![e] = Tail(@)]
  /\ UNCHANGED <<kind, waits, result, prio>>

Wait(t, S) ==
  /\ Idle(t) /\ S # {} /\ \A e \in S : kind[e] # "UNUSED" /\ stock[e] = <<>>
  /\ waits' = [waits EXCEPT ![t] = S]
  /\ UNCHANGED <<kind, stock, result, prio>>

\* The tasks of W have their answer.
AnswerTo(W, err, e, item) ==
  /\ waits' = [t \in Tasks |-> IF t \in W THEN {} ELSE waits[t]]
  /\ result' = [t \in Tasks |-> IF t \in W THEN [err |-> err, got |-> {<<e, item>>}] ELSE result[t]]
  /\ UNCHANGED prio

Post(e, item, all) ==
  /\ Waiting(e) # {}
  /\ AnswerTo(IF all THEN Waiting(e) ELSE {First(e)}, "NONE", e, item)
  /\ UNCHANGED <<kind, stock>>

Store(e, item, front) ==
  /\ kind[e] # "UNUSED" /\ Waiting(e) = {}
  /\ front => kind[e] = "Q"
  /\ stock' = [stock EXCEPT ![e] = IF front THEN <<item>> \o @ ELSE Append(@, item)]
  /\ UNCHANGED <<kind, waits, result, prio>>

Abort(e, all) ==
  /\ Waiting(e) # {}
  /\ AnswerTo(IF all THEN Waiting(e) ELSE {First(e)}, "ABORT", e, NULL)
  /\ UNCHANGED <<kind, stock>>

Create(e, k, items) ==
  /\ kind[e] = "UNUSED" /\ k # "UNUSED"
  /\ kind' = [kind EXCEPT ![e] = k]
  /\ stock' = [stock EXCEPT ![e] = items]
  /\ UNCHANGED <<waits, result, prio>>

\* All who wait get the error code of a post, "NONE", and no message.  On a
\* semaphore or mutex a post gives the same.
Delete(e) ==
  /\ kind[e] # "UNUSED"
  /\ kind' = [kind EXCEPT ![e] = "UNUSED"]
  /\ stock' = [stock EXCEPT ![e] = <<>>]
  /\ AnswerTo(Waiting(e), "NONE", e, NULL)

\* OSSemSet.
SetCount(e, n) ==
  /\ kind[e] = "SEM" /\ Waiting(e) = {}
  /\ stock' = [stock EXCEPT ![e] = [i \in 1..n |-> NULL]]
  /\ UNCHANGED <<kind, waits, result, prio>>

Flush(e) ==
  /\ kind[e] = "Q"
  /\ stock' = [stock EXCEPT ![e] = <<>>]
  /\ UNCHANGED <<kind, waits, result, prio>>

TimeOut(t) ==
  /\ waits[t] # {}
  /\ waits' = [waits EXCEPT ![t] = {}]
  /\ result' = [result EXCEPT ![t] = [err |-> "TO", got |-> {}]]
  /\ UNCHANGED <<kind, stock, prio>>

GoOn(t) ==
  /\ result[t] # NoResult /\ waits[t] = {}
  /\ result' = [result EXCEPT ![t] = NoResult]
  /\ UNCHANGED <<kind, stock, waits, prio>>

SetPrio(t, p) ==
  /\ prio' = [prio EXCEPT ![t] = p]
  /\ prio[t] = 0 => Idle(t)'
  /\ IF p = 0 THEN /\ waits' = [waits EXCEPT ![t] = {}]
                   /\ result' = [result EXCEPT ![t] = NoResult]
              ELSE UNCHANGED <<waits, result>>
  /\ UNCHANGED <<kind, stock>>

\* The stock of a new event and the new priority of SetPrio are arbitrary.
Next ==
  \/ \E t \in Tasks : TimeOut(t) \/ GoOn(t) \/ SetPrio(t, prio'[t])
  \/ \E t \in Tasks, S \in SUBSET Events : TakeFrom(t, S) \/ Wait(t, S)
  \/ \E e \in Events :
       \/ Create(e, kind'[e], stock'[e]) \/ Delete(e)
       \/ SetCount(e, Len(stock'[e])) \/ Flush(e) \/ TakeAway(e)
       \/ \E i \in DOMAIN stock'[e], front \in BOOLEAN : Store(e, stock'[e][i], front)
       \/ \E all \in BOOLEAN : Abort(e, all)
       \/ \E t \in Tasks, all \in BOOLEAN : \E r \in result'[t].got : Post(e, r[2], all)

Spec == Init /\ [][Next]_vars
=============================================================================
