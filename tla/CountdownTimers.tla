--------------------------- MODULE CountdownTimers ---------------------------
(***************************************************************************)
(* What software timers promise: a started timer expires when exactly the  *)
(* number of ticks it was started with has passed, a periodic one again    *)
(* after each period, a stopped or deleted one not at all; each expiry     *)
(* calls the callback of that timer once; and no tick is counted before    *)
(* every timer due at the one before has expired.                          *)
(***************************************************************************)
EXTENDS Naturals

CONSTANTS
  CTimers,   \* the timers
  Plans,     \* what timers are created with: dly, period, opt, callback
  Nothing    \* no plan, or no timer

VARIABLES
  status,    \* "UNUSED", "STOPPED", "COMPLETED" or "RUNNING"
  plan,      \* what each timer was created with
  remain,    \* ticks until it expires
  calling    \* the timer whose callback runs

countVars == <<status, plan, remain, calling>>

FirstDelay(k) == IF k.opt = "PERIODIC" /\ k.dly = 0 THEN k.period ELSE k.dly

Due(t) == status[t] = "RUNNING" /\ remain[t] = 0

CountInit ==
  /\ status = [t \in CTimers |-> "UNUSED"]
  /\ plan = [t \in CTimers |-> Nothing]
  /\ remain = [t \in CTimers |-> 0]
  /\ calling = Nothing

Become(t, s, k, r) ==
  /\ status' = [status EXCEPT ![t] = s]
  /\ plan' = [plan EXCEPT ![t] = k]
  /\ remain' = [remain EXCEPT ![t] = r]

CreateTimer(t, k) == status[t] = "UNUSED" /\ Become(t, "STOPPED", k, FirstDelay(k))

DeleteTimer(t) == status[t] # "UNUSED" /\ Become(t, "UNUSED", Nothing, 0)

StartTimer(t) == status[t] # "UNUSED" /\ Become(t, "RUNNING", plan[t], FirstDelay(plan[t]))

StopTimer(t) == status[t] = "RUNNING" /\ Become(t, "STOPPED", plan[t], FirstDelay(plan[t]))

Tick ==
  /\ calling = Nothing
  /\ \A t \in CTimers : ~Due(t)
  /\ remain' = [t \in CTimers |-> IF status[t] = "RUNNING" THEN remain[t] - 1 ELSE remain[t]]
  /\ UNCHANGED <<status, plan, calling>>

Expire(t) ==
  /\ calling = Nothing
  /\ Due(t)
  /\ IF plan[t].opt = "PERIODIC"
     THEN Become(t, "RUNNING", plan[t], plan[t].period)
     ELSE Become(t, "COMPLETED", plan[t], 0)
  /\ calling' = IF plan[t].callback THEN t ELSE Nothing

Return ==
  /\ calling # Nothing
  /\ calling' = Nothing
  /\ UNCHANGED <<status, plan, remain>>

Service(t) ==
  /\ DeleteTimer(t) \/ StartTimer(t) \/ StopTimer(t) \/ \E k \in Plans : CreateTimer(t, k)
  /\ UNCHANGED calling

CountNext == Tick \/ Return \/ \E t \in CTimers : Expire(t) \/ Service(t)

CountSpec == CountInit /\ [][CountNext]_countVars
=============================================================================
