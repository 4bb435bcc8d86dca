---------------------------- MODULE MCUcosTimers ----------------------------
(* Instances of UcosTimers and of its refinement for TLC. *)
EXTENDS UcosTimersRefines

Plan(opt, dly, period, callback) ==
  [opt |-> opt, dly |-> dly, period |-> period, callback |-> callback]

\* A one-shot timer of more than a turn of a wheel of two spokes, a periodic
\* timer with a delay of its own, and one without.
MCPlans ==
  {Plan("ONE_SHOT", 3, 0, TRUE), Plan("PERIODIC", 1, 2, TRUE), Plan("PERIODIC", 0, 2, FALSE)}
=============================================================================
