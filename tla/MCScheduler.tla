------------------------------ MODULE MCScheduler ------------------------------
(***************************************************************************)
(* A small scheduler for TLC: three nodes, two kinds of event, a clock     *)
(* that runs to MaxTicks.  Delay -1 is an event that is already overdue.   *)
(***************************************************************************)
EXTENDS Scheduler

MCTicks == {0, 1, 3}
MCDelays == {-1, 0, 1, 2}
===============================================================================
