---------------------------- MODULE MCScheduler ----------------------------
(***************************************************************************)
(* Instances of Scheduler for TLC: four slots (init, idle and two user     *)
(* processes), boosts and quanta scaled down so that several decay and     *)
(* demotion cycles fit.                                                    *)
(***************************************************************************)
EXTENDS Scheduler

BoundMinusOne == -1
BoundMinusTwo == -2
OnlyDefault == {0}
=============================================================================
