---------------------------- MODULE MCScheduler -----------------------------
(* A small instance of Scheduler for TLC. *)
EXTENDS Scheduler
CONSTANTS t1, t2, idle
MCTid == {t1, t2, idle}
=============================================================================
