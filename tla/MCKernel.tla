------------------------------ MODULE MCKernel ------------------------------
(* Small instances of Kernel for TLC. *)
EXTENDS Kernel

MCTid == 1..MaxTid

MCTargets == [by : {"pid", "tid"}, id : 3..MaxTid]

\* Every control point.
AllPoints == PC

\* The timer stays out of the window between prepare_switch and switch_to and
\* of the part of exit between the Zombie mark and remove_current.
CalmPoints == PC \ {"switch", "exit_find", "exit_wake", "exit_remove"}
=============================================================================
