---------------------------- MODULE ThreadParts -----------------------------
(***************************************************************************)
(* Spinlocks and a monitor side by side, each with variables of its own,   *)
(* and what is claimed of them.                                            *)
(***************************************************************************)
EXTENDS Mlfq

CONSTANTS Task, Lock, SchedulerLock, TaskLocks, Sections, TimerLocks,
          IdleTask, Ping, Pong, Handoffs, MaxListed

VARIABLES flags, guards, cpu, lpc, plan, held, inTick,
          ms, turn, handoffs, mwaiters, mpc

Locks == INSTANCE Spinlocks
         WITH Scheduler <- SchedulerLock, locked <- flags, count <- guards, pc <- lpc

Mon == INSTANCE Monitor
       WITH Idle <- IdleTask, MaxWaiters <- MaxListed,
            s <- ms, count <- handoffs, waiters <- mwaiters, pc <- mpc

\* Spinlock::lock and drop: a lock is held by at most one task, and its flag says
\* whether it is.
MutualExclusion == Locks!MutualExclusion

\* preempt_disable, preempt_enable and timer_handler: preempt_count is the number of
\* guards of the task on the CPU, and a task with a guard is never switched out.
GuardKeepsCpu == Locks!GuardKeepsCpu

\* CondVar::wait and broadcast: a task that is marked Blocked is in the list of
\* waiters, where the next broadcast finds it; and the run queues stay well formed
\* although broadcast finds tids of tasks that are queued already.
MonitorSound == Mon!MonitorSound
=============================================================================
