----------------------------- MODULE Spinlocks ------------------------------
(***************************************************************************)
(* Spinlock and preempt_count (sync/spinlock.rs, process/task.rs) under    *)
(* the timer interrupt, on the one processor core.                         *)
(*                                                                         *)
(* A kernel thread takes the locks of a section in order and drops them in *)
(* reverse.  lock() is two steps, the compare_exchange and then            *)
(* preempt_disable; dropping a guard is two steps, the store and then      *)
(* preempt_enable.  The timer may come between any two of them.            *)
(***************************************************************************)
EXTENDS Integers, Sequences

CONSTANTS Task,        \* kernel threads, which run with interrupts enabled
          Lock,        \* the spinlocks
          Scheduler,   \* SCHEDULER, which timer_handler takes
          TaskLocks,   \* locks of tasks, which prepare_switch takes
          Sections,    \* the nestings of locks that the code uses
          TimerLocks   \* the timer comes only while all locked ones are here

SpinlocksAssumption ==
    /\ Scheduler \in Lock /\ TaskLocks \subseteq Lock
    /\ Sections \subseteq Seq(Lock)
    /\ \A sec \in Sections : /\ sec # << >>
                             /\ \A i, j \in 1..Len(sec) : sec[i] = sec[j] => i = j
    /\ TimerLocks \subseteq Lock

VARIABLES locked,   \* the locks whose flag is true
          count,    \* PREEMPT_COUNT
          cpu,      \* the task the CPU executes
          pc,       \* control point of each task
          plan,     \* the section each task executes
          held,     \* the locks each task has taken, in order
          inTick    \* the CPU is in timer_handler, spinning on a lock

vars == <<locked, count, cpu, pc, plan, held, inTick>>

PC == {"out", "cas", "disable", "in", "enable"}

TypeOK ==
    /\ locked \subseteq Lock
    /\ count \in Nat
    /\ cpu \in Task
    /\ pc \in [Task -> PC]
    /\ plan \in [Task -> Sections \cup {<< >>}]
    /\ held \in [Task -> Seq(Lock)]
    /\ inTick \in BOOLEAN

Init ==
    /\ locked = {}
    /\ count = 0
    /\ cpu \in Task
    /\ pc = [t \in Task |-> "out"]
    /\ plan = [t \in Task |-> << >>]
    /\ held = [t \in Task |-> << >>]
    /\ inTick = FALSE
-----------------------------------------------------------------------------
\* The CPU executes task t, at point p.
At(t, p) == cpu = t /\ pc[t] = p /\ ~inTick

Goto(t, p) == pc' = [pc EXCEPT ![t] = p]

\* The lock that task t takes next.
Wanted(t) == plan[t][Len(held[t]) + 1]

\* Task t enters a section.
Enter(t, sec) ==
    /\ At(t, "out")
    /\ plan' = [plan EXCEPT ![t] = sec]
    /\ Goto(t, "cas")
    /\ UNCHANGED <<locked, count, cpu, held, inTick>>

\* Mutant: the flag is read and then set, without a compare_exchange.
CasIgnoresFlag(t) ==
    /\ At(t, "cas")
    /\ locked' = locked \cup {Wanted(t)}
    /\ held' = [held EXCEPT ![t] = Append(@, Wanted(t))]
    /\ Goto(t, "disable")
    /\ UNCHANGED <<count, cpu, plan, inTick>>

\* lock(): compare_exchange succeeds; until it does the task spins ...
Cas(t) ==
    /\ At(t, "cas")
    /\ Wanted(t) \notin locked
    /\ locked' = locked \cup {Wanted(t)}
    /\ held' = [held EXCEPT ![t] = Append(@, Wanted(t))]
    /\ Goto(t, "disable")
    /\ UNCHANGED <<count, cpu, plan, inTick>>

\* ... and then preempt_disable.
Disable(t) ==
    /\ At(t, "disable")
    /\ count' = count + 1
    /\ Goto(t, IF Len(held[t]) = Len(plan[t]) THEN "in" ELSE "cas")
    /\ UNCHANGED <<locked, cpu, plan, held, inTick>>

\* Dropping the guard of the innermost lock: the store ...
Store(t) ==
    /\ At(t, "in")
    /\ LET n == Len(held[t])
       IN  /\ locked' = locked \ {held[t][n]}
           /\ held' = [held EXCEPT ![t] = SubSeq(@, 1, n - 1)]
    /\ Goto(t, "enable")
    /\ UNCHANGED <<count, cpu, plan, inTick>>

\* Mutant: the guard is dropped with two calls of preempt_enable.
EnableTwice(t) ==
    /\ At(t, "enable")
    /\ count' = count - 2
    /\ Goto(t, IF held[t] = << >> THEN "out" ELSE "in")
    /\ UNCHANGED <<locked, cpu, plan, held, inTick>>

\* ... and then preempt_enable.
Enable(t) ==
    /\ At(t, "enable")
    /\ count' = count - 1
    /\ Goto(t, IF held[t] = << >> THEN "out" ELSE "in")
    /\ UNCHANGED <<locked, cpu, plan, held, inTick>>

\* Mutant: schedule() without the test of preempt_count.
TimerIgnoresCount ==
    /\ ~inTick
    /\ locked \subseteq TimerLocks
    /\ IF Scheduler \in locked
       THEN inTick' = TRUE /\ UNCHANGED cpu
       ELSE cpu' \in Task /\ UNCHANGED inTick
    /\ UNCHANGED <<locked, count, pc, plan, held>>

\* Mutant: timer_handler takes every lock.
TimerTakesLocks ==
    /\ IF inTick \/ locked # {}
       THEN inTick' = TRUE /\ UNCHANGED cpu
       ELSE (IF count > 0 THEN UNCHANGED cpu ELSE cpu' \in Task) /\ UNCHANGED inTick
    /\ UNCHANGED <<locked, count, pc, plan, held>>

\* timer_handler runs with interrupts disabled, so that it spins for ever on a
\* lock that is taken.  scheduler::tick takes SCHEDULER; schedule() returns at
\* once if preempt_count > 0, and otherwise may switch to another task, for
\* which prepare_switch takes the locks of the two tasks.
Timer ==
    /\ ~inTick
    /\ locked \subseteq TimerLocks
    /\ \/ /\ \/ Scheduler \in locked
             \/ count = 0 /\ TaskLocks \cap locked # {}
          /\ inTick' = TRUE
          /\ UNCHANGED cpu
       \/ /\ Scheduler \notin locked
          /\ IF count > 0 THEN UNCHANGED cpu ELSE cpu' \in Task
          /\ UNCHANGED inTick
    /\ UNCHANGED <<locked, count, pc, plan, held>>

Step(t) == Cas(t) \/ Disable(t) \/ Store(t) \/ Enable(t)

Next ==
    \/ \E t \in Task : Step(t) \/ \E sec \in Sections : Enter(t, sec)
    \/ Timer

Spec == Init /\ [][Next]_vars

\* A task that gets the CPU again and again executes its next instruction, and
\* the MLFQ lets every task run again and again (Scheduler!NoStarvation).
FairSpec ==
    /\ Spec
    /\ \A t \in Task : SF_vars(Step(t)) /\ SF_vars(Timer /\ cpu' = t)
-----------------------------------------------------------------------------
\* The guards that task t has: a lock counts from preempt_disable until
\* preempt_enable.
Guards(t) ==
    CASE pc[t] = "enable"  -> Len(held[t]) + 1
      [] pc[t] = "disable" -> Len(held[t]) - 1
      [] OTHER             -> Len(held[t])

\* A lock is held by at most one task, and its flag says whether it is.
MutualExclusion ==
    /\ \A t, u \in Task : \A i \in 1..Len(held[t]), j \in 1..Len(held[u]) :
          held[t][i] = held[u][j] => t = u /\ i = j
    /\ \A l \in Lock : l \in locked <=> \E t \in Task : \E i \in 1..Len(held[t]) : held[t][i] = l

\* The global preempt_count is the number of guards of the task on the CPU, and
\* no other task has one: a task with a guard is never switched out.
GuardKeepsCpu ==
    /\ count = Guards(cpu)
    /\ \A t \in Task \ {cpu} : Guards(t) = 0

\* The task on the CPU spins on a lock that it does not get.
Spinning == pc[cpu] = "cas" /\ Wanted(cpu) \in locked

\* A task that spins can be preempted in favour of the task that has the lock
\* (spinlock.rs: "acquired in this order to prevent deadlock").
SpinnerPreemptible == Spinning => count = 0

\* timer_handler never waits for a lock that the code it interrupted, or a
\* task it cannot switch to, has taken.
TimerNeverSpins == ~inTick

\* A lock that is taken is eventually released.
LockReleased == \A l \in Lock : l \in locked ~> l \notin locked
=============================================================================
