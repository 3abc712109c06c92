----------------------------- MODULE Scheduler ------------------------------
(***************************************************************************)
(* The scheduler of src/kernel/src/scheduler by itself, under every order  *)
(* of calls its users may make: tasks arrive, block, and leave without     *)
(* bound, and the timer ticks.  Tids are recycled here, as tasks without   *)
(* end would need; the kernel's own tids are never reused (see Kernel).    *)
(***************************************************************************)
EXTENDS Mlfq

CONSTANTS Idle,             \* the task that never blocks and never leaves
          ArrivalPriorities \* priorities a task may arrive with

ASSUME SchedulerAssumption ==
    /\ Idle \in Tid
    /\ ArrivalPriorities \subseteq Level

VARIABLE s

TypeOK == s \in SchedState

\* The state after scheduler::init: the boot task runs, Idle is queued last.
Init ==
    \E boot \in Tid \ {Idle} :
        s = [queues |-> [i \in Level |-> IF i = NumQueues - 1 THEN <<Idle>> ELSE << >>],
             current |-> boot,
             ticks_remaining |-> TimeSlice(0),
             total_ticks |-> 0,
             needs_reschedule |-> FALSE,
             state |-> [t \in Tid |-> IF t = boot THEN "Running" ELSE "Ready"],
             priority |-> [t \in Tid |-> IF t = Idle THEN NumQueues - 1 ELSE 0]]

\* spawn of a task that is not in the scheduler.
Spawn(t, p) ==
    /\ ~Queued(s, t)
    /\ t # s.current
    /\ s' = Push([s EXCEPT !.priority[t] = p, !.state[t] = "Ready"], t)

\* timer_handler: tick, then schedule ...
Timer == s' = Schedule(Tick(s))

\* ... which returns at once while a spinlock is held.
TimerBypassed == s' = Tick(s)

\* A wait routine marks the current task Blocked, or exit marks it Zombie.
Mark(st) ==
    /\ s.current \notin {None, Idle}
    /\ s.state[s.current] = "Running"
    /\ s' = SetState(s, s.current, st)

\* unblock_tid of a task that is not the current one.
Wake(t) ==
    /\ t # s.current
    /\ s' = Unblock(s, t)

\* exit: remove_current, after the mark.  A timer since then has made the
\* state Ready and Running again.
Leave ==
    /\ s.current \notin {None, Idle}
    /\ s.state[s.current] # "Blocked"
    /\ s' = RemoveCurrent(s)

\* schedule() called by a wait routine, by exit or by SYS_YIELD.
Reschedule == s' = Schedule(s)

Next ==
    \/ \E t \in Tid, p \in ArrivalPriorities : Spawn(t, p)
    \/ Timer \/ TimerBypassed
    \/ \E st \in {"Blocked", "Zombie"} : Mark(st)
    \/ Leave \/ Reschedule
    \/ \E t \in Tid : Wake(t)

Spec == Init /\ [][Next]_s

\* The timer keeps ticking, and not always inside a spinlock.
FairSpec == Spec /\ WF_s(Timer)
-----------------------------------------------------------------------------
Pool == INSTANCE TaskPool WITH ready <- {t \in Tid : Queued(s, t)}, running <- s.current

\* The run queues are well formed after any sequence of calls (mlfq.rs).
RunQueuesOK == RunQueuesWellFormed(s)

\* The MLFQ implements the task pool: push, prepare_switch, remove_current and
\* boost_priorities never drop, duplicate or invent a ready task.
ImplementsPool == Pool!Spec

\* A switch is always to the highest level that holds a task: prepare_switch
\* leaves no task queued above the one it picked, except that the outgoing
\* task is requeued after the choice.
HighestFirst ==
    [][s'.current # s.current /\ s'.current # None =>
         \A t \in Tid : Queued(s, t) => s'.priority[s'.current] <= s'.priority[t]]_s

\* No starvation: the boost of tick moves every queued task up until it is at
\* the head of queue 0, so every queued task runs, whatever arrives meanwhile.
NoStarvation == \A t \in Tid : Queued(s, t) ~> (s.current = t)
=============================================================================
