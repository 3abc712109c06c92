------------------------------- MODULE Monitor -------------------------------
(***************************************************************************)
(* The kernel's own monitor (sync/monitor.rs, sync/condvar.rs) and the two *)
(* tasks that main.rs runs on one, ping_pong_a and ping_pong_b.            *)
(*                                                                         *)
(* A monitor's guard is a spinlock guard: while a task has it the timer    *)
(* counts ticks and switches nothing, so the code between lock and wait or *)
(* drop is one step.  These are kernel threads, interrupts are on.         *)
(***************************************************************************)
EXTENDS Mlfq

CONSTANTS Idle,       \* the idle task, always ready
          Ping, Pong, \* the tasks with turn 0 and 1
          Handoffs,   \* PING_PONG_HANDOFFS, 20 in the code
          MaxWaiters  \* bound on the wait queue, which grows by one entry for
                      \* every round of a waiting task

MonitorAssumption ==
    /\ Tid = {Idle, Ping, Pong}
    /\ Idle # Ping /\ Idle # Pong /\ Ping # Pong
    /\ Handoffs \in Nat \ {0} /\ MaxWaiters \in Nat \ {0}

VARIABLES s,        \* the scheduler, see Mlfq
          turn,     \* PingPongState::turn, the task whose turn it is
          count,    \* PingPongState::count
          waiters,  \* CondVar::waiters
          pc        \* control point of each task

vars == <<s, turn, count, waiters, pc>>

Players == {Ping, Pong}

TypeOK ==
    /\ s \in SchedState
    /\ turn \in Players
    /\ count \in 0..(Handoffs + 1)
    /\ waiters \in Seq(Players)
    /\ pc \in [Tid -> {"lock", "sched", "exit", "gone"}]

\* kernel_main has spawned both tasks and halted; the idle task has the CPU.
Init ==
    /\ s = [queues |-> [i \in Level |-> IF i = 0 THEN <<Ping, Pong>> ELSE << >>],
            current |-> Idle,
            ticks_remaining |-> 0,
            total_ticks |-> 0,
            needs_reschedule |-> FALSE,
            state |-> [t \in Tid |-> IF t = Idle THEN "Running" ELSE "Ready"],
            priority |-> [t \in Tid |-> IF t = Idle THEN NumQueues - 1 ELSE 0]]
    /\ turn = Ping /\ count = 0
    /\ waiters = << >>
    /\ pc = [t \in Tid |-> IF t = Idle THEN "gone" ELSE "lock"]
-----------------------------------------------------------------------------
At(t, l) == s.current = t /\ pc[t] = l

Goto(t, l) == pc' = [pc EXCEPT ![t] = l]

\* Mutant: the task sleeps without queueing its tid.
WaitUnlisted(t) ==
    /\ s' = SetState(s, t, "Blocked")
    /\ Goto(t, "sched")
    /\ UNCHANGED <<turn, count, waiters>>

\* CondVar::wait up to schedule(): queue the tid, mark the task, drop the guard.
Wait(t) ==
    /\ waiters' = (IF Len(waiters) < MaxWaiters THEN Append(waiters, t) ELSE waiters)
    /\ s' = SetState(s, t, "Blocked")
    /\ Goto(t, "sched")
    /\ UNCHANGED <<turn, count>>

\* Every waiter is unblocked, in order.
UnblockAll(sched, q) ==
    LET after[i \in 0..Len(q)] == IF i = 0 THEN sched ELSE Unblock(after[i - 1], q[i])
    IN  after[Len(q)]

\* Mutant: waiters are pushed on the run queues whatever their state is.
BroadcastPushes ==
    LET after[i \in 0..Len(waiters)] ==
            IF i = 0 THEN s ELSE Push(SetState(after[i - 1], waiters[i], "Ready"), waiters[i])
    IN  s' = after[Len(waiters)] /\ waiters' = << >>

\* CondVar::broadcast, under the lock of the queue.
Broadcast == s' = UnblockAll(s, waiters) /\ waiters' = << >>

\* Mutant: the turn is not passed on.
PlayKeepsTurn(t) ==
    /\ At(t, "lock")
    /\ \/ turn # t /\ Wait(t)
       \/ /\ turn = t
          /\ count' = count + 1
          /\ Broadcast
          /\ Goto(t, IF count + 1 >= Handoffs THEN "exit" ELSE "lock")
          /\ UNCHANGED turn

\* Mutant: one handoff too many.
PlayOneMore(t) ==
    /\ At(t, "lock")
    /\ \/ turn # t /\ Wait(t)
       \/ /\ turn = t
          /\ count' = count + 1
          /\ turn' = (IF t = Ping THEN Pong ELSE Ping)
          /\ Broadcast
          /\ Goto(t, IF count + 1 > Handoffs THEN "exit" ELSE "lock")

\* ping_pong_task from one lock to the wait or the drop of the guard.
Play(t) ==
    /\ At(t, "lock")
    /\ \/ turn # t /\ Wait(t)
       \/ /\ turn = t
          /\ count' = count + 1
          /\ turn' = (IF t = Ping THEN Pong ELSE Ping)
          /\ Broadcast
          /\ Goto(t, IF count + 1 >= Handoffs THEN "exit" ELSE "lock")

\* The rest of CondVar::wait: schedule(), then the lock again.
Sched(t) ==
    /\ At(t, "sched")
    /\ s' = Schedule(s)
    /\ Goto(t, "lock")
    /\ UNCHANGED <<turn, count, waiters>>

\* lifecycle::exit of a task that saw the last handoff.
Exit(t) ==
    /\ At(t, "exit")
    /\ s' = Schedule(RemoveCurrent(SetState(s, t, "Zombie")))
    /\ Goto(t, "gone")
    /\ UNCHANGED <<turn, count, waiters>>

\* timer_handler between two steps, and inside one, where schedule() returns.
Timer == s' = Schedule(Tick(s)) /\ UNCHANGED <<turn, count, waiters, pc>>

TimerBypassed ==
    /\ pc[s.current] = "lock"
    /\ s' = Tick(s)
    /\ UNCHANGED <<turn, count, waiters, pc>>
-----------------------------------------------------------------------------
Continue(t) == Play(t) \/ Sched(t) \/ Exit(t)

Next == Timer \/ TimerBypassed \/ \E t \in Players : Continue(t)

Spec == Init /\ [][Next]_vars

\* A task that has the CPU again and again carries on, and the timer ticks.
FairSpec == Spec /\ WF_vars(Timer) /\ \A t \in Players : SF_vars(Continue(t))
-----------------------------------------------------------------------------
\* Waiting and broadcasting leave the run queues well formed: CondVar::broadcast
\* finds tids of tasks that got the CPU without it and are queued already.
RunQueuesOK == RunQueuesWellFormed(s)

\* A task that waits in the monitor is known to the next broadcast: between the
\* mark and schedule() its tid is in the wait queue, or it was unblocked.
WaiterIsListed ==
    \A t \in Players : s.state[t] = "Blocked" => Occurs(waiters, t)

\* The two, with the types.
MonitorSound == TypeOK /\ WaiterIsListed /\ RunQueuesOK

\* The smoke test ends: both tasks see the last handoff and exit, after
\* PING_PONG_HANDOFFS handoffs and one more by the task that is second.
PingPongEnds == <>(pc[Ping] = "gone" /\ pc[Pong] = "gone" /\ count = Handoffs + 1)
=============================================================================
