------------------------------- MODULE Kernel -------------------------------
(***************************************************************************)
(* Tasks, context switches and the task lifecycle of the kernel: what      *)
(* scheduler/mod.rs, process/lifecycle.rs, arch/context.rs, the timer      *)
(* handler of arch/idt.rs and the system call entry of arch/syscall.rs do  *)
(* together on the one processor core.                                     *)
(*                                                                         *)
(* A step of a task is one critical section (the code between taking and   *)
(* releasing spinlocks), or one register-level step that another task can  *)
(* observe (system call entry and return, the context switch).  Between    *)
(* two steps the timer interrupt may arrive whenever the interrupt flag is *)
(* set.  The processor state that decides what happens then is explicit:   *)
(* whose kernel stack the CPU is on, the interrupt flag, and the two GS    *)
(* bases that swapgs exchanges.                                            *)
(*                                                                         *)
(* A context saved into the wrong task, or a system call entered on the    *)
(* wrong kernel stack, makes everything after it undefined: the model sets *)
(* corrupt and stops there.                                                *)
(***************************************************************************)
EXTENDS Mlfq

CONSTANTS MaxTid,          \* tasks created in one behaviour, boot and idle included
          SpawnPriorities, \* priorities a new task may be given
          Kinds,           \* ways to create a task that are exercised
          Spawners, Waiters, Yielders, \* tasks that spawn, wait and yield
          Targets,         \* what a task may wait for
          TimerPoints      \* control points at which the timer may interrupt

Boot == 1                  \* the task scheduler::init makes current
Idle == 2                  \* the task it pushes on the last queue

\* Control points.  "run" is the body of a task (ring 3, or a kernel thread
\* between calls), "hlt" a halt loop, "dead" the context of a task that left.
PC == {"run", "hlt", "dead", "return", "sched", "switch",
       "wait_check", "wait_mark",
       "exit_mark", "exit_find", "exit_wake", "exit_remove",
       "spawn_insert", "spawn_push"}

\* The points where the next step holds TASK_TABLE and not SCHEDULER: a timer
\* interrupt inside it finds preempt_count > 0 and only counts the tick.
TableSections == {"wait_check", "wait_mark", "exit_mark", "exit_find", "spawn_insert"}

Target == [by : {"pid", "tid"}, id : Tid]
NoTarget == [by |-> "tid", id |-> Idle]

ASSUME KernelAssumption ==
    /\ MaxTid \in Nat /\ MaxTid >= 2
    /\ Tid = 1..MaxTid
    /\ SpawnPriorities \subseteq Level
    /\ Kinds \subseteq {"clone", "fork", "load", "new"}
    /\ Spawners \subseteq Tid /\ Waiters \subseteq Tid /\ Yielders \subseteq Tid
    /\ Targets \subseteq Target
    /\ TimerPoints \subseteq PC

VARIABLES
    s,        \* the scheduler, see Mlfq
    table,    \* TASK_TABLE: the tids in the map
    nextTid,  \* NEXT_TID
    pid,      \* pid of each task; a new process takes its tid as pid, which
              \* names it as uniquely as the code's own counter NEXT_PID
    parent,   \* parent pid of each task, 0 for None
    user,     \* the task enters the kernel by syscall, not by a direct call
    cpu,      \* the task whose kernel stack the CPU is on
    intr,     \* RFLAGS.IF
    gs, kgs,  \* the task whose scratch area GS_BASE and KERNEL_GS_BASE hold
    pc,       \* control point of each task
    ret,      \* where schedule() returns to
    ctx,      \* how the saved context of a task was made
    target,   \* the task or process a wait is for
    local,    \* the tid exit is about to wake, or spawn about to push
    corrupt   \* "context" saved to, or kernel "stack" taken from, another task

taskVars == <<table, nextTid, pid, parent, user>>
cpuVars  == <<cpu, intr, gs, kgs, ctx, corrupt>>
vars     == <<s, table, nextTid, pid, parent, user, cpu, intr, gs, kgs, pc, ret,
              ctx, target, local, corrupt>>

TypeOK ==
    /\ s \in SchedState
    /\ table \subseteq Tid
    /\ nextTid \in 3..(MaxTid + 1)
    /\ pid \in [Tid -> Tid]
    /\ parent \in [Tid -> Tid \cup {0}]
    /\ user \in [Tid -> BOOLEAN]
    /\ cpu \in Tid
    /\ intr \in BOOLEAN
    /\ gs \in Tid \cup {None} /\ kgs \in Tid \cup {None}
    /\ pc \in [Tid -> PC]
    /\ ret \in [Tid -> {"return", "wait_check", "dead"}]
    /\ ctx \in [Tid -> {"fresh", "irq", "call", "live"}]
    /\ target \in [Tid -> Target]
    /\ local \in [Tid -> Tid \cup {None}]
    /\ corrupt \in {"no", "context", "stack"}

\* The state scheduler::init leaves: boot current, idle on the last queue.
Init ==
    /\ s = [queues |-> [i \in Level |-> IF i = NumQueues - 1 THEN <<Idle>> ELSE << >>],
            current |-> Boot,
            ticks_remaining |-> TimeSlice(0),
            total_ticks |-> 0,
            needs_reschedule |-> FALSE,
            state |-> [t \in Tid |-> IF t = Boot THEN "Running" ELSE "Ready"],
            priority |-> [t \in Tid |-> IF t = Idle THEN NumQueues - 1 ELSE 0]]
    /\ table = {Boot, Idle}
    /\ nextTid = 3
    /\ pid = [t \in Tid |-> t]
    /\ parent = [t \in Tid |-> 0]
    /\ user = [t \in Tid |-> FALSE]
    /\ cpu = Boot
    /\ intr = TRUE
    /\ gs = None /\ kgs = Boot
    /\ pc = [t \in Tid |-> IF t = Idle THEN "hlt" ELSE "run"]
    /\ ret = [t \in Tid |-> "return"]
    /\ ctx = [t \in Tid |-> IF t = Boot THEN "live" ELSE "fresh"]
    /\ target = [t \in Tid |-> NoTarget]
    /\ local = [t \in Tid |-> None]
    /\ corrupt = "no"
-----------------------------------------------------------------------------
\* The CPU executes task t, which stands at control point l.
At(t, l) == cpu = t /\ pc[t] = l

Goto(t, l) == pc' = [pc EXCEPT ![t] = l]

\* Mutant: sysretq without the second swapgs.
ReturnWithoutSwapgs(t) ==
    /\ At(t, "return")
    /\ Goto(t, "run")
    /\ intr' = (intr \/ user[t])
    /\ ret' = [ret EXCEPT ![t] = "return"]
    /\ target' = [target EXCEPT ![t] = NoTarget]
    /\ local' = [local EXCEPT ![t] = None]
    /\ UNCHANGED <<s, taskVars, cpu, gs, kgs, ctx, corrupt>>

\* Enter the kernel.  A ring-3 task executes syscall: SFMASK clears IF, swapgs
\* exchanges the GS bases, and the stack is that of the scratch area found.
EnterKernel(t) ==
    IF user[t]
    THEN /\ intr' = FALSE
         /\ gs' = kgs /\ kgs' = gs
         /\ corrupt' = (IF kgs = t THEN corrupt ELSE "stack")
         /\ UNCHANGED <<cpu, ctx>>
    ELSE UNCHANGED cpuVars

\* Leave it: swapgs again and sysretq, which restores the user's RFLAGS.  The
\* locals of the kernel functions are gone.
Return(t) ==
    /\ At(t, "return")
    /\ Goto(t, "run")
    /\ IF user[t]
       THEN /\ intr' = TRUE
            /\ gs' = kgs /\ kgs' = gs
            /\ UNCHANGED <<cpu, ctx, corrupt>>
       ELSE UNCHANGED cpuVars
    /\ ret' = [ret EXCEPT ![t] = "return"]
    /\ target' = [target EXCEPT ![t] = NoTarget]
    /\ local' = [local EXCEPT ![t] = None]
    /\ UNCHANGED <<s, taskVars>>

\* Load the saved context of task in: stack, KERNEL_GS_BASE and, unless it
\* was saved by a call of schedule(), the interrupt flag.  switch_to does not
\* save RFLAGS; a fresh task runs sti, an interrupted one returns by iretq.
Load(saved, in, flag) ==
    /\ cpu' = in
    /\ kgs' = in
    /\ intr' = (IF ctx[in] = "call" THEN flag ELSE TRUE)
    /\ ctx' = [saved EXCEPT ![in] = "live"]
    /\ UNCHANGED gs

\* Mutant: prepare_switch is called and its result is not acted on.
SchedForgetsSwitch(t) ==
    /\ At(t, "sched")
    /\ s' = Schedule(s)
    /\ Goto(t, ret[t])
    /\ UNCHANGED <<taskVars, cpuVars, ret, target, local>>

\* schedule(), the decision: preempt_count is 0 at every caller modelled here.
\* should_reschedule and prepare_switch are two sections of SCHEDULER and one
\* step here: a timer between them runs schedule() itself and leaves s as a
\* timer before both would, since it repeats should_reschedule.
Sched(t) ==
    /\ At(t, "sched")
    /\ s' = Schedule(s)
    /\ Goto(t, IF Switches(s) THEN "switch" ELSE ret[t])
    /\ UNCHANGED <<taskVars, cpuVars, ret, target, local>>

\* schedule(), the switch: SCHEDULER is released and s already names the
\* incoming task.  An exiting task passes a null pointer and saves nothing.
Switch(t) ==
    /\ At(t, "switch")
    /\ Goto(t, ret[t])
    /\ Load(IF ret[t] = "dead" THEN ctx ELSE [ctx EXCEPT ![t] = "call"], s.current, intr)
    /\ UNCHANGED <<s, taskVars, ret, target, local, corrupt>>

\* SYS_YIELD.
CallYield(t) ==
    /\ At(t, "run")
    /\ t \in Yielders
    /\ EnterKernel(t)
    /\ Goto(t, "sched")
    /\ ret' = [ret EXCEPT ![t] = "return"]
    /\ UNCHANGED <<s, taskVars, target, local>>
-----------------------------------------------------------------------------
\* SYS_CLONE, SYS_FORK, load_path and Task::new: build the task.  SYS_FORK
\* passes the priority of the parent on, the others are given one ...
CallSpawn(t, kind, priority) ==
    /\ At(t, "run")
    /\ t \in Spawners
    /\ nextTid <= MaxTid
    /\ kind \in {"load", "new"} => t = Boot
    /\ EnterKernel(t)
    /\ nextTid' = nextTid + 1
    /\ s' = [s EXCEPT !.priority[nextTid] = IF kind = "fork" /\ user[t]
                                                 THEN s.priority[t] ELSE priority]
    /\ pid' = [pid EXCEPT ![nextTid] = IF kind = "clone" THEN pid[t] ELSE nextTid]
    /\ parent' = [parent EXCEPT ![nextTid] = CASE kind = "clone" -> parent[t]
                                               [] kind = "new" -> 0
                                               [] OTHER -> pid[t]]
    /\ user' = [user EXCEPT ![nextTid] = user[t] \/ kind = "load"]
    /\ local' = [local EXCEPT ![t] = nextTid]
    /\ Goto(t, "spawn_insert")
    /\ UNCHANGED <<table, ret, target>>

\* ... spawn: insert it in the table, then push it on its queue.
SpawnInsert(t) ==
    /\ At(t, "spawn_insert")
    /\ table' = table \cup {local[t]}
    /\ Goto(t, "spawn_push")
    /\ UNCHANGED <<s, nextTid, pid, parent, user, cpuVars, ret, target, local>>

SpawnPush(t) ==
    /\ At(t, "spawn_push")
    /\ s' = Push(s, local[t])
    /\ Goto(t, "return")
    /\ UNCHANGED <<taskVars, cpuVars, ret, target, local>>
-----------------------------------------------------------------------------
\* The table scan of wait and unblock_pid: the lowest tid with that pid.
FirstWithPid(p) ==
    IF \E u \in table : pid[u] = p
    THEN CHOOSE u \in table : pid[u] = p /\ \A v \in table : pid[v] = p => u <= v
    ELSE None

\* lifecycle::wait (by pid) and lifecycle::wait_tid (by tid).
CallWait(t, tgt) ==
    /\ At(t, "run")
    /\ t \in Waiters
    /\ tgt.id < nextTid
    /\ EnterKernel(t)
    /\ target' = [target EXCEPT ![t] = tgt]
    /\ Goto(t, "wait_check")
    /\ UNCHANGED <<s, taskVars, ret, local>>

Found(t) ==
    IF target[t].by = "pid" THEN FirstWithPid(target[t].id)
    ELSE IF target[t].id \in table THEN target[t].id ELSE None

\* One look at the table: nothing there returns -1, a Zombie is removed (which
\* frees its kernel stack) and its code returned, anything else blocks.
WaitCheck(t) ==
    /\ At(t, "wait_check")
    /\ \/ /\ Found(t) = None
          /\ Goto(t, "return")
          /\ UNCHANGED table
       \/ /\ Found(t) # None
          /\ s.state[Found(t)] = "Zombie"
          /\ table' = table \ {Found(t)}
          /\ Goto(t, "return")
       \/ /\ Found(t) # None
          /\ s.state[Found(t)] # "Zombie"
          /\ Goto(t, "wait_mark")
          /\ UNCHANGED table
    /\ UNCHANGED <<s, nextTid, pid, parent, user, cpuVars, ret, target, local>>

WaitMark(t) ==
    /\ At(t, "wait_mark")
    /\ s' = (IF t \in table THEN SetState(s, t, "Blocked") ELSE s)
    /\ Goto(t, "sched")
    /\ ret' = [ret EXCEPT ![t] = "wait_check"]
    /\ UNCHANGED <<taskVars, cpuVars, target, local>>
-----------------------------------------------------------------------------
\* lifecycle::exit.
CallExit(t) ==
    /\ At(t, "run")
    /\ t # Boot
    /\ EnterKernel(t)
    /\ Goto(t, "exit_mark")
    /\ UNCHANGED <<s, taskVars, ret, target, local>>

\* Mutant: only a task that has a parent becomes a Zombie.
ExitMarkIfParent(t) ==
    /\ At(t, "exit_mark")
    /\ IF t \in table /\ parent[t] # 0
       THEN /\ s' = SetState(s, t, "Zombie")
            /\ Goto(t, "exit_find")
       ELSE /\ Goto(t, "exit_remove")
            /\ UNCHANGED s
    /\ UNCHANGED <<taskVars, cpuVars, ret, target, local>>

ExitMark(t) ==
    /\ At(t, "exit_mark")
    /\ IF t \in table
       THEN /\ s' = SetState(s, t, "Zombie")
            /\ Goto(t, IF parent[t] = 0 THEN "exit_remove" ELSE "exit_find")
       ELSE /\ Goto(t, "exit_remove")
            /\ UNCHANGED s
    /\ UNCHANGED <<taskVars, cpuVars, ret, target, local>>

\* unblock_pid(parent): find the tid under one lock of the table ...
ExitFind(t) ==
    /\ At(t, "exit_find")
    /\ local' = [local EXCEPT ![t] = FirstWithPid(parent[t])]
    /\ Goto(t, "exit_wake")
    /\ UNCHANGED <<s, taskVars, cpuVars, ret, target>>

\* ... and unblock it under another.
ExitWake(t) ==
    /\ At(t, "exit_wake")
    /\ s' = (IF local[t] \in table THEN Unblock(s, local[t]) ELSE s)
    /\ Goto(t, "exit_remove")
    /\ UNCHANGED <<taskVars, cpuVars, ret, target, local>>

ExitRemove(t) ==
    /\ At(t, "exit_remove")
    /\ s' = RemoveCurrent(s)
    /\ Goto(t, "sched")
    /\ ret' = [ret EXCEPT ![t] = "dead"]
    /\ UNCHANGED <<taskVars, cpuVars, target, local>>
-----------------------------------------------------------------------------
\* kernel_main ends in a halt loop.
Halt(t) ==
    /\ At(t, "run")
    /\ t = Boot
    /\ Goto(t, "hlt")
    /\ UNCHANGED <<s, taskVars, cpuVars, ret, target, local>>

\* timer_handler with preempt_count = 0: tick, then schedule.  The handler
\* runs with IF clear.  If it switches, the context goes to the task that s
\* names as current, which in the window before switch_to is not the task
\* whose stack the CPU is on.
Timer ==
    /\ intr
    /\ pc[cpu] \in TimerPoints
    /\ s' = Schedule(Tick(s))
    /\ IF Switches(Tick(s))
       THEN /\ corrupt' = (IF s.current \in {cpu, None} THEN corrupt ELSE "context")
            /\ pc' = (IF s.current = None THEN [pc EXCEPT ![cpu] = "dead"] ELSE pc)
            /\ Load(IF s.current = None THEN ctx ELSE [ctx EXCEPT ![s.current] = "irq"],
                    s'.current, FALSE)
       ELSE UNCHANGED <<cpuVars, pc>>
    /\ UNCHANGED <<taskVars, ret, target, local>>

\* timer_handler with preempt_count > 0: schedule() returns at once.
TimerBypassed ==
    /\ intr
    /\ pc[cpu] \in TimerPoints \cap TableSections
    /\ s' = Tick(s)
    /\ UNCHANGED <<taskVars, cpuVars, pc, ret, target, local>>
-----------------------------------------------------------------------------
\* What a task chooses to do next, and what the kernel does once it has.
Begin(t) ==
    \/ CallYield(t)
    \/ CallExit(t)
    \/ Halt(t)
    \/ \E kind \in Kinds, priority \in SpawnPriorities : CallSpawn(t, kind, priority)
    \/ \E tgt \in Targets : CallWait(t, tgt)

Continue(t) ==
    \/ Return(t) \/ Sched(t) \/ Switch(t)
    \/ SpawnInsert(t) \/ SpawnPush(t)
    \/ WaitCheck(t) \/ WaitMark(t)
    \/ ExitMark(t) \/ ExitFind(t) \/ ExitWake(t) \/ ExitRemove(t)

Next ==
    /\ corrupt = "no"
    /\ \/ \E t \in Tid : Begin(t) \/ Continue(t)
       \/ Timer
       \/ TimerBypassed

Spec == Init /\ [][Next]_vars

\* A task that gets the CPU again and again carries on with the kernel code
\* it is in: a critical section is short against the period of the timer.  The
\* PIC keeps a timer interrupt pending until IF is set, so a timer that is
\* enabled again and again is delivered.
FairSpec ==
    /\ Spec
    /\ \A t \in Tid : SF_vars(corrupt = "no" /\ Continue(t))
    /\ SF_vars(corrupt = "no" /\ Timer)
-----------------------------------------------------------------------------
\* Task t has left the scheduler for good: exit ran remove_current.
Left(t) == pc[t] = "dead" \/ (pc[t] \in {"sched", "switch"} /\ ret[t] = "dead")

\* Task t is inside lifecycle::wait or wait_tid.
Waiting(t) ==
    \/ pc[t] \in {"wait_check", "wait_mark"}
    \/ pc[t] \in {"sched", "switch"} /\ ret[t] = "wait_check"

Pool == INSTANCE TaskPool WITH ready <- {t \in Tid : Queued(s, t)}, running <- s.current

\* The run queues stay well formed under every interleaving of spawn, wait,
\* exit, tick, boost and switch (mlfq.rs): no task is queued twice or while it
\* runs, and every queued task is Ready and in the queue of its priority.
RunQueuesOK == RunQueuesWellFormed(s)

\* The kernel uses the scheduler as a task pool: spawn, exit, wait and the timer
\* together never drop, duplicate or invent a ready task.
ImplementsPool == Pool!Spec

\* No wakeup can be lost: prepare_switch makes the outgoing task Ready
\* whatever it was, so a Blocked task is always the one on the CPU and
\* unblock_tid never has a sleeping task to find.
BlockedIsCurrent == \A t \in Tid : s.state[t] = "Blocked" => t = s.current

\* No task is lost: a task in the table is current, or queued, or about to be
\* pushed by the task that spawned it, unless it has exited.
NoTaskLost ==
    \A t \in table :
        \/ t = s.current
        \/ Queued(s, t)
        \/ \E u \in Tid : pc[u] = "spawn_push" /\ local[u] = t
        \/ Left(t)

\* wait frees the kernel stack of the task it removes from the table, so a
\* removed task is on no queue, is not current, and the CPU is not on its
\* stack (lifecycle.rs: table.remove against the tail of exit).
ReapedIsGone ==
    \A t \in Tid \ table : ~Queued(s, t) /\ s.current # t /\ cpu # t

\* schedule() called by exit always finds a task to switch to, so the halt
\* loop at the end of exit is never reached.
ExitSwitchesAway == pc[cpu] # "dead"

\* A task that has left the scheduler and is not yet reaped is a Zombie, so
\* that wait sees its exit (main.rs: fork_smoke_test asserts the exit code).
ExitIsObservable == \A t \in table : Left(t) => s.state[t] = "Zombie"

\* switch_to never saves the context of one task into another.
ContextSavedToOwner == corrupt # "context"

\* syscall_entry always finds the kernel stack of the task that entered.
SyscallOnOwnStack == corrupt # "stack"

\* Where the code would have to keep the timer out, for the above to hold: the
\* window between prepare_switch and switch_to; and exit, from the Zombie mark to
\* remove_current.
Leaving == {"exit_find", "exit_wake", "exit_remove"}
SwitchShielded == "switch" \notin TimerPoints
ExitShielded == TimerPoints \cap Leaving = {}

\* And what user programs would have to respect: no task yields or waits in a
\* system call while another task lives in ring 3.
Ring3Alone ==
    \A t, u \in Tid : user[t] /\ user[u] /\ t # u => t \notin Yielders \cup Waiters

\* A halted CPU can be woken: hlt is only executed with interrupts enabled.
HaltIsInterruptible == pc[cpu] = "hlt" => intr

\* wait returns: once the task that a waiter finds has exited, or there is none
\* to find, the waiter leaves the loop of lifecycle::wait or wait_tid.
WaitReturns ==
    \A t \in Waiters :
        (Waiting(t) /\ (Found(t) = None \/ Left(Found(t)))) ~> ~Waiting(t)
=============================================================================
