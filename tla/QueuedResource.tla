--------------------------- MODULE QueuedResource ---------------------------
(***************************************************************************)
(* The mutex and condition variable that user programs reach by a handle   *)
(* (sync/resource.rs, sync/resource_table.rs and the system calls          *)
(* SYS_GETRESOURCE to SYS_CONDVAR_BROADCAST), on top of the scheduler.     *)
(*                                                                         *)
(* A step is one critical section of the code.  The timer may come between *)
(* two steps, at TimerPoints: ring 3 only when user tasks make the calls   *)
(* (the system call entry clears IF), everywhere when kernel threads do.   *)
(* A context switch is atomic here, Kernel has its details.  A task calls  *)
(* unlock and wait only while it holds the lock.                           *)
(*                                                                         *)
(* prepare_switch makes a Blocked task Ready again, so a task that waits   *)
(* gets the CPU without being woken, looks again and queues its tid again. *)
(* Bound: a wait queue takes at most MaxWaiters entries, further ones are  *)
(* dropped.                                                                *)
(***************************************************************************)
EXTENDS Mlfq, FiniteSets

CONSTANTS Idle,         \* the idle task, always ready
          Programs,     \* sets of system calls: what the tasks of one behaviour make
          TimerPoints,  \* control points at which the timer may interrupt
          MaxCalls,     \* bound on the calls of each task, unlock not counted
          MaxWaiters    \* bound on the length of a wait queue

\* Control points.
PC == {"run", "lock", "sched", "unlock", "wake", "push", "mark", "broadcast"}

AllCalls == {"lock", "trylock", "unlock", "wait", "signal", "broadcast"}

QueuedResourceAssumption ==
    /\ IsFiniteSet(Tid) /\ Idle \in Tid
    /\ \A c \in Programs : c \subseteq AllCalls
    /\ TimerPoints \subseteq PC
    /\ MaxCalls \in Nat /\ MaxWaiters \in Nat

VARIABLES s,             \* the scheduler, see Mlfq
          made,          \* SYS_GETRESOURCE has put the resource in the table
          locked,        \* MutexState::locked
          waiters,       \* MutexState::waiters
          cond_waiters,  \* QueuedResource::cond_waiters
          pc,            \* control point of each task
          then,          \* where unlock() returns to
          popped,        \* the tid that unlock() is about to wake
          holds,         \* a call has given the lock to the task
          calls,         \* calls made so far
          program        \* the system calls that tasks make

res  == <<made, locked, waiters, cond_waiters>>
vars == <<s, made, locked, waiters, cond_waiters, pc, then, popped, holds, calls, program>>

User == Tid \ {Idle}

TypeOK ==
    /\ s \in SchedState
    /\ made \in BOOLEAN /\ locked \in BOOLEAN
    /\ waiters \in Seq(User) /\ cond_waiters \in Seq(User)
    /\ Len(waiters) <= MaxWaiters /\ Len(cond_waiters) <= MaxWaiters
    /\ pc \in [Tid -> PC] /\ then \in [Tid -> {"run", "sched"}]
    /\ popped \in [Tid -> User \cup {None}]
    /\ holds \in [Tid -> BOOLEAN]
    /\ calls \in [Tid -> 0..MaxCalls]
    /\ program \in Programs

\* A user task runs, the others and the idle task are ready.
Init ==
    /\ \E first \in User, rest \in [1..(Cardinality(User) - 1) -> User] :
         /\ {rest[i] : i \in DOMAIN rest} = User \ {first}
         /\ s = [queues |-> [i \in Level |-> IF i = 0 THEN rest
                                             ELSE IF i = NumQueues - 1 THEN <<Idle>> ELSE << >>],
                 current |-> first,
                 ticks_remaining |-> TimeSlice(0),
                 total_ticks |-> 0,
                 needs_reschedule |-> FALSE,
                 state |-> [t \in Tid |-> IF t = first THEN "Running" ELSE "Ready"],
                 priority |-> [t \in Tid |-> IF t = Idle THEN NumQueues - 1 ELSE 0]]
    /\ made = FALSE /\ locked = FALSE
    /\ waiters = << >> /\ cond_waiters = << >>
    /\ pc = [t \in Tid |-> "run"] /\ then = [t \in Tid |-> "run"]
    /\ popped = [t \in Tid |-> None]
    /\ holds = [t \in Tid |-> FALSE]
    /\ calls = [t \in Tid |-> 0]
    /\ program \in Programs
-----------------------------------------------------------------------------
At(t, l) == s.current = t /\ pc[t] = l

Goto(t, l) == pc' = [pc EXCEPT ![t] = l]

Holds(t, b) == holds' = [holds EXCEPT ![t] = b]

\* push_back, up to the bound.
PushBack(q, t) == IF Len(q) < MaxWaiters THEN Append(q, t) ELSE q

\* Task t makes a system call, which looks the handle up in the table.
Call(t, c) ==
    /\ At(t, "run")
    /\ t # Idle
    /\ c \in program
    /\ c # "unlock" => calls[t] < MaxCalls
    /\ calls' = [calls EXCEPT ![t] = IF c = "unlock" THEN @ ELSE @ + 1]

\* SYS_GETRESOURCE: the first call makes the resource all tasks share.
GetResource(t) ==
    /\ At(t, "run")
    /\ t # Idle
    /\ ~made
    /\ made' = TRUE
    /\ UNCHANGED <<s, locked, waiters, cond_waiters, pc, then, popped, holds, calls>>

\* A handle that is not in the table: EBADF.
BadHandle(t) ==
    /\ Call(t, "lock")
    /\ ~made
    /\ UNCHANGED <<s, res, pc, then, popped, holds>>

\* SYS_MUTEX_LOCK.
CallLock(t) ==
    /\ Call(t, "lock") /\ made /\ ~holds[t]
    /\ Goto(t, "lock")
    /\ UNCHANGED <<s, res, then, popped, holds>>

\* lock(): one look at the state, which takes the lock or queues the task.
LockSection(t) ==
    /\ At(t, "lock")
    /\ \/ /\ ~locked
          /\ locked' = TRUE
          /\ Holds(t, TRUE)
          /\ Goto(t, "run")
          /\ UNCHANGED <<s, waiters>>
       \/ /\ locked
          /\ waiters' = PushBack(waiters, t)
          /\ s' = SetState(s, t, "Blocked")
          /\ Goto(t, "sched")
          /\ UNCHANGED <<locked, holds>>
    /\ UNCHANGED <<made, cond_waiters, then, popped, calls>>

\* scheduler::schedule() of lock() and wait(), which go on with a look at the
\* lock when the task gets the CPU again.
Sched(t) ==
    /\ At(t, "sched")
    /\ s' = Schedule(s)
    /\ Goto(t, "lock")
    /\ UNCHANGED <<res, then, popped, holds, calls>>

\* Mutant: the flag is not looked at.
TryLockAlways(t) ==
    /\ Call(t, "trylock") /\ made /\ ~holds[t]
    /\ locked' = TRUE
    /\ Holds(t, TRUE)
    /\ UNCHANGED <<s, made, waiters, cond_waiters, pc, then, popped>>

\* SYS_MUTEX_TRYLOCK: the lock, or EAGAIN.
TryLock(t) ==
    /\ Call(t, "trylock") /\ made /\ ~holds[t]
    /\ locked' = TRUE
    /\ Holds(t, ~locked)
    /\ UNCHANGED <<s, made, waiters, cond_waiters, pc, then, popped>>

\* SYS_MUTEX_UNLOCK.
CallUnlock(t) ==
    /\ Call(t, "unlock") /\ made /\ holds[t]
    /\ Holds(t, FALSE)
    /\ Goto(t, "unlock")
    /\ then' = [then EXCEPT ![t] = "run"]
    /\ UNCHANGED <<s, res, popped>>

\* Mutant: the lock stays taken and is meant for the task that is woken.
UnlockSectionHandsOver(t) ==
    /\ At(t, "unlock")
    /\ locked' = (waiters # << >>)
    /\ popped' = [popped EXCEPT ![t] = IF waiters = << >> THEN None ELSE Head(waiters)]
    /\ waiters' = (IF waiters = << >> THEN << >> ELSE Tail(waiters))
    /\ Goto(t, "wake")
    /\ UNCHANGED <<s, made, cond_waiters, then, holds, calls>>

\* unlock(): free the lock and pop a waiter ...
UnlockSection(t) ==
    /\ At(t, "unlock")
    /\ locked' = FALSE
    /\ popped' = [popped EXCEPT ![t] = IF waiters = << >> THEN None ELSE Head(waiters)]
    /\ waiters' = (IF waiters = << >> THEN << >> ELSE Tail(waiters))
    /\ Goto(t, "wake")
    /\ UNCHANGED <<s, made, cond_waiters, then, holds, calls>>

\* Mutant: the waiter is pushed whether it is Blocked or not.
WakePushes(t) ==
    /\ At(t, "wake")
    /\ s' = (IF popped[t] = None THEN s
             ELSE Push(SetState(s, popped[t], "Ready"), popped[t]))
    /\ popped' = [popped EXCEPT ![t] = None]
    /\ Goto(t, then[t])
    /\ UNCHANGED <<res, then, holds, calls>>

\* ... then unblock it, the lock of state already dropped.
Wake(t) ==
    /\ At(t, "wake")
    /\ s' = (IF popped[t] = None THEN s ELSE Unblock(s, popped[t]))
    /\ popped' = [popped EXCEPT ![t] = None]
    /\ Goto(t, then[t])
    /\ UNCHANGED <<res, then, holds, calls>>

\* SYS_CONDVAR_WAIT: queue the tid, mark the task, unlock, schedule, lock.
CallWait(t) ==
    /\ Call(t, "wait") /\ made /\ holds[t]
    /\ Goto(t, "push")
    /\ UNCHANGED <<s, res, then, popped, holds>>

WaitPush(t) ==
    /\ At(t, "push")
    /\ cond_waiters' = PushBack(cond_waiters, t)
    /\ Goto(t, "mark")
    /\ UNCHANGED <<s, made, locked, waiters, then, popped, holds, calls>>

\* Mutant: wait() takes the lock again without schedule().
WaitMarkSkips(t) ==
    /\ At(t, "mark")
    /\ s' = SetState(s, t, "Blocked")
    /\ Holds(t, FALSE)
    /\ Goto(t, "unlock")
    /\ then' = [then EXCEPT ![t] = "lock"]
    /\ UNCHANGED <<res, popped, calls>>

WaitMark(t) ==
    /\ At(t, "mark")
    /\ s' = SetState(s, t, "Blocked")
    /\ Holds(t, FALSE)
    /\ Goto(t, "unlock")
    /\ then' = [then EXCEPT ![t] = "sched"]
    /\ UNCHANGED <<res, popped, calls>>

\* SYS_CONDVAR_SIGNAL: pop a tid and unblock it under the lock of the queue.
Signal(t) ==
    /\ Call(t, "signal") /\ made
    /\ IF cond_waiters = << >>
       THEN UNCHANGED <<s, cond_waiters>>
       ELSE /\ cond_waiters' = Tail(cond_waiters)
            /\ s' = Unblock(s, Head(cond_waiters))
    /\ UNCHANGED <<made, locked, waiters, pc, then, popped, holds>>

\* SYS_CONDVAR_BROADCAST: the same, one lock of the queue for each tid.
CallBroadcast(t) ==
    /\ Call(t, "broadcast") /\ made
    /\ Goto(t, "broadcast")
    /\ UNCHANGED <<s, res, then, popped, holds>>

BroadcastNext(t) ==
    /\ At(t, "broadcast")
    /\ IF cond_waiters = << >>
       THEN Goto(t, "run") /\ UNCHANGED <<s, cond_waiters>>
       ELSE /\ cond_waiters' = Tail(cond_waiters)
            /\ s' = Unblock(s, Head(cond_waiters))
            /\ UNCHANGED pc
    /\ UNCHANGED <<made, locked, waiters, then, popped, holds, calls>>

\* timer_handler: tick and schedule.
Timer ==
    /\ pc[s.current] \in TimerPoints
    /\ s' = Schedule(Tick(s))
    /\ UNCHANGED <<res, pc, then, popped, holds, calls>>
-----------------------------------------------------------------------------
Begin(t) ==
    \/ GetResource(t) \/ BadHandle(t) \/ CallLock(t) \/ TryLock(t) \/ CallUnlock(t)
    \/ CallWait(t) \/ Signal(t) \/ CallBroadcast(t)

Continue(t) ==
    \/ LockSection(t) \/ Sched(t) \/ UnlockSection(t) \/ Wake(t)
    \/ WaitPush(t) \/ WaitMark(t) \/ BroadcastNext(t)

Next == (Timer \/ \E t \in Tid : Begin(t) \/ Continue(t)) /\ UNCHANGED program

Spec == Init /\ [][Next]_vars

\* A task that has the CPU again and again goes on with its system call, the
\* timer keeps ticking, and a task that holds the lock does not keep it.
FairSpec ==
    /\ Spec
    /\ \A t \in User : SF_vars(Next /\ Continue(t)) /\ SF_vars(Next /\ CallUnlock(t))
    /\ WF_vars(Next /\ Timer)
-----------------------------------------------------------------------------
\* At most one task has the lock, and then it is taken: what lock(), try_lock(),
\* unlock() and wait() give to tasks that respect the protocol.
OneHolder ==
    \A t \in User : holds[t] => locked /\ \A u \in User : holds[u] => u = t

\* The run queues stay well formed although unlock, signal and broadcast unblock
\* tids that earlier rounds of lock() left in the wait queues.
RunQueuesOK == RunQueuesWellFormed(s)

\* QueuedResource::lock, try_lock, unlock and wait: of the tasks whose call returned
\* at most one has the mutex, and then its flag is set; and the run queues stay well
\* formed.  wait() marks the task Blocked before it unlocks, and the tid that its
\* unlock() finds may be its own, so the run queues are safe only in programs that
\* do not call it.
ResourceSound == TypeOK /\ OneHolder /\ ("wait" \notin program => RunQueuesOK)

\* QueuedResource::lock and wait return, as long as tasks do not keep the lock for
\* ever: a wake-up that comes between the look at the lock and schedule() is not lost.
LockReturns == \A t \in User : pc[t] \in {"lock", "sched"} ~> holds[t]
=============================================================================
