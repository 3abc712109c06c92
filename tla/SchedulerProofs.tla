-------------------------- MODULE SchedulerProofs ---------------------------
(***************************************************************************)
(* The scheduler under every order of calls, for any number of tasks, any  *)
(* number of queues and any boost period: the run queues stay well formed  *)
(* and the MLFQ implements the task pool.  Then the monitor on top of it,  *)
(* which keeps them well formed and lists who is Blocked, and the          *)
(* spinlocks below it, which exclude and keep who has one on the CPU.      *)
(***************************************************************************)
EXTENDS Scheduler, ThreadParts, MlfqProofs

\* The inductive invariant.  A Blocked task is the current one: prepare_switch
\* requeues it as Ready, so unblock_tid finds no Blocked task to push twice.
IInv ==
    /\ Sound(s)
    /\ \A t \in Tid : s.state[t] = "Blocked" => t = s.current

\* scheduler::init leaves one task running and Idle alone in the last queue.
LEMMA InitSound == Init => IInv
<1> SUFFICES ASSUME Init PROVE IInv
  BY Zenon
<1>1. PICK boot \in Tid \ {Idle} :
        s = [queues |-> [i \in Level |-> IF i = NumQueues - 1 THEN <<Idle>> ELSE << >>],
             current |-> boot,
             ticks_remaining |-> TimeSlice(0),
             total_ticks |-> 0,
             needs_reschedule |-> FALSE,
             state |-> [t \in Tid |-> IF t = boot THEN "Running" ELSE "Ready"],
             priority |-> [t \in Tid |-> IF t = Idle THEN NumQueues - 1 ELSE 0]]
  BY Zenon DEF Init
<1>2. /\ s.queues = [i \in Level |-> IF i = NumQueues - 1 THEN <<Idle>> ELSE << >>]
      /\ s.current = boot
      /\ s.state = [t \in Tid |-> IF t = boot THEN "Running" ELSE "Ready"]
      /\ s.priority = [t \in Tid |-> IF t = Idle THEN NumQueues - 1 ELSE 0]
  BY <1>1, Zenon
<1>3. TimeSlice(0) \in Nat /\ 0 \in 0..(BoostPeriod - 1)
  BY MlfqAssumption, SMTT(60) DEF TimeSlice
<1>4. s.queues \in [Level -> Seq(Tid)]
  BY <1>2, SchedulerAssumption, SMTT(60)
<1>5. /\ s.state \in [Tid -> TaskState]
      /\ s.priority \in [Tid -> Priority]
      /\ \A t \in Tid : s.priority[t] \in Level
  BY <1>2, LevelFacts, ZenonT(60) DEF TaskState
<1>6. s \in SchedState
  BY <1>1, <1>3, <1>4, <1>5, Zenon DEF SchedState
<1>7. \A i \in Level : \A m \in 1..Len(s.queues[i]) :
        i = NumQueues - 1 /\ m = 1 /\ s.queues[i][m] = Idle
  BY <1>2, SMTT(60)
<1>8. s.priority[Idle] = NumQueues - 1 /\ s.state[Idle] = "Ready" /\ Idle # s.current
  BY <1>2, SchedulerAssumption, Zenon
<1>9. RunQueuesWellFormed(s)
  <2>1. \A i, j \in Level : \A m \in 1..Len(s.queues[i]), n \in 1..Len(s.queues[j]) :
           i = j /\ m = n
    BY <1>7, Zenon
  <2>2. \A i \in Level : \A m \in 1..Len(s.queues[i]) :
           /\ s.priority[s.queues[i][m]] = i
           /\ s.state[s.queues[i][m]] = "Ready"
           /\ s.queues[i][m] # s.current
    BY <1>7, <1>8, Zenon
  <2> QED
    BY <2>1, <2>2, SMTT(60) DEF RunQueuesWellFormed
<1> QED
  BY <1>2, <1>5, <1>6, <1>9, Zenon DEF IInv, Sound

\* The tasks of the pool that wait for the CPU.
Ready == {t \in Tid : Queued(s, t)}

\* Spawn admits one task.
LEMMA SpawnStep ==
    ASSUME IInv, NEW t \in Tid, NEW p \in ArrivalPriorities, Spawn(t, p)
    PROVE  IInv' /\ Ready' = Ready \cup {t} /\ s'.current = s.current
<1> DEFINE x == [s EXCEPT !.priority[t] = p, !.state[t] = "Ready"]
<1>1. Sound(s) /\ s \in SchedState /\ ~Queued(s, t) /\ t # s.current /\ p \in Level
  BY SchedulerAssumption, Zenon DEF IInv, Sound, Spawn
<1>2. /\ x.queues = s.queues /\ x.current = s.current
      /\ x.state = [s.state EXCEPT ![t] = "Ready"]
      /\ x.priority = [s.priority EXCEPT ![t] = p]
      /\ x \in SchedState
  BY <1>1, LevelFacts, Zenon DEF SchedState, TaskState
<1>3. s' = Push(x, t)
  BY Zenon DEF Spawn
<1> HIDE DEF x
<1>4. \A u \in Tid : Queued(s, u) =>
         x.state[u] = s.state[u] /\ x.priority[u] = s.priority[u] /\ u # x.current
  <2> SUFFICES ASSUME NEW u \in Tid, Queued(s, u)
               PROVE  x.state[u] = s.state[u] /\ x.priority[u] = s.priority[u] /\ u # x.current
    BY Zenon
  <2>1. u # s.current
    BY <1>1, SMTT(60) DEF Sound, RunQueuesWellFormed, Queued, Occurs
  <2> QED
    BY <1>1, <1>2, <2>1, Zenon DEF SchedState
<1>5. \A u \in Tid : x.priority[u] \in Level
  BY <1>1, <1>2, Zenon DEF Sound, SchedState
<1>6. Sound(x) /\ SameQueued(s, x)
  BY <1>1, <1>2, <1>4, <1>5, OutsideQueuesSound, Zenon
<1>7. ~Queued(x, t) /\ t # x.current /\ x.state[t] = "Ready"
  BY <1>1, <1>2, <1>6, Zenon DEF SameQueued, SchedState
<1>8. /\ Sound(s')
      /\ \A u \in Tid : Queued(s', u) <=> Queued(x, u) \/ u = t
      /\ s'.current = x.current /\ s'.state = x.state
  BY <1>3, <1>6, <1>7, PushSound, ZenonT(60)
<1>9. \A u \in Tid : s'.state[u] = "Blocked" => u = s'.current
  BY <1>1, <1>2, <1>8, SMTT(60) DEF IInv, SchedState
<1> QED
  BY <1>2, <1>6, <1>8, <1>9, Zenon DEF IInv, Ready, SameQueued

\* schedule() keeps the invariant of any scheduler value x, and dispatches a
\* task or changes nothing that the pool sees.
LEMMA ScheduleStep ==
    ASSUME NEW x, Sound(x), \A u \in Tid : x.state[u] = "Blocked" => u = x.current,
           s' = Schedule(x)
    PROVE  /\ IInv'
           /\ \/ SameQueued(x, s') /\ s'.current = x.current
              \/ /\ s'.current \in Tid /\ Queued(x, s'.current)
                 /\ \A u \in Tid : Queued(s', u) <=>
                       (Queued(x, u) /\ u # s'.current) \/ u = x.current
<1>1. ScheduleEffect(x, s')
  BY ScheduleSound, Zenon
<1>2. Sound(s') /\ x \in SchedState
  BY <1>1, Zenon DEF ScheduleEffect, Sound
<1>3. CASE ~Switches(x)
  BY <1>1, <1>2, <1>3, Zenon DEF ScheduleEffect, IInv
<1>4. CASE Switches(x)
  <2>1. \A u \in Tid : s'.state[u] = "Blocked" => u = s'.current
    <3> SUFFICES ASSUME NEW u \in Tid, s'.state[u] = "Blocked", u # s'.current
                 PROVE  FALSE
      BY Zenon
    <3>1. CASE u = x.current
      BY <1>1, <1>4, <3>1, MlfqAssumption, Zenon DEF ScheduleEffect
    <3>2. CASE u # x.current
      BY <1>1, <1>4, <3>2, Zenon DEF ScheduleEffect
    <3> QED
      BY <3>1, <3>2, Zenon
  <2> QED
    BY <1>1, <1>2, <1>4, <2>1, Zenon DEF ScheduleEffect, IInv
<1> QED
  BY <1>3, <1>4, Zenon

\* What one step does to the pool: nothing, Admit, Dispatch or Leave.
PoolStep ==
    \/ Ready' = Ready /\ s'.current = s.current
    \/ \E t \in Tid \ Ready : t # s.current /\ Ready' = Ready \cup {t} /\ s'.current = s.current
    \/ \E t \in Ready : s'.current = t /\ Ready' = (Ready \ {t}) \cup ({s.current} \ {None})
    \/ s.current # None /\ s'.current = None /\ Ready' = Ready

\* Every step keeps the invariant and is a step of the pool.
LEMMA StepSound ==
    ASSUME IInv, [Next]_s
    PROVE  IInv' /\ PoolStep
<1>1. Sound(s) /\ s \in SchedState /\ s.current \in Tid \cup {None}
  BY Zenon DEF IInv, Sound, SchedState
<1>2. \A u \in Tid : s.state[u] = "Blocked" => u = s.current
  BY Zenon DEF IInv
<1>3. ASSUME NEW x, SameQueued(s, x), x.current = s.current,
             \/ SameQueued(x, s') /\ s'.current = x.current
             \/ /\ s'.current \in Tid /\ Queued(x, s'.current)
                /\ \A u \in Tid : Queued(s', u) <=>
                      (Queued(x, u) /\ u # s'.current) \/ u = x.current
      PROVE  PoolStep
  <2>1. CASE SameQueued(x, s') /\ s'.current = x.current
    BY <1>3, <2>1, Zenon DEF PoolStep, Ready, SameQueued
  <2>2. CASE /\ s'.current \in Tid /\ Queued(x, s'.current)
             /\ \A u \in Tid : Queued(s', u) <=>
                   (Queued(x, u) /\ u # s'.current) \/ u = x.current
    <3>1. s'.current \in Ready
      BY <1>3, <2>2, Zenon DEF Ready, SameQueued
    <3>2. Ready' = (Ready \ {s'.current}) \cup ({s.current} \ {None})
      BY <1>1, <1>3, <2>2, MlfqAssumption, ZenonT(60) DEF Ready, SameQueued
    <3> QED
      BY <3>1, <3>2, Zenon DEF PoolStep
  <2> QED
    BY <1>3, <2>1, <2>2, Zenon
<1>4. ASSUME NEW t \in Tid, NEW p \in ArrivalPriorities, Spawn(t, p)
      PROVE  IInv' /\ PoolStep
  BY <1>4, SpawnStep, Zenon DEF PoolStep, Spawn, Ready
<1>5. CASE Timer
  <2>1. /\ Sound(Tick(s)) /\ SameQueued(s, Tick(s))
        /\ Tick(s).current = s.current /\ Tick(s).state = s.state
    BY <1>1, TickSound, Zenon
  <2> QED
    BY <1>2, <1>3, <1>5, <2>1, ScheduleStep, ZenonT(60) DEF Timer
<1>6. CASE TimerBypassed
  <2>1. /\ Sound(s') /\ SameQueued(s, s')
        /\ s'.current = s.current /\ s'.state = s.state
    BY <1>1, <1>6, TickSound, Zenon DEF TimerBypassed
  <2> QED
    BY <1>2, <2>1, Zenon DEF IInv, PoolStep, Ready, SameQueued
<1>7. ASSUME NEW st \in {"Blocked", "Zombie"}, Mark(st)
      PROVE  IInv' /\ PoolStep
  <2>1. s.current \in Tid /\ st \in TaskState /\ s' = SetState(s, s.current, st)
    BY <1>1, <1>7, Zenon DEF Mark, TaskState
  <2>2. ~Queued(s, s.current)
    BY <1>1, ZenonT(60) DEF Sound, RunQueuesWellFormed, Queued, Occurs
  <2>3. /\ Sound(s') /\ SameQueued(s, s') /\ s'.current = s.current
        /\ s'.state = [s.state EXCEPT ![s.current] = st]
    BY <1>1, <2>1, <2>2, SetStateSound, SMTT(60)
  <2>4. \A u \in Tid : s'.state[u] = "Blocked" => u = s'.current
    BY <1>1, <1>2, <2>1, <2>3, Zenon DEF SchedState
  <2> QED
    BY <2>3, <2>4, Zenon DEF IInv, PoolStep, Ready, SameQueued
<1>8. CASE Leave
  <2>1. s.current # None /\ s.state[s.current] # "Blocked" /\ s' = RemoveCurrent(s)
    BY <1>8, Zenon DEF Leave
  <2>2. /\ Sound(s') /\ SameQueued(s, s') /\ s'.current = None /\ s'.state = s.state
    BY <1>1, <2>1, RemoveCurrentSound, Zenon
  <2> QED
    BY <1>2, <2>1, <2>2, Zenon DEF IInv, PoolStep, Ready, SameQueued
<1>9. CASE Reschedule
  BY <1>1, <1>2, <1>3, <1>9, ScheduleStep, Zenon DEF Reschedule, SameQueued
<1>10. ASSUME NEW t \in Tid, Wake(t)
       PROVE  IInv' /\ PoolStep
  <2>1. s' = s
    BY <1>2, <1>10, UnblockNothing, Zenon DEF Wake
  <2> QED
    BY <2>1, Zenon DEF IInv, PoolStep, Ready
<1>11. CASE s' = s
  BY <1>11, Zenon DEF IInv, PoolStep, Ready
<1> QED
  BY <1>4, <1>5, <1>6, <1>7, <1>8, <1>9, <1>10, <1>11, ZenonT(60) DEF Next

\* The invariant holds in every reachable state.
LEMMA Invariance == Spec => []IInv
BY InitSound, StepSound, PTL DEF Spec

\* The scheduler's fields keep their types, total_ticks, slices and priorities
\* included, after any sequence of calls (struct MlfqScheduler).
THEOREM TypeCorrect == Spec => []TypeOK
<1>1. IInv => TypeOK
  BY Zenon DEF IInv, Sound, TypeOK
<1> QED
  BY <1>1, Invariance, PTL

\* Each task is queued at most once, as Ready, in the queue of its priority,
\* and never while it is current, after any sequence of calls (mlfq.rs).
THEOREM QueuesWellFormed == Spec => []RunQueuesOK
<1>1. IInv => RunQueuesOK
  BY Zenon DEF IInv, Sound, RunQueuesOK
<1> QED
  BY <1>1, Invariance, PTL

\* The MLFQ implements the task pool: push, prepare_switch, remove_current and
\* boost_priorities never drop, duplicate or invent a ready task.
THEOREM RefinesPool == Spec => ImplementsPool
<1>1. Init => Pool!Init
  <2> SUFFICES ASSUME Init PROVE Pool!Init
    BY Zenon
  <2>1. s.current \in Tid
    BY SMTT(60) DEF Init
  <2>2. ~Queued(s, s.current)
    BY InitSound, Zenon DEF IInv, Sound, RunQueuesWellFormed, Queued, Occurs
  <2> QED
    BY <2>1, <2>2, Zenon DEF Pool!Init
<1>2. IInv /\ [Next]_s => [Pool!Next]_<<{t \in Tid : Queued(s, t)}, s.current>>
  BY StepSound, Zenon DEF PoolStep, Ready, Pool!Next, Pool!Admit, Pool!Dispatch, Pool!Leave
<1> QED
  BY <1>1, <1>2, Invariance, PTL DEF Spec, ImplementsPool, Pool!Spec

\* schedule() after any change x of s that keeps the queued tasks and the current one.
LEMMA DispatchHighest ==
    ASSUME NEW x, Sound(x), SameQueued(s, x), x.current = s.current, s' = Schedule(x),
           s'.current # s.current, NEW t \in Tid, Queued(s, t)
    PROVE  s'.priority[s'.current] <= s'.priority[t]
<1>1. Queued(x, t) /\ s'.current # x.current
  BY Zenon DEF SameQueued
<1> QED
  BY <1>1, ScheduleHighest, Zenon

\* A switch is always to the highest level that holds a task, for any number of queues
\* and tasks: prepare_switch leaves no task queued above the one it picked, also when
\* tick has just boosted the others.
THEOREM SwitchesToHighest == Spec => HighestFirst
<1> DEFINE Highest == s'.current # s.current /\ s'.current # None =>
                        \A t \in Tid : Queued(s, t) => s'.priority[s'.current] <= s'.priority[t]
<1>1. IInv /\ [Next]_s => [Highest]_s
  <2> SUFFICES ASSUME IInv, Next PROVE Highest
    BY Zenon
  <2>1. Sound(s) /\ s \in SchedState /\ SameQueued(s, s)
    BY Zenon DEF IInv, Sound, SameQueued
  <2>2. CASE Timer
    <3>1. Sound(Tick(s)) /\ SameQueued(s, Tick(s)) /\ Tick(s).current = s.current
      BY <2>1, TickSound, Zenon
    <3> QED
      BY <2>2, <3>1, DispatchHighest, Zenon DEF Timer
  <2>3. CASE Reschedule
    BY <2>1, <2>3, DispatchHighest, Zenon DEF Reschedule
  <2>4. CASE TimerBypassed
    BY <2>1, <2>4, TickSound, Zenon DEF TimerBypassed
  <2>5. CASE Leave
    BY <2>1, <2>5, RemoveCurrentSound, Zenon DEF Leave
  <2>6. ASSUME NEW t \in Tid, NEW p \in ArrivalPriorities, Spawn(t, p) PROVE Highest
    BY <2>6, SpawnStep, Zenon
  <2>7. ASSUME NEW st \in {"Blocked", "Zombie"}, Mark(st) PROVE Highest
    BY <2>1, <2>7, Zenon DEF Mark, SetState, SchedState
  <2>8. ASSUME NEW t \in Tid, Wake(t) PROVE Highest
    <3>1. s' = s
      BY <2>8, UnblockNothing, Zenon DEF Wake, IInv
    <3> QED
      BY <3>1, Zenon
  <2> QED
    BY <2>2, <2>3, <2>4, <2>5, <2>6, <2>7, <2>8, Zenon DEF Next
<1> QED
  BY <1>1, Invariance, PTL DEF Spec, HighestFirst
-----------------------------------------------------------------------------
\* The run queues are sound, the idle task is there to switch to, and the only Blocked
\* task is the current one on its way from wait() to schedule(), listed for the next
\* broadcast.
MonCalm ==
    /\ Sound(ms) /\ ms.current \in Tid
    /\ Queued(ms, IdleTask) \/ ms.current = IdleTask
    /\ \A t \in Tid : ms.state[t] = "Blocked" => /\ t = ms.current /\ mpc[t] = "sched"
                                                 /\ Occurs(mwaiters, t)

\* Who waits has not the turn, and the handoffs after the last are counted by those
\* who leave.
Played ==
    /\ \A i \in 1..Len(mwaiters) : mwaiters[i] # turn
    /\ handoffs = Handoffs => \A t \in Mon!Players : t = turn \/ mpc[t] \in {"exit", "gone"}
    /\ handoffs = Handoffs + 1 => \A t \in Mon!Players : mpc[t] \in {"exit", "gone"}

\* The inductive invariant.
MonInv ==
    /\ Mon!MonitorAssumption
    /\ turn \in Mon!Players /\ handoffs \in 0..(Handoffs + 1)
    /\ mwaiters \in Seq(Mon!Players)
    /\ mpc \in [Tid -> {"lock", "sched", "exit", "gone"}]
    /\ MonCalm /\ Played

\* The operators of the scheduler that the module of the monitor has are those of
\* this one.
LEMMA MonOps ==
    /\ Mon!SchedState = SchedState /\ Mon!Level = Level
    /\ \A i : Mon!TimeSlice(i) = TimeSlice(i)
    /\ \A x : Mon!Schedule(x) = Schedule(x) /\ Mon!Tick(x) = Tick(x)
    /\ \A x, t : Mon!Unblock(x, t) = Unblock(x, t)
    /\ \A x, t, st : Mon!SetState(x, t, st) = SetState(x, t, st)
    /\ \A x : Mon!RunQueuesWellFormed(x) = RunQueuesWellFormed(x)
<1>1. Mon!SchedState = SchedState /\ Mon!Level = Level
  BY Zenon DEF Mon!SchedState, SchedState, Mon!Level, Level, Mon!TaskState, TaskState, Mon!Priority, Priority
<1>2. \A x : Mon!BoostPriorities(x) = BoostPriorities(x)
  BY Zenon DEF Mon!BoostPriorities, BoostPriorities, Mon!Promoted, Promoted, Mon!Occurs, Occurs, Mon!Level, Level
<1>3. \A x : Mon!Tick(x) = Tick(x)
  BY <1>2, ZenonT(60) DEF Mon!Tick, Tick
<1>4. \A x : Mon!ShouldReschedule(x) = ShouldReschedule(x)
  BY Zenon DEF Mon!ShouldReschedule, ShouldReschedule
<1>5. \A x : Mon!PrepareSwitch(x) = PrepareSwitch(x)
  BY SMTT(60) DEF Mon!PrepareSwitch, PrepareSwitch, Mon!WillSwitch, WillSwitch, Mon!SomeQueued, SomeQueued,
         Mon!PickNext, PickNext, Mon!FirstLevel, FirstLevel, Mon!Requeue, Requeue, Mon!TimeSlice, TimeSlice,
         Mon!Level, Level
<1>6. \A x : Mon!Schedule(x) = Schedule(x)
  BY <1>4, <1>5, Zenon DEF Mon!Schedule, Schedule
<1>7. \A x, t : Mon!Unblock(x, t) = Unblock(x, t)
  BY Zenon DEF Mon!Unblock, Unblock, Mon!Push, Push
<1>8. \A x, t, st : Mon!SetState(x, t, st) = SetState(x, t, st)
  BY Zenon DEF Mon!SetState, SetState
<1>9. \A x : Mon!RunQueuesWellFormed(x) = RunQueuesWellFormed(x)
  BY Zenon DEF Mon!RunQueuesWellFormed, RunQueuesWellFormed, Mon!Level, Level
<1>10. \A i : Mon!TimeSlice(i) = TimeSlice(i)
  BY Zenon DEF Mon!TimeSlice, TimeSlice
<1> QED
  BY <1>1, <1>3, <1>6, <1>7, <1>8, <1>9, <1>10, Zenon


\* A broadcast that finds no task Blocked leaves the scheduler alone.
LEMMA UnblockNobody ==
    ASSUME NEW x, NEW q \in Seq(Tid), \A t \in Tid : x.state[t] # "Blocked"
    PROVE  Mon!UnblockAll(x, q) = x
<1> DEFINE step(f) == [i \in 0..Len(q) |-> IF i = 0 THEN x ELSE Unblock(f[i - 1], q[i])]
           c == [i \in 0..Len(q) |-> x]
           after == CHOOSE f : f = step(f)
<1>1. \A i \in 1..Len(q) : Unblock(x, q[i]) = x
  BY UnblockNothing, SMTT(60)
<1>2. c = step(c)
  <2>1. \A i \in 0..Len(q) : i = 0 \/ (i \in 1..Len(q) /\ i - 1 \in 0..Len(q))
    BY SMTT(60)
  <2>2. \A i \in 0..Len(q) : (IF i = 0 THEN x ELSE Unblock(c[i - 1], q[i])) = x
    BY <1>1, <2>1, Zenon
  <2> QED
    BY <2>2, Zenon
<1>3. after = step(after)
  <2> HIDE DEF c, step
  <2> QED
    BY <1>2, Zenon
<1>4. Mon!UnblockAll(x, q) = after[Len(q)]
  BY MonOps, Zenon DEF Mon!UnblockAll
<1> HIDE DEF after
<1>5. ASSUME NEW i \in 0..Len(q) PROVE after[i] = IF i = 0 THEN x ELSE Unblock(after[i - 1], q[i])
  BY <1>3, Zenon
<1>6. \A i \in 0..Len(q) : after[i] = x
  <2> SUFFICES ASSUME NEW k \in 0..Len(q), after[k] # x PROVE FALSE
    BY Zenon
  <2> DEFINE S == {i \in 0..Len(q) : after[i] # x}
  <2>1. S \subseteq Nat /\ S # {}
    BY SMTT(60)
  <2>2. PICK i \in S : \A j \in S : i <= j
    <3> HIDE DEF S
    <3> QED
      BY <2>1, LeastNat, Zenon
  <2>3. i \in 0..Len(q) /\ after[i] # x /\ Len(q) \in Nat
    BY <2>2, SMTT(60)
  <2>4. i # 0
    BY <1>5, <2>3, Zenon
  <2>5. i \in 1..Len(q) /\ i - 1 \in 0..Len(q) /\ i - 1 \notin S
    BY <2>2, <2>3, <2>4, SMTT(60)
  <2>6. after[i - 1] = x
    BY <2>5, Zenon
  <2> QED
    BY <1>1, <1>5, <2>3, <2>4, <2>5, <2>6, Zenon
<1> QED
  BY <1>4, <1>6, SMTT(60)

\* Idle has the CPU, both players wait in the first queue.
LEMMA MonInit == Mon!MonitorAssumption /\ Mon!Init => MonInv
<1> SUFFICES ASSUME Mon!MonitorAssumption, Mon!Init PROVE MonInv
  BY Zenon
<1>1. /\ Tid = {IdleTask, Ping, Pong} /\ IdleTask # Ping /\ IdleTask # Pong /\ Ping # Pong
      /\ Handoffs \in Nat \ {0} /\ MaxListed \in Nat \ {0}
  BY Zenon DEF Mon!MonitorAssumption
<1>2. ms = [queues |-> [i \in Level |-> IF i = 0 THEN <<Ping, Pong>> ELSE << >>],
            current |-> IdleTask,
            ticks_remaining |-> 0,
            total_ticks |-> 0,
            needs_reschedule |-> FALSE,
            state |-> [t \in Tid |-> IF t = IdleTask THEN "Running" ELSE "Ready"],
            priority |-> [t \in Tid |-> IF t = IdleTask THEN NumQueues - 1 ELSE 0]]
  BY MonOps, Zenon DEF Mon!Init
<1>3. /\ ms.queues = [i \in Level |-> IF i = 0 THEN <<Ping, Pong>> ELSE << >>]
      /\ ms.current = IdleTask
      /\ ms.state = [t \in Tid |-> IF t = IdleTask THEN "Running" ELSE "Ready"]
      /\ ms.priority = [t \in Tid |-> IF t = IdleTask THEN NumQueues - 1 ELSE 0]
  BY <1>2, Zenon
<1>4. /\ <<Ping, Pong>> \in Seq(Tid) /\ Len(<<Ping, Pong>>) = 2
      /\ <<Ping, Pong>>[1] = Ping /\ <<Ping, Pong>>[2] = Pong
  BY <1>1, SMTT(60)
<1>5. 0 \in Level /\ NumQueues - 1 \in Level
  BY LevelFacts, Zenon
<1>6. ms \in SchedState
  <2>1. 0 \in 0..(BoostPeriod - 1)
    BY MlfqAssumption, SMTT(60)
  <2>2. ms.queues \in [Level -> Seq(Tid)]
    BY <1>3, <1>4, SMTT(60)
  <2>3. ms.state \in [Tid -> TaskState] /\ ms.priority \in [Tid -> Priority] /\ IdleTask \in Tid
    BY <1>1, <1>3, <1>5, LevelFacts, SMTT(60) DEF TaskState
  <2> QED
    BY <1>2, <2>1, <2>2, <2>3, Zenon DEF SchedState
<1>7. \A i \in Level : \A m \in 1..Len(ms.queues[i]) :
         i = 0 /\ ((m = 1 /\ ms.queues[i][m] = Ping) \/ (m = 2 /\ ms.queues[i][m] = Pong))
  BY <1>3, <1>4, SMTT(60)
<1>8. RunQueuesWellFormed(ms)
  <2>1. \A i, j \in Level : \A a \in 1..Len(ms.queues[i]), b \in 1..Len(ms.queues[j]) :
           ms.queues[i][a] = ms.queues[j][b] => i = j /\ a = b
    BY <1>1, <1>7, SMTT(60)
  <2>2. \A i \in Level : \A m \in 1..Len(ms.queues[i]) :
           /\ ms.priority[ms.queues[i][m]] = i
           /\ ms.state[ms.queues[i][m]] = "Ready"
           /\ ms.queues[i][m] # ms.current
    BY <1>1, <1>3, <1>7, SMTT(60)
  <2> QED
    BY <2>1, <2>2, Zenon DEF RunQueuesWellFormed
<1>9. Sound(ms)
  BY <1>3, <1>5, <1>6, <1>8, Zenon DEF Sound
<1>10. MonCalm
  BY <1>1, <1>3, <1>9, Zenon DEF MonCalm
<1>11. /\ turn = Ping /\ handoffs = 0 /\ mwaiters = << >>
       /\ mpc = [t \in Tid |-> IF t = IdleTask THEN "gone" ELSE "lock"]
  BY Zenon DEF Mon!Init
<1>12. Played
  BY <1>1, <1>11, SMTT(60) DEF Played
<1> QED
  BY <1>1, <1>10, <1>11, <1>12, SMTT(60) DEF MonInv, Mon!Players

\* What schedule() leaves, when somebody has the CPU or it must be given to somebody.
LEMMA MonSchedule ==
    ASSUME MonInv, NEW x, Sound(x), SameQueued(ms, x),
           \A t \in Tid : x.state[t] = "Blocked" => ms.state[t] = "Blocked",
           \/ x.current = ms.current
           \/ /\ x.current = None /\ x.needs_reschedule /\ Queued(ms, IdleTask)
              /\ x.state[ms.current] # "Blocked",
           ms' = Schedule(x)
    PROVE  /\ Sound(ms') /\ ms'.current \in Tid
           /\ Queued(ms', IdleTask) \/ ms'.current = IdleTask
           /\ \/ Switches(x) /\ \A t \in Tid : ms'.state[t] # "Blocked"
              \/ ~Switches(x) /\ ms'.state = x.state /\ ms'.current = ms.current
<1>1. ScheduleEffect(x, ms')
  BY ScheduleSound, Zenon
<1>2. MonCalm /\ IdleTask \in Tid
  BY Zenon DEF MonInv, Mon!MonitorAssumption
<1>3. CASE ~Switches(x)
  <2>1. x.current = ms.current
    BY <1>2, <1>3, SwitchesIfAsked, Zenon DEF SameQueued
  <2> QED
    BY <1>1, <1>2, <1>3, <2>1, Zenon DEF ScheduleEffect, MonCalm, SameQueued
<1>4. CASE Switches(x)
  <2>1. /\ Sound(ms') /\ ms'.current \in Tid
        /\ \A u \in Tid : Queued(ms', u) <=> (Queued(x, u) /\ u # ms'.current) \/ u = x.current
        /\ ms'.state[ms'.current] = "Running" /\ (x.current # None => ms'.state[x.current] = "Ready")
        /\ \A u \in Tid \ {x.current, ms'.current} : ms'.state[u] = x.state[u]
    BY <1>1, <1>4, Zenon DEF ScheduleEffect
  <2>2. Queued(ms', IdleTask) \/ ms'.current = IdleTask
    BY <1>2, <2>1, Zenon DEF MonCalm, SameQueued
  <2>3. ASSUME NEW t \in Tid PROVE ms'.state[t] # "Blocked"
    <3>1. CASE x.current = None
      BY <1>2, <2>1, <3>1, MlfqAssumption, SMTT(60) DEF MonCalm
    <3>2. CASE x.current # None
      BY <1>2, <2>1, <3>2, ZenonT(60) DEF MonCalm
    <3> QED
      BY <3>1, <3>2, Zenon
  <2> QED
    BY <1>4, <2>1, <2>2, <2>3, Zenon
<1> QED
  BY <1>3, <1>4, Zenon

\* A player's round: it waits, or it takes its turn and wakes who is Blocked, nobody.
LEMMA PlaySound == ASSUME MonInv, NEW t \in Mon!Players, Mon!Play(t) PROVE MonInv'
<1>1. /\ Tid = {IdleTask, Ping, Pong} /\ IdleTask # Ping /\ IdleTask # Pong /\ Ping # Pong
      /\ Handoffs \in Nat \ {0} /\ MaxListed \in Nat \ {0} /\ t \in {Ping, Pong}
      /\ Mon!Players = {Ping, Pong}
  BY Zenon DEF MonInv, Mon!MonitorAssumption, Mon!Players
<1>2. /\ turn \in {Ping, Pong} /\ handoffs \in 0..(Handoffs + 1) /\ mwaiters \in Seq({Ping, Pong})
      /\ mpc \in [Tid -> {"lock", "sched", "exit", "gone"}]
      /\ MonCalm /\ Played
  BY <1>1, Zenon DEF MonInv
<1>3. t \in Tid /\ t = ms.current /\ mpc[t] = "lock" /\ \A u \in Tid : ms.state[u] # "Blocked"
  BY <1>1, <1>2, Zenon DEF Mon!Play, Mon!At, MonCalm
<1>4. CASE turn # t /\ Mon!Wait(t)
  <2>1. /\ mwaiters' = (IF Len(mwaiters) < MaxListed THEN Append(mwaiters, t) ELSE mwaiters)
        /\ ms' = SetState(ms, t, "Blocked") /\ mpc' = [mpc EXCEPT ![t] = "sched"]
        /\ UNCHANGED <<turn, handoffs>>
    BY <1>4, MonOps, Zenon DEF Mon!Wait, Mon!Goto
  <2>2. /\ Sound(ms) /\ ms.state \in [Tid -> TaskState] /\ ~Queued(ms, t)
    BY <1>2, <1>3, QueuedIsWaiting, Zenon DEF MonCalm, Sound, SchedState
  <2>3. /\ Sound(ms') /\ SameQueued(ms, ms') /\ ms'.current = ms.current
        /\ ms'.state = [ms.state EXCEPT ![t] = "Blocked"]
    BY <1>3, <2>1, <2>2, SetStateSound, Zenon DEF TaskState
  <2>4. \A u \in Tid : ms'.state[u] = "Blocked" => u = t
    BY <1>3, <2>2, <2>3, Zenon
  <2>5. /\ mwaiters' \in Seq({Ping, Pong}) /\ Occurs(mwaiters', t)
        /\ \A i \in 1..Len(mwaiters') : mwaiters'[i] # turn
    <3>1. CASE Len(mwaiters) < MaxListed
      <4>1. /\ mwaiters' \in Seq({Ping, Pong}) /\ Len(mwaiters') = Len(mwaiters) + 1 /\ Len(mwaiters) \in Nat
            /\ mwaiters'[Len(mwaiters) + 1] = t
            /\ \A i \in 1..Len(mwaiters) : mwaiters'[i] = mwaiters[i]
        BY <1>1, <1>2, <2>1, <3>1, SMTT(60)
      <4>2. \A i \in 1..Len(mwaiters') : i \in 1..Len(mwaiters) \/ i = Len(mwaiters) + 1
        BY <4>1, SMTT(60)
      <4>3. Len(mwaiters) + 1 \in 1..Len(mwaiters')
        BY <4>1, SMTT(60)
      <4> QED
        BY <1>2, <1>4, <4>1, <4>2, <4>3, Zenon DEF Occurs, Played
    <3>2. CASE ~(Len(mwaiters) < MaxListed)
      <4>1. mwaiters' = mwaiters /\ 1 \in 1..Len(mwaiters)
        BY <1>1, <1>2, <2>1, <3>2, SMTT(60)
      <4>2. mwaiters[1] \in {Ping, Pong} /\ mwaiters[1] # turn
        BY <1>2, <4>1, SMTT(60) DEF Played
      <4>3. mwaiters[1] = t
        BY <1>1, <1>2, <1>4, <4>2, Zenon
      <4> QED
        BY <1>2, <4>1, <4>3, Zenon DEF Occurs, Played
    <3> QED
      BY <3>1, <3>2, Zenon
  <2>6. mpc' \in [Tid -> {"lock", "sched", "exit", "gone"}] /\ mpc'[t] = "sched"
        /\ \A u \in Tid : u # t => mpc'[u] = mpc[u]
    BY <1>2, <1>3, <2>1, Zenon
  <2>7. Played'
    <3>1. handoffs # Handoffs /\ handoffs # Handoffs + 1
      BY <1>1, <1>2, <1>3, <1>4, Zenon DEF Played
    <3> QED
      BY <2>1, <2>5, <3>1, Zenon DEF Played
  <2>8. MonCalm'
    <3>1. IdleTask \in Tid
      BY <1>1, Zenon
    <3>2. Queued(ms', IdleTask) \/ ms'.current = IdleTask
      BY <1>2, <2>3, <3>1, Zenon DEF MonCalm, SameQueued
    <3> QED
      BY <1>3, <2>3, <2>4, <2>5, <2>6, <3>2, Zenon DEF MonCalm
  <2> QED
    BY <1>1, <1>2, <2>1, <2>5, <2>6, <2>7, <2>8, Zenon DEF MonInv, Mon!MonitorAssumption, Mon!Players
<1>5. CASE /\ turn = t /\ handoffs' = handoffs + 1 /\ turn' = (IF t = Ping THEN Pong ELSE Ping) /\ Mon!Broadcast
           /\ Mon!Goto(t, IF handoffs + 1 >= Handoffs THEN "exit" ELSE "lock")
  <2>1. ms' = ms /\ mwaiters' = << >>
    <3>1. mwaiters \in Seq(Tid)
      BY <1>1, <1>2, SMTT(60)
    <3> QED
      BY <1>3, <1>5, <3>1, UnblockNobody, Zenon DEF Mon!Broadcast
  <2>2. /\ mpc' \in [Tid -> {"lock", "sched", "exit", "gone"}]
        /\ \A u \in Tid : u # t => mpc'[u] = mpc[u]
        /\ handoffs + 1 >= Handoffs => mpc'[t] = "exit"
    BY <1>2, <1>3, <1>5, Zenon DEF Mon!Goto
  <2>3. handoffs # Handoffs + 1
    BY <1>1, <1>2, <1>3, Zenon DEF Played
  <2>4. handoffs' \in 0..(Handoffs + 1) /\ turn' \in {Ping, Pong} /\ turn' # t
    BY <1>1, <1>2, <1>5, <2>3, SMTT(60)
  <2>5. handoffs' = Handoffs => \A u \in Mon!Players : u = turn' \/ mpc'[u] \in {"exit", "gone"}
    <3>1. handoffs' = Handoffs => mpc'[t] = "exit"
      BY <1>1, <1>2, <1>5, <2>2, SMTT(60)
    <3> QED
      BY <1>1, <2>4, <3>1, SMTT(60)
  <2>6. handoffs' = Handoffs + 1 => \A u \in Mon!Players : mpc'[u] \in {"exit", "gone"}
    <3>1. handoffs' = Handoffs + 1 => handoffs = Handoffs /\ mpc'[t] = "exit"
      BY <1>1, <1>2, <1>5, <2>2, SMTT(60)
    <3> QED
      BY <1>1, <1>2, <1>5, <2>2, <3>1, Zenon DEF Played
  <2>7. Played'
    BY <2>1, <2>5, <2>6, SMTT(60) DEF Played, Mon!Players
  <2>8. MonCalm'
    BY <1>2, <1>3, <2>1, Zenon DEF MonCalm
  <2> QED
    BY <1>1, <2>1, <2>2, <2>4, <2>7, <2>8, SMTT(60) DEF MonInv, Mon!MonitorAssumption, Mon!Players
<1> QED
  BY <1>4, <1>5, Zenon DEF Mon!Play

\* Every step keeps the invariant.
LEMMA MonStep == MonInv /\ [Mon!Next]_(Mon!vars) => MonInv'
<1> SUFFICES ASSUME MonInv, [Mon!Next]_(Mon!vars) PROVE MonInv'
  BY Zenon
<1>1. /\ MonCalm /\ Played /\ Mon!Players \subseteq Tid /\ IdleTask \in Tid /\ IdleTask \notin Mon!Players
      /\ mpc \in [Tid -> {"lock", "sched", "exit", "gone"}]
  BY Zenon DEF MonInv, Mon!MonitorAssumption, Mon!Players
<1>2. ASSUME UNCHANGED <<turn, handoffs, mwaiters>>, MonCalm', mpc' \in [Tid -> {"lock", "sched", "exit", "gone"}],
             \A u \in Mon!Players : mpc[u] \in {"exit", "gone"} => mpc'[u] \in {"exit", "gone"}
      PROVE  MonInv'
  <2>1. Played'
    BY <1>1, <1>2, Zenon DEF Played, Mon!Players
  <2> QED
    BY <1>2, <2>1, Zenon DEF MonInv, Mon!MonitorAssumption, Mon!Players
<1>3. ASSUME NEW t \in Mon!Players, Mon!Sched(t) PROVE MonInv'
  <2>1. /\ t = ms.current /\ mpc[t] = "sched" /\ ms' = Schedule(ms) /\ mpc' = [mpc EXCEPT ![t] = "lock"]
        /\ UNCHANGED <<turn, handoffs, mwaiters>> /\ t \in Tid /\ t # IdleTask
    BY <1>1, <1>3, MonOps, Zenon DEF Mon!Sched, Mon!At, Mon!Goto
  <2>2. /\ Sound(ms') /\ ms'.current \in Tid
        /\ Queued(ms', IdleTask) \/ ms'.current = IdleTask
        /\ \/ Switches(ms) /\ \A u \in Tid : ms'.state[u] # "Blocked"
           \/ ~Switches(ms) /\ ms'.state = ms.state /\ ms'.current = ms.current
    BY <1>1, <2>1, MonSchedule, Zenon DEF MonCalm, SameQueued
  <2>3. ms.state[t] = "Blocked" => Switches(ms)
    <3>1. t # None /\ Queued(ms, IdleTask) /\ Sound(ms)
      BY <1>1, <2>1, MlfqAssumption, Zenon DEF MonCalm
    <3> QED
      BY <1>1, <2>1, <3>1, SwitchesIfBlocked, Zenon
  <2>4. \A u \in Tid : ms'.state[u] # "Blocked"
    BY <1>1, <2>1, <2>2, <2>3, Zenon DEF MonCalm
  <2>5. MonCalm'
    BY <2>2, <2>4, Zenon DEF MonCalm
  <2>6. /\ mpc' \in [Tid -> {"lock", "sched", "exit", "gone"}]
        /\ \A u \in Tid : mpc[u] \in {"exit", "gone"} => mpc'[u] \in {"exit", "gone"}
    BY <1>1, <2>1, Zenon
  <2> QED
    BY <1>1, <1>2, <2>1, <2>5, <2>6, Zenon
<1>4. ASSUME NEW t \in Mon!Players, Mon!Exit(t) PROVE MonInv'
  <2> DEFINE z == SetState(ms, t, "Zombie")
             x == RemoveCurrent(z)
  <2>1. /\ t = ms.current /\ mpc[t] = "exit" /\ ms' = Mon!Schedule(Mon!RemoveCurrent(Mon!SetState(ms, t, "Zombie")))
        /\ mpc' = [mpc EXCEPT ![t] = "gone"]
        /\ UNCHANGED <<turn, handoffs, mwaiters>> /\ t \in Tid /\ t # IdleTask
    BY <1>1, <1>4, Zenon DEF Mon!Exit, Mon!At, Mon!Goto
  <2>2. ms' = Schedule(x)
    BY <2>1, MonOps, Zenon DEF Mon!RemoveCurrent, RemoveCurrent
  <2>3. Sound(ms) /\ ms.state \in [Tid -> TaskState] /\ ~Queued(ms, t) /\ Queued(ms, IdleTask)
    BY <1>1, <2>1, QueuedIsWaiting, Zenon DEF MonCalm, Sound, SchedState
  <2>4. /\ Sound(z) /\ SameQueued(ms, z) /\ z.current = ms.current /\ z.state = [ms.state EXCEPT ![t] = "Zombie"]
    BY <2>1, <2>3, SetStateSound, Zenon DEF TaskState
  <2> HIDE DEF z
  <2>5. Sound(x) /\ SameQueued(z, x) /\ x.current = None /\ x.state = z.state /\ x.needs_reschedule
    BY <1>1, <2>1, <2>4, RemoveCurrentSound, MlfqAssumption, SMTT(60)
  <2> HIDE DEF x
  <2>6. /\ SameQueued(ms, x) /\ \A u \in Tid : x.state[u] = "Blocked" => ms.state[u] = "Blocked"
        /\ x.state[ms.current] # "Blocked"
    BY <2>1, <2>3, <2>4, <2>5, ZenonT(60) DEF SameQueued
  <2>7. /\ Sound(ms') /\ ms'.current \in Tid
        /\ Queued(ms', IdleTask) \/ ms'.current = IdleTask
        /\ \/ \A u \in Tid : ms'.state[u] # "Blocked"
           \/ ms'.state = x.state
    BY <2>2, <2>3, <2>5, <2>6, MonSchedule, Zenon
  <2>8. \A u \in Tid : x.state[u] # "Blocked"
    BY <1>1, <2>1, <2>6, Zenon DEF MonCalm
  <2>9. MonCalm'
    BY <2>7, <2>8, Zenon DEF MonCalm
  <2>10. /\ mpc' \in [Tid -> {"lock", "sched", "exit", "gone"}]
         /\ \A u \in Tid : mpc[u] \in {"exit", "gone"} => mpc'[u] \in {"exit", "gone"}
    BY <1>1, <2>1, Zenon
  <2> QED
    BY <1>1, <1>2, <2>1, <2>9, <2>10, Zenon
<1>5. CASE Mon!Timer
  <2>1. ms' = Schedule(Tick(ms)) /\ UNCHANGED <<turn, handoffs, mwaiters, mpc>>
    BY <1>5, MonOps, Zenon DEF Mon!Timer
  <2>2. Sound(Tick(ms)) /\ SameQueued(ms, Tick(ms)) /\ Tick(ms).current = ms.current /\ Tick(ms).state = ms.state
    BY <1>1, TickSound, Zenon DEF MonCalm
  <2>3. /\ Sound(ms') /\ ms'.current \in Tid
        /\ Queued(ms', IdleTask) \/ ms'.current = IdleTask
        /\ \/ \A u \in Tid : ms'.state[u] # "Blocked"
           \/ ms'.state = ms.state /\ ms'.current = ms.current
    BY <2>1, <2>2, MonSchedule, Zenon
  <2>4. MonCalm'
    BY <1>1, <2>1, <2>3, Zenon DEF MonCalm
  <2> QED
    BY <1>1, <1>2, <2>1, <2>4, Zenon
<1>6. CASE Mon!TimerBypassed
  <2>1. ms' = Tick(ms) /\ UNCHANGED <<turn, handoffs, mwaiters, mpc>>
    BY <1>6, MonOps, Zenon DEF Mon!TimerBypassed
  <2>2. Sound(Tick(ms)) /\ SameQueued(ms, Tick(ms)) /\ Tick(ms).current = ms.current /\ Tick(ms).state = ms.state
    BY <1>1, TickSound, Zenon DEF MonCalm
  <2>3. MonCalm'
    BY <1>1, <2>1, <2>2, Zenon DEF MonCalm, SameQueued
  <2> QED
    BY <1>1, <1>2, <2>1, <2>3, Zenon
<1>7. CASE UNCHANGED Mon!vars
  <2>1. UNCHANGED <<ms, turn, handoffs, mwaiters, mpc>>
    BY <1>7, Zenon DEF Mon!vars
  <2>2. MonCalm'
    BY <1>1, <2>1, Zenon DEF MonCalm
  <2> QED
    BY <1>1, <1>2, <2>1, <2>2, Zenon
<1> QED
  BY <1>3, <1>4, <1>5, <1>6, <1>7, PlaySound, Zenon DEF Mon!Next, Mon!Continue

\* The kernel's monitor: a task that is marked Blocked is listed for the next
\* broadcast, and waiting and broadcasting leave the run queues well formed, for any
\* number of handoffs.
THEOREM MonitorStaysSound == Mon!MonitorAssumption /\ Mon!Spec => []MonitorSound
<1>1. MonInv => MonitorSound
  <2> SUFFICES ASSUME MonInv PROVE Mon!MonitorSound
    BY Zenon DEF MonitorSound
  <2>1. ms \in SchedState /\ RunQueuesWellFormed(ms)
    BY Zenon DEF MonInv, MonCalm, Sound
  <2>2. Mon!TypeOK /\ Mon!RunQueuesOK
    BY <2>1, MonOps, Zenon DEF MonInv, Mon!TypeOK, Mon!RunQueuesOK
  <2>3. Mon!WaiterIsListed
    BY Zenon DEF MonInv, MonCalm, Mon!WaiterIsListed, Mon!Occurs, Occurs, Mon!Players, Mon!MonitorAssumption
  <2> QED
    BY <2>2, <2>3, Zenon DEF Mon!MonitorSound
<1> QED
  BY MonInit, MonStep, <1>1, PTL DEF Mon!Spec
-----------------------------------------------------------------------------
\* Where a task is in its section says how many locks it has: in particular it
\* has one whenever it drops a guard.
Placed ==
    \A t \in Task :
        /\ lpc[t] = "out" => held[t] = << >>
        /\ lpc[t] = "cas" => plan[t] \in Sections /\ Len(held[t]) < Len(plan[t])
        /\ lpc[t] = "disable" => held[t] # << >> /\ Len(held[t]) <= Len(plan[t]) /\ plan[t] \in Sections
        /\ lpc[t] = "in" => held[t] # << >>

LockInv == Locks!TypeOK /\ Placed /\ Locks!MutualExclusion /\ Locks!GuardKeepsCpu

\* What the steps of one task t leave alone and what its locks become.
LEMMA AppendSeq ==
    ASSUME NEW q \in Seq(Lock), NEW l \in Lock
    PROVE  /\ Append(q, l) \in Seq(Lock) /\ Len(Append(q, l)) = Len(q) + 1
           /\ Append(q, l) # << >>
           /\ \A i \in 1..Len(q) : Append(q, l)[i] = q[i]
           /\ Append(q, l)[Len(q) + 1] = l
    BY SMTT(60)

LEMMA FrontSeq ==
    ASSUME NEW q \in Seq(Lock), q # << >>
    PROVE  /\ Len(q) \in Nat \ {0} /\ q[Len(q)] \in Lock
           /\ SubSeq(q, 1, Len(q) - 1) \in Seq(Lock)
           /\ Len(SubSeq(q, 1, Len(q) - 1)) = Len(q) - 1
           /\ \A i \in 1..Len(q) - 1 : SubSeq(q, 1, Len(q) - 1)[i] = q[i]
<1>1. Len(q) \in Nat \ {0}
    BY SMTT(60)
<1>2. q[Len(q)] \in Lock
    BY <1>1, SMTT(60)
<1> DEFINE m == Len(q) - 1
<1>3. m \in Nat /\ m <= Len(q)
    BY <1>1, SMTT(60)
<1>4. \A i \in 1..m : q[i] \in Lock
    BY <1>3, SMTT(60)
<1> HIDE DEF m
<1>5. /\ SubSeq(q, 1, m) \in Seq(Lock) /\ Len(SubSeq(q, 1, m)) = m
      /\ \A i \in 1..m : SubSeq(q, 1, m)[i] = q[i]
    BY <1>3, <1>4, SMTT(60)
<1> QED
    BY <1>1, <1>2, <1>5, Zenon DEF m

LEMMA WantedLock ==
    ASSUME Locks!SpinlocksAssumption, Locks!TypeOK, Placed, NEW t \in Task, lpc[t] = "cas" PROVE Locks!Wanted(t) \in Lock
<1>1. plan[t] \in Seq(Lock) /\ held[t] \in Seq(Lock) /\ Len(held[t]) < Len(plan[t])
    BY Zenon DEF Locks!SpinlocksAssumption, Locks!TypeOK, Placed
<1> QED
    BY <1>1, SMTT(60) DEF Locks!Wanted

\* Entering a section.
LEMMA EnterSound ==
    ASSUME Locks!SpinlocksAssumption, LockInv, NEW t \in Task, NEW sec \in Sections, Locks!Enter(t, sec) PROVE LockInv'
<1> USE DEF LockInv
<1>1. Locks!TypeOK'
    BY Zenon DEF Locks!TypeOK, Locks!Enter, Locks!At, Locks!Goto, Locks!PC
<1>2. held' = held /\ guards' = guards /\ cpu' = cpu /\ flags' = flags
    BY Zenon DEF Locks!Enter
<1>3. /\ lpc' = [lpc EXCEPT ![t] = "cas"] /\ plan' = [plan EXCEPT ![t] = sec]
      /\ lpc[t] = "out" /\ held[t] = << >>
    BY Zenon DEF Locks!Enter, Locks!At, Locks!Goto, Placed
<1>4. Placed'
    <2>1. Len(sec) > 0
        BY SMTT(60) DEF Locks!SpinlocksAssumption
    <2>2. Len(held[t]) = 0
        BY <1>3, SMTT(60)
    <2> QED
        BY <1>2, <1>3, <2>1, <2>2, Zenon DEF Placed, Locks!TypeOK
<1>5. Locks!MutualExclusion'
    BY <1>2, SMTT(60) DEF Locks!MutualExclusion
<1>6. \A u \in Task : Locks!Guards(u)' = Locks!Guards(u)
    BY <1>2, <1>3, Zenon DEF Locks!Guards, Locks!TypeOK
<1>7. Locks!GuardKeepsCpu'
    BY <1>2, <1>6, Zenon DEF Locks!GuardKeepsCpu, Locks!TypeOK
<1> QED
    BY <1>1, <1>4, <1>5, <1>7, Zenon

\* The compare_exchange takes a lock nobody has.
LEMMA CasSound ==
    ASSUME Locks!SpinlocksAssumption, LockInv, NEW t \in Task, Locks!Cas(t) PROVE LockInv'
<1> USE DEF LockInv
<1> DEFINE l == Locks!Wanted(t)
<1>1. l \in Lock /\ l \notin flags
    BY WantedLock, Zenon DEF Locks!Cas, Locks!At
<1>2. /\ held' = [held EXCEPT ![t] = Append(held[t], l)] /\ lpc' = [lpc EXCEPT ![t] = "disable"]
      /\ flags' = flags \cup {l} /\ lpc[t] = "cas" /\ cpu = t
      /\ guards' = guards /\ cpu' = cpu /\ plan' = plan /\ inTick' = inTick
    BY Zenon DEF Locks!Cas, Locks!At, Locks!Goto
<1> HIDE DEF l
<1>3. \A u \in Task : held[u] \in Seq(Lock)
    BY Zenon DEF Locks!TypeOK
<1>4. /\ \A u \in Task \ {t} : held'[u] = held[u] /\ lpc'[u] = lpc[u]
      /\ held'[t] = Append(held[t], l) /\ lpc'[t] = "disable"
    BY <1>2, Zenon DEF Locks!TypeOK
<1>5. /\ held'[t] \in Seq(Lock) /\ Len(held'[t]) = Len(held[t]) + 1 /\ held'[t] # << >>
      /\ \A i \in 1..Len(held[t]) : held'[t][i] = held[t][i]
      /\ held'[t][Len(held[t]) + 1] = l
    BY <1>1, <1>3, <1>4, AppendSeq, SMTT(60)
<1>6. Locks!TypeOK'
    BY <1>1, <1>2, <1>5, Zenon DEF Locks!TypeOK, Locks!PC
<1>7. Placed'
    <2>1. plan[t] \in Sections /\ Len(held'[t]) <= Len(plan[t])
        <3>1. plan[t] \in Sections /\ plan[t] \in Seq(Lock) /\ Len(held[t]) < Len(plan[t])
            BY <1>2, Zenon DEF Locks!SpinlocksAssumption, Placed
        <3> QED
            BY <1>3, <1>5, <3>1, SMTT(60)
    <2> QED
        BY <1>2, <1>4, <1>5, <2>1, Zenon DEF Placed
<1>8. Locks!MutualExclusion'
    <2> DEFINE n == Len(held[t])
    <2>0. n \in Nat
        BY <1>3, SMTT(60)
    <2>1. \A u \in Task : \A i \in 1..Len(held[u]) : held[u][i] # l
        BY <1>1, Zenon DEF Locks!MutualExclusion
    <2>2. \A u \in Task : \A i \in 1..Len(held'[u]) :
              \/ u = t /\ i = n + 1 /\ held'[u][i] = l
              \/ i \in 1..Len(held[u]) /\ held'[u][i] = held[u][i]
        BY <1>4, <1>5, <2>0, SMTT(60)
    <2>3. ASSUME NEW u \in Task, NEW v \in Task, NEW i \in 1..Len(held'[u]), NEW j \in 1..Len(held'[v]),
                 held'[u][i] = held'[v][j]
          PROVE  u = v /\ i = j
        <3>1. CASE held'[u][i] = l
            <4>1. u = t /\ i = n + 1 /\ v = t /\ j = n + 1
                BY <2>1, <2>2, <2>3, <3>1, ZenonT(60)
            <4> QED
                BY <4>1, Zenon
        <3>2. CASE held'[u][i] # l
            <4>1. /\ i \in 1..Len(held[u]) /\ held'[u][i] = held[u][i]
                  /\ j \in 1..Len(held[v]) /\ held'[v][j] = held[v][j]
                BY <2>2, <2>3, <3>2, ZenonT(60)
            <4>2. held[u][i] = held[v][j]
                BY <2>3, <4>1, Zenon
            <4>3. held[u][i] = held[v][j] => u = v /\ i = j
                BY <4>1, SMTT(60) DEF Locks!MutualExclusion
            <4> QED
                BY <4>2, <4>3, Zenon
        <3> QED
            BY <3>1, <3>2, Zenon
    <2>4. ASSUME NEW k \in Lock
          PROVE  k \in flags' <=> \E u \in Task : \E i \in 1..Len(held'[u]) : held'[u][i] = k
        <3>1. ASSUME NEW u \in Task, NEW i \in 1..Len(held[u])
              PROVE  i \in 1..Len(held'[u]) /\ held'[u][i] = held[u][i]
            <4>1. CASE u = t
                BY <1>5, <2>0, <4>1, SMTT(60)
            <4>2. CASE u # t
                BY <1>4, <4>2, Zenon
            <4> QED
                BY <4>1, <4>2, Zenon
        <3>2. n + 1 \in 1..Len(held'[t]) /\ held'[t][n + 1] = l
            BY <1>5, <2>0, SMTT(60)
        <3> HIDE DEF n
        <3>3. CASE k = l
            BY <1>2, <3>2, <3>3, Zenon
        <3>4. CASE k # l
            <4>1. k \in flags' <=> k \in flags
                BY <1>2, <3>4, Zenon
            <4>2. k \in flags <=> \E u \in Task : \E i \in 1..Len(held[u]) : held[u][i] = k
                BY Zenon DEF Locks!MutualExclusion
            <4>3. (\E u \in Task : \E i \in 1..Len(held[u]) : held[u][i] = k)
                      <=> \E u \in Task : \E i \in 1..Len(held'[u]) : held'[u][i] = k
                <5>1. ASSUME NEW u \in Task, NEW i \in 1..Len(held[u]), held[u][i] = k
                      PROVE  \E w \in Task : \E j \in 1..Len(held'[w]) : held'[w][j] = k
                    BY <3>1, <5>1, Zenon
                <5>2. ASSUME NEW u \in Task, NEW i \in 1..Len(held'[u]), held'[u][i] = k
                      PROVE  i \in 1..Len(held[u]) /\ held[u][i] = k
                    BY <2>2, <3>4, <5>2, Zenon
                <5> QED
                    BY <5>1, <5>2, Zenon
            <4> QED
                BY <4>1, <4>2, <4>3, Zenon
        <3> QED
            BY <3>3, <3>4, Zenon
    <2> QED
        BY <2>3, <2>4, Zenon DEF Locks!MutualExclusion
<1>9. \A u \in Task : Locks!Guards(u)' = Locks!Guards(u)
    BY <1>2, <1>3, <1>4, <1>5, SMTT(60) DEF Locks!Guards
<1>10. Locks!GuardKeepsCpu'
    BY <1>2, <1>9, Zenon DEF Locks!GuardKeepsCpu, Locks!TypeOK
<1> QED
    BY <1>6, <1>7, <1>8, <1>10, Zenon

\* preempt_disable counts the guard that the task now has.
LEMMA DisableSound ==
    ASSUME Locks!SpinlocksAssumption, LockInv, NEW t \in Task, Locks!Disable(t) PROVE LockInv'
<1> USE DEF LockInv
<1>1. /\ held' = held /\ flags' = flags /\ cpu' = cpu /\ plan' = plan /\ inTick' = inTick
      /\ guards' = guards + 1 /\ cpu = t /\ lpc[t] = "disable"
      /\ lpc' = [lpc EXCEPT ![t] = IF Len(held[t]) = Len(plan[t]) THEN "in" ELSE "cas"]
    BY Zenon DEF Locks!Disable, Locks!At, Locks!Goto
<1>2. Locks!TypeOK'
    BY <1>1, SMTT(60) DEF Locks!TypeOK, Locks!PC
<1>3. held[t] \in Seq(Lock) /\ Len(held[t]) \in Nat /\ plan[t] \in Seq(Lock) /\ Len(plan[t]) \in Nat
    BY <1>1, SMTT(60) DEF Locks!SpinlocksAssumption, Locks!TypeOK, Placed
<1>4. lpc'[t] \in {"in", "cas"} /\ (lpc'[t] = "cas" => Len(held[t]) # Len(plan[t]))
    BY <1>1, Zenon DEF Locks!TypeOK
<1>5. \A u \in Task \ {t} : lpc'[u] = lpc[u]
    BY <1>1, Zenon DEF Locks!TypeOK
<1>6. Placed'
    <2>1. held[t] # << >> /\ plan[t] \in Sections /\ Len(held[t]) <= Len(plan[t])
        BY <1>1, Zenon DEF Placed
    <2> QED
        BY <1>1, <1>3, <1>4, <1>5, <2>1, SMTT(60) DEF Placed
<1>7. Locks!MutualExclusion'
    BY <1>1, SMTT(60) DEF Locks!MutualExclusion
<1>8. Locks!Guards(t)' = Locks!Guards(t) + 1
    BY <1>1, <1>3, <1>4, SMTT(60) DEF Locks!Guards
<1>9. \A u \in Task \ {t} : Locks!Guards(u)' = Locks!Guards(u)
    BY <1>1, <1>5, Zenon DEF Locks!Guards
<1>10. Locks!GuardKeepsCpu'
    BY <1>1, <1>8, <1>9, Zenon DEF Locks!GuardKeepsCpu
<1> QED
    BY <1>2, <1>6, <1>7, <1>10, Zenon

\* The store frees the lock that the task took last.
LEMMA StoreSound ==
    ASSUME Locks!SpinlocksAssumption, LockInv, NEW t \in Task, Locks!Store(t) PROVE LockInv'
<1> USE DEF LockInv
<1> DEFINE n == Len(held[t])
           l == held[t][n]
<1>1. \A u \in Task : held[u] \in Seq(Lock)
    BY Zenon DEF Locks!TypeOK
<1>2. lpc[t] = "in" /\ cpu = t /\ held[t] # << >>
    BY Zenon DEF Locks!Store, Locks!At, Placed
<1>3. /\ held' = [held EXCEPT ![t] = SubSeq(held[t], 1, n - 1)] /\ lpc' = [lpc EXCEPT ![t] = "enable"]
      /\ flags' = flags \ {l}
      /\ guards' = guards /\ cpu' = cpu /\ plan' = plan /\ inTick' = inTick
    BY Zenon DEF Locks!Store, Locks!Goto
<1>4. /\ n \in Nat \ {0} /\ l \in Lock
      /\ SubSeq(held[t], 1, n - 1) \in Seq(Lock) /\ Len(SubSeq(held[t], 1, n - 1)) = n - 1
      /\ \A i \in 1..n - 1 : SubSeq(held[t], 1, n - 1)[i] = held[t][i]
    BY <1>1, <1>2, FrontSeq, Zenon
<1>5. /\ \A u \in Task \ {t} : held'[u] = held[u] /\ lpc'[u] = lpc[u]
      /\ held'[t] = SubSeq(held[t], 1, n - 1) /\ lpc'[t] = "enable"
    BY <1>3, Zenon DEF Locks!TypeOK
<1>6. /\ held'[t] \in Seq(Lock) /\ Len(held'[t]) = n - 1
      /\ \A i \in 1..n - 1 : held'[t][i] = held[t][i]
    BY <1>4, <1>5, Zenon
<1>7. Locks!TypeOK'
    BY <1>3, <1>6, Zenon DEF Locks!TypeOK, Locks!PC
<1>8. Placed'
    BY <1>3, <1>5, Zenon DEF Placed
<1>9. Locks!MutualExclusion'
    <2>1. \A u \in Task : \A i \in 1..Len(held'[u]) :
              i \in 1..Len(held[u]) /\ held'[u][i] = held[u][i] /\ (u = t => i # n)
        BY <1>4, <1>5, <1>6, SMTT(60)
    <2>2. n \in 1..Len(held[t])
        BY <1>4, SMTT(60)
    <2>3. \A u, v \in Task : \A i \in 1..Len(held[u]), j \in 1..Len(held[v]) :
              held[u][i] = held[v][j] => u = v /\ i = j
        BY Zenon DEF Locks!MutualExclusion
    <2>4. ASSUME NEW u \in Task, NEW i \in 1..Len(held[u]), ~(u = t /\ i = n)
          PROVE  i \in 1..Len(held'[u]) /\ held'[u][i] = held[u][i] /\ held[u][i] # l
        <3>1. held[u][i] # l
            BY <2>2, <2>3, <2>4, Zenon
        <3>2. Len(held[u]) \in Nat
            BY <1>1, SMTT(60)
        <3> QED
            BY <1>4, <1>5, <1>6, <2>4, <3>1, <3>2, SMTT(60)
    <2>5. \A u, v \in Task : \A i \in 1..Len(held'[u]), j \in 1..Len(held'[v]) :
              held'[u][i] = held'[v][j] => u = v /\ i = j
        BY <2>1, <2>3, SMTT(60)
    <2>6. ASSUME NEW k \in Lock
          PROVE  k \in flags' <=> \E u \in Task : \E i \in 1..Len(held'[u]) : held'[u][i] = k
        <3>1. k \in flags <=> \E u \in Task : \E i \in 1..Len(held[u]) : held[u][i] = k
            BY Zenon DEF Locks!MutualExclusion
        <3>2. ASSUME k \in flags' PROVE \E u \in Task : \E i \in 1..Len(held'[u]) : held'[u][i] = k
            <4>1. k # l /\ k \in flags
                BY <1>3, <3>2, Zenon
            <4>2. PICK u \in Task : \E i \in 1..Len(held[u]) : held[u][i] = k
                BY <3>1, <4>1, Zenon
            <4>3. PICK i \in 1..Len(held[u]) : held[u][i] = k
                BY <4>2, Zenon
            <4> QED
                BY <2>4, <4>1, <4>3, Zenon
        <3>3. ASSUME NEW u \in Task, NEW i \in 1..Len(held'[u]), held'[u][i] = k PROVE k \in flags'
            <4>1. i \in 1..Len(held[u]) /\ held[u][i] = k /\ ~(u = t /\ i = n)
                BY <2>1, <3>3, Zenon
            <4>2. k # l
                BY <2>4, <4>1, Zenon
            <4> QED
                BY <1>3, <3>1, <4>1, <4>2, Zenon
        <3> QED
            BY <3>2, <3>3, Zenon
    <2> QED
        BY <2>5, <2>6, Zenon DEF Locks!MutualExclusion
<1>10. \A u \in Task : Locks!Guards(u)' = Locks!Guards(u)
    <2>1. \A u \in Task \ {t} : Locks!Guards(u)' = Locks!Guards(u)
        BY <1>5, Zenon DEF Locks!Guards
    <2>2. Locks!Guards(t)' = (n - 1) + 1
        BY <1>5, <1>6, Zenon DEF Locks!Guards
    <2>3. Locks!Guards(t) = n
        BY <1>2, Zenon DEF Locks!Guards
    <2> QED
        BY <1>4, <2>1, <2>2, <2>3, SMTT(60)
<1>11. Locks!GuardKeepsCpu'
    BY <1>3, <1>10, Zenon DEF Locks!GuardKeepsCpu, Locks!TypeOK
<1> QED
    BY <1>7, <1>8, <1>9, <1>11, Zenon

\* preempt_enable takes back the count of the guard that was dropped.
LEMMA EnableSound ==
    ASSUME Locks!SpinlocksAssumption, LockInv, NEW t \in Task, Locks!Enable(t) PROVE LockInv'
<1> USE DEF LockInv
<1>1. /\ held' = held /\ flags' = flags /\ cpu' = cpu /\ plan' = plan /\ inTick' = inTick
      /\ guards' = guards - 1 /\ cpu = t /\ lpc[t] = "enable"
      /\ lpc' = [lpc EXCEPT ![t] = IF held[t] = << >> THEN "out" ELSE "in"]
    BY Zenon DEF Locks!Enable, Locks!At, Locks!Goto
<1>2. held[t] \in Seq(Lock) /\ Len(held[t]) \in Nat
    BY SMTT(60) DEF Locks!TypeOK
<1>3. Locks!Guards(t) = Len(held[t]) + 1 /\ guards = Locks!Guards(t)
    BY <1>1, <1>2, Zenon DEF Locks!Guards, Locks!GuardKeepsCpu
<1>4. lpc'[t] = (IF held[t] = << >> THEN "out" ELSE "in") /\ \A u \in Task \ {t} : lpc'[u] = lpc[u]
    BY <1>1, Zenon DEF Locks!TypeOK
<1>5. Locks!TypeOK'
    BY <1>1, <1>2, <1>3, SMTT(60) DEF Locks!TypeOK, Locks!PC
<1>6. Placed'
    BY <1>1, <1>4, SMTT(60) DEF Placed
<1>7. Locks!MutualExclusion'
    BY <1>1, SMTT(60) DEF Locks!MutualExclusion
<1>8. Locks!Guards(t)' = Locks!Guards(t) - 1
    BY <1>1, <1>2, <1>3, <1>4, SMTT(60) DEF Locks!Guards
<1>9. \A u \in Task \ {t} : Locks!Guards(u)' = Locks!Guards(u)
    BY <1>1, <1>4, Zenon DEF Locks!Guards
<1>10. Locks!GuardKeepsCpu'
    BY <1>1, <1>3, <1>8, <1>9, Zenon DEF Locks!GuardKeepsCpu
<1> QED
    BY <1>5, <1>6, <1>7, <1>10, Zenon

\* The timer switches to another task only while no guard is counted.
LEMMA TimerSound ==
    ASSUME LockInv, Locks!Timer PROVE LockInv'
<1> USE DEF LockInv
<1>1. /\ held' = held /\ flags' = flags /\ guards' = guards /\ plan' = plan /\ lpc' = lpc
      /\ cpu' \in Task /\ inTick' \in BOOLEAN /\ (cpu' = cpu \/ guards = 0)
    <2>1. held' = held /\ flags' = flags /\ guards' = guards /\ plan' = plan /\ lpc' = lpc
        BY Zenon DEF Locks!Timer
    <2>2. \/ inTick' = TRUE /\ cpu' = cpu
          \/ inTick' = inTick /\ (IF guards > 0 THEN cpu' = cpu ELSE cpu' \in Task)
        BY Zenon DEF Locks!Timer
    <2>3. cpu \in Task /\ inTick \in BOOLEAN /\ guards \in Nat
        BY Zenon DEF Locks!TypeOK
    <2>4. cpu' \in Task /\ (cpu' = cpu \/ guards = 0)
        BY <2>2, <2>3, SMTT(60)
    <2>5. inTick' \in BOOLEAN
        BY <2>2, <2>3, Zenon
    <2> QED
        BY <2>1, <2>4, <2>5, Zenon
<1>2. Locks!TypeOK' /\ Placed' /\ Locks!MutualExclusion'
    BY <1>1, SMTT(60) DEF Locks!TypeOK, Placed, Locks!MutualExclusion
<1>3. \A u \in Task : Locks!Guards(u)' = Locks!Guards(u)
    BY <1>1, Zenon DEF Locks!Guards
<1>4. Locks!GuardKeepsCpu'
    BY <1>1, <1>3, Zenon DEF Locks!GuardKeepsCpu, Locks!TypeOK
<1> QED
    BY <1>2, <1>4, Zenon

\* Locks, guards and preempt_count agree in every state.
THEOREM SpinlocksInvariant == Locks!SpinlocksAssumption /\ Locks!Spec => []LockInv
<1> SUFFICES ASSUME Locks!SpinlocksAssumption PROVE Locks!Spec => []LockInv
    BY Zenon
<1>1. Locks!Init => LockInv
    <2> SUFFICES ASSUME Locks!Init PROVE LockInv
        BY Zenon
    <2>1. Locks!TypeOK
        <3>1. << >> \in Seq(Lock)
            BY SMTT(60)
        <3>2. held \in [Task -> Seq(Lock)] /\ plan \in [Task -> Sections \cup {<< >>}] /\ lpc \in [Task -> Locks!PC]
            BY <3>1, Zenon DEF Locks!Init, Locks!PC
        <3> QED
            BY <3>2, Zenon DEF Locks!Init, Locks!TypeOK
    <2>2. \A t \in Task : held[t] = << >> /\ lpc[t] = "out" /\ Len(held[t]) = 0
        BY Zenon DEF Locks!Init
    <2>3. Placed
        BY <2>2, Zenon DEF Placed
    <2>4. Locks!MutualExclusion
        BY <2>2, SMTT(60) DEF Locks!Init, Locks!MutualExclusion
    <2>5. Locks!GuardKeepsCpu
        BY <2>1, <2>2, Zenon DEF Locks!Init, Locks!GuardKeepsCpu, Locks!Guards
    <2> QED
        BY <2>1, <2>3, <2>4, <2>5, Zenon DEF LockInv
<1>2. LockInv /\ [Locks!Next]_(Locks!vars) => LockInv'
    <2> SUFFICES ASSUME LockInv, [Locks!Next]_(Locks!vars) PROVE LockInv'
        BY Zenon
    <2>1. CASE UNCHANGED Locks!vars
        BY <2>1, SMTT(60) DEF Locks!vars, LockInv, Locks!TypeOK, Placed, Locks!MutualExclusion, Locks!GuardKeepsCpu, Locks!Guards
    <2>2. CASE Locks!Next
        BY <2>2, EnterSound, CasSound, DisableSound, StoreSound, EnableSound, TimerSound, Zenon DEF Locks!Next, Locks!Step
    <2> QED
        BY <2>1, <2>2, Zenon
<1> QED
    BY <1>1, <1>2, PTL DEF Locks!Spec

\* At most one task has a lock, and the flag of a lock is true exactly while one has.
THEOREM SpinlocksExclude == Locks!SpinlocksAssumption /\ Locks!Spec => []MutualExclusion
<1>1. LockInv => MutualExclusion
    BY Zenon DEF LockInv, MutualExclusion
<1> QED
    BY <1>1, SpinlocksInvariant, PTL

\* preempt_count is the number of guards of the task on the CPU, and a task
\* that has a guard stays there.
THEOREM GuardHolderKeepsCpu == Locks!SpinlocksAssumption /\ Locks!Spec => []GuardKeepsCpu
<1>1. LockInv => GuardKeepsCpu
    BY Zenon DEF LockInv, GuardKeepsCpu
<1> QED
    BY <1>1, SpinlocksInvariant, PTL
=============================================================================
