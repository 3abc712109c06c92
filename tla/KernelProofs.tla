---------------------------- MODULE KernelProofs ----------------------------
(***************************************************************************)
(* The task lifecycle for any number of tasks and queues, and with a timer *)
(* at any control points: run queues well formed, no task lost or reaped   *)
(* while in use, and the kernel uses the scheduler as a task pool.  Then   *)
(* what holds when the timer or user programs keep out of the windows that *)
(* the code leaves open.                                                   *)
(***************************************************************************)
EXTENDS KernelSteps

\* A timer interrupt that does not switch changes nothing the invariant sees.
LEMMA TickOnly ==
    ASSUME IInv, Sound(s'), SameQueued(s, s'), s'.current = s.current, s'.state = s.state,
           s.current = None => s'.needs_reschedule,
           UNCHANGED <<taskVars, cpuVars, pc, ret, target, local>>
    PROVE  IInv'
<1>1. /\ table' = table /\ nextTid' = nextTid /\ pid' = pid /\ parent' = parent /\ user' = user
      /\ cpu' = cpu /\ intr' = intr /\ gs' = gs /\ kgs' = kgs /\ ctx' = ctx
      /\ corrupt' = corrupt /\ pc' = pc /\ ret' = ret /\ target' = target /\ local' = local
  BY Zenon DEF taskVars, cpuVars
<1>2. TypeOK'
  BY <1>1, Zenon DEF IInv, TypeOK, Sound
<1>3. \A u \in Tid : /\ Spawning(u)' <=> Spawning(u)
                     /\ Left(u)' <=> Left(u)
                     /\ Unborn(u)' <=> Unborn(u)
  BY <1>1, Zenon DEF Spawning, Left, Unborn
<1>4. SpawnInv' /\ CpuInv'
  BY <1>1, <1>3, Zenon DEF IInv, SpawnInv, CpuInv
<1>5. UnbornInv' /\ IdleInv' /\ BlockedInv'
  BY <1>1, <1>3, TidFacts, Zenon DEF IInv, UnbornInv, IdleInv, BlockedInv, SameQueued
<1>6. LeftInv' /\ TableInv' /\ ZombieInv'
  BY <1>1, <1>3, ZenonT(60) DEF IInv, LeftInv, TableInv, ZombieInv, SameQueued
<1>7. NoTaskLost'
  BY <1>1, <1>3, ZenonT(60) DEF IInv, TypeOK, NoTaskLost, SameQueued
<1> QED
  BY <1>2, <1>4, <1>5, <1>6, <1>7, Zenon DEF IInv

\* timer_handler inside a spinlock.
LEMMA TimerBypassedSound ==
    ASSUME IInv, TimerBypassed
    PROVE  IInv' /\ SameQueued(s, s') /\ s'.current = s.current
<1>1. Sound(s) /\ s' = Tick(s) /\ UNCHANGED <<taskVars, cpuVars, pc, ret, target, local>>
  BY Zenon DEF IInv, TimerBypassed
<1>2. /\ Sound(s') /\ SameQueued(s, s') /\ s'.current = s.current /\ s'.state = s.state
      /\ s.needs_reschedule => s'.needs_reschedule
  BY <1>1, TickSound, Zenon
<1>3. s.current = None => s'.needs_reschedule
  BY <1>2, Zenon DEF IInv, LeftInv
<1> QED
  BY <1>1, <1>2, <1>3, TickOnly, Zenon

\* timer_handler: tick, then schedule() and, if it switches, switch_to.
LEMMA TimerSound ==
    ASSUME IInv, corrupt = "no", Timer
    PROVE  IInv'
<1>1. PICK x : x = Tick(s)
  BY Zenon
<1>2. TypeOK /\ Sound(s) /\ pc \in [Tid -> PC] /\ cpu \in Tid
  BY Zenon DEF IInv, TypeOK
<1>3. /\ Sound(x) /\ SameQueued(s, x) /\ x.current = s.current /\ x.state = s.state
      /\ s.needs_reschedule => x.needs_reschedule
  BY <1>1, <1>2, TickSound, Zenon
<1>4. /\ s' = Schedule(x)
      /\ table' = table /\ nextTid' = nextTid /\ pid' = pid /\ parent' = parent /\ user' = user
      /\ ret' = ret /\ target' = target /\ local' = local
  BY <1>1, Zenon DEF Timer, taskVars
<1>5. ScheduleEffect(x, s')
  BY <1>3, <1>4, ScheduleSound, Zenon
<1>6. Sound(s') /\ s' \in SchedState
  BY <1>5, Zenon DEF ScheduleEffect, Sound
<1>7. CASE ~Switches(x)
  <2>1. UNCHANGED <<taskVars, cpuVars, pc, ret, target, local>>
    BY <1>1, <1>7, Zenon DEF Timer
  <2>2. s.current # None
    BY <1>3, <1>7, SwitchesIfNone, Zenon
  <2>3. SameQueued(s, s') /\ s'.current = s.current /\ s'.state = s.state
    BY <1>3, <1>5, <1>7, Zenon DEF ScheduleEffect, SameQueued
  <2> QED
    BY <1>6, <2>1, <2>2, <2>3, TickOnly, Zenon
<1>8. CASE Switches(x)
  <2>1. /\ corrupt' = (IF s.current \in {cpu, None} THEN corrupt ELSE "context")
        /\ pc' = (IF s.current = None THEN [pc EXCEPT ![cpu] = "dead"] ELSE pc)
        /\ Load(IF s.current = None THEN ctx ELSE [ctx EXCEPT ![s.current] = "irq"],
                s'.current, FALSE)
    BY <1>1, <1>8, Zenon DEF Timer
  <2>2. PICK in \in Tid : in = s'.current /\ Queued(s, in) /\ in # s.current
    BY <1>3, <1>5, <1>8, Zenon DEF ScheduleEffect, SameQueued
  <2>3. cpu' = in /\ kgs' = in /\ gs' = gs
    BY <2>1, <2>2, Zenon DEF Load
  <2>4. s.current = None => pc[cpu] = "sched" /\ ret[cpu] = "dead"
    BY <1>2, TidFacts, Zenon DEF IInv, CpuInv
  <2>5. pc' \in [Tid -> PC] /\ \A u \in Tid :
           \/ pc'[u] = pc[u]
           \/ u = cpu /\ s.current = None /\ pc'[u] = "dead"
    BY <1>2, <2>1, Zenon DEF PC
  <2>6. \A u \in Tid : Left(u)' <=> Left(u)
    BY <1>4, <2>4, <2>5, Zenon DEF Left
  <2>7. TypeOK'
    <3>1. intr' \in BOOLEAN /\ ctx' \in [Tid -> {"fresh", "irq", "call", "live"}]
      BY <1>2, <2>1, Zenon DEF TypeOK, Load
    <3>2. corrupt' \in {"no", "context", "stack"}
      BY <1>2, <2>1, Zenon
    <3> QED
      BY <1>2, <1>4, <1>6, <2>2, <2>3, <2>5, <3>1, <3>2, ZenonT(60) DEF TypeOK
  <2>8. ~Left(in)
    BY <2>2, Zenon DEF IInv, LeftInv
  <2>9. pc'[in] # "dead"
    BY <2>6, <2>8, Zenon DEF Left
  <2>10. CpuInv'
    <3> SUFFICES ASSUME corrupt' = "no" PROVE \A u \in Tid : pc'[u] # "switch"
      BY <2>2, <2>3, Zenon DEF CpuInv
    <3>1. s.current \in {cpu, None}
      BY <2>1, Zenon
    <3>2. \A u \in Tid : pc[u] # "switch"
      BY <1>2, <3>1, TidFacts, Zenon DEF IInv, CpuInv
    <3> QED
      BY <2>5, <3>2, Zenon
  <2>11. DispatchStep(x)
    BY <1>3, <1>4, <1>5, <1>8, <2>2, <2>3, <2>4, <2>5, <2>6, <2>9, ZenonT(60) DEF DispatchStep
  <2> QED
    BY <2>7, <2>10, <2>11, DispatchSound, Zenon
<1> QED
  BY <1>7, <1>8, Zenon

\* Every step keeps the invariant.
LEMMA StepSound ==
    ASSUME IInv, [Next]_vars
    PROVE  IInv'
<1>1. CASE UNCHANGED vars
  <2>1. s' = s /\ UNCHANGED <<taskVars, cpuVars, pc, ret, target, local>>
    BY <1>1, Zenon DEF vars, taskVars, cpuVars
  <2> QED
    BY <2>1, TickOnly, Zenon DEF IInv, SameQueued, LeftInv
<1>2. ASSUME corrupt = "no", NEW t \in Tid, Begin(t) PROVE IInv'
  BY <1>2, CallYieldSound, CallExitSound, HaltSound, CallSpawnSound, CallWaitSound, Zenon DEF Begin
<1>3. ASSUME corrupt = "no", NEW t \in Tid, Continue(t) PROVE IInv'
  BY <1>3, ReturnSound, SchedSound, SwitchSound, SpawnInsertSound, SpawnPushSound,
     WaitCheckSound, WaitMarkSound, ExitMarkSound, ExitFindSound, ExitWakeSound,
     ExitRemoveSound, ZenonT(60) DEF Continue
<1> QED
  BY <1>1, <1>2, <1>3, TimerSound, TimerBypassedSound, Zenon DEF Next

\* The invariant holds in every reachable state.
LEMMA Invariance == Spec => []IInv
BY InitSound, StepSound, PTL DEF Spec

\* Every variable of the kernel keeps its type.
THEOREM KernelTypeCorrect == Spec => []TypeOK
<1>1. IInv => TypeOK
  BY Zenon DEF IInv
<1> QED
  BY <1>1, Invariance, PTL

\* No task is queued twice, or while it runs, and every queued task is Ready and
\* in the queue of its priority, whatever spawn, wait, exit and the timer do.
THEOREM KernelQueuesWellFormed == Spec => []RunQueuesOK
<1>1. IInv => RunQueuesOK
  BY Zenon DEF IInv, Sound, RunQueuesOK
<1> QED
  BY <1>1, Invariance, PTL

\* A Blocked task is the current one, so no wakeup by unblock_tid can be lost.
THEOREM KernelBlockedIsCurrent == Spec => []BlockedIsCurrent
<1>1. IInv => BlockedIsCurrent
  BY Zenon DEF IInv, BlockedInv, BlockedIsCurrent
<1> QED
  BY <1>1, Invariance, PTL

\* A task in the table that has not exited is current, queued or being spawned.
THEOREM KernelLosesNoTask == Spec => []NoTaskLost
<1>1. IInv => NoTaskLost
  BY Zenon DEF IInv
<1> QED
  BY <1>1, Invariance, PTL

\* A task that wait removed from the table is not queued, not current, and the
\* CPU is not on the kernel stack that was freed with it.
THEOREM KernelReapsOnlyGone == Spec => []ReapedIsGone
<1>1. IInv => ReapedIsGone
  <2> SUFFICES ASSUME IInv, NEW t \in Tid \ table
               PROVE  ~Queued(s, t) /\ s.current # t /\ cpu # t
    BY Zenon DEF ReapedIsGone
  <2>1. Unborn(t) \/ (Left(t) /\ cpu # t)
    BY Zenon DEF IInv, TableInv, Unborn, Spawning
  <2> QED
    BY <2>1, Zenon DEF IInv, UnbornInv, LeftInv
<1> QED
  BY <1>1, Invariance, PTL

\* schedule() called by exit always switches away: its halt loop is not reached.
THEOREM KernelExitSwitches == Spec => []ExitSwitchesAway
<1>1. IInv => ExitSwitchesAway
  BY Zenon DEF IInv, LeftInv, ExitSwitchesAway
<1> QED
  BY <1>1, Invariance, PTL

\* The tasks of the pool that wait for the CPU.
Ready == {t \in Tid : Queued(s, t)}

\* What one step does to the pool: nothing, Admit, Dispatch or Leave.
PoolStep ==
    \/ Ready' = Ready /\ s'.current = s.current
    \/ \E t \in Tid \ Ready : t # s.current /\ Ready' = Ready \cup {t} /\ s'.current = s.current
    \/ \E t \in Ready : s'.current = t /\ Ready' = (Ready \ {t}) \cup ({s.current} \ {None})
    \/ s.current # None /\ s'.current = None /\ Ready' = Ready

\* schedule() dispatches a ready task or changes nothing that the pool sees.
LEMMA SchedulePool ==
    ASSUME IInv, NEW x, Sound(x), SameQueued(s, x), x.current = s.current, s' = Schedule(x)
    PROVE  PoolStep
<1>1. ScheduleEffect(x, s')
  BY ScheduleSound, Zenon
<1>2. CASE ~Switches(x)
  BY <1>1, <1>2, Zenon DEF ScheduleEffect, PoolStep, Ready, SameQueued
<1>3. CASE Switches(x)
  <2>1. s'.current \in Ready
    BY <1>1, <1>3, Zenon DEF ScheduleEffect, Ready, SameQueued
  <2>2. s.current \in Tid \cup {None}
    BY Zenon DEF IInv, Sound, SchedState
  <2>3. Ready' = (Ready \ {s'.current}) \cup ({s.current} \ {None})
    BY <1>1, <1>3, <2>2, TidFacts, ZenonT(60) DEF ScheduleEffect, Ready, SameQueued
  <2> QED
    BY <2>1, <2>3, Zenon DEF PoolStep
<1> QED
  BY <1>2, <1>3, Zenon

\* A mark of the running task's state does not touch the pool.
LEMMA MarkPool ==
    ASSUME IInv, corrupt = "no", NEW t \in Tid, WaitMark(t) \/ ExitMark(t)
    PROVE  PoolStep
<1>1. cpu = t /\ pc[t] \in {"wait_mark", "exit_mark"} /\ Sound(s)
  BY Zenon DEF WaitMark, ExitMark, At, IInv
<1>2. ~Queued(s, t)
  BY <1>1, Runs, Zenon
<1>3. s' = s \/ \E st \in TaskState : s' = SetState(s, t, st)
  BY Zenon DEF WaitMark, ExitMark, TaskState
<1>4. SameQueued(s, s') /\ s'.current = s.current
  <2>1. CASE s' = s
    BY <2>1, Zenon DEF SameQueued
  <2>2. ASSUME NEW st \in TaskState, s' = SetState(s, t, st)
        PROVE  SameQueued(s, s') /\ s'.current = s.current
    BY <1>1, <1>2, <2>2, SetStateSound, ZenonT(60)
  <2> QED
    BY <1>3, <2>1, <2>2, Zenon
<1> QED
  BY <1>4, Zenon DEF PoolStep, Ready, SameQueued

\* Every step of the kernel is a step of the pool.
LEMMA StepPool ==
    ASSUME IInv, [Next]_vars
    PROVE  PoolStep
<1>1. Sound(s)
  BY Zenon DEF IInv
<1>2. ASSUME s' = s PROVE PoolStep
  BY <1>2, Zenon DEF PoolStep, Ready
<1>3. ASSUME corrupt = "no", NEW t \in Tid, Begin(t) PROVE PoolStep
  <2>1. ASSUME NEW kind \in Kinds, NEW p \in SpawnPriorities, CallSpawn(t, kind, p)
        PROVE  PoolStep
    BY <1>3, <2>1, CallSpawnSound, Zenon DEF PoolStep, Ready, SameQueued
  <2> QED
    BY <1>2, <1>3, <2>1, Zenon DEF Begin, CallYield, CallExit, Halt, CallWait
<1>4. ASSUME corrupt = "no", NEW t \in Tid, Continue(t) PROVE PoolStep
  <2>1. CASE Sched(t)
    BY <1>1, <2>1, SchedulePool, Zenon DEF Sched, SameQueued
  <2>2. CASE SpawnPush(t)
    <3>1. PICK n \in Tid : /\ ~Queued(s, n) /\ n # s.current /\ s'.current = s.current
                           /\ \A u \in Tid : Queued(s', u) <=> Queued(s, u) \/ u = n
      BY <1>4, <2>2, SpawnPushSound, Zenon
    <3>2. n \in Tid \ Ready /\ Ready' = Ready \cup {n}
      BY <3>1, Zenon DEF Ready
    <3> QED
      BY <3>1, <3>2, Zenon DEF PoolStep
  <2>3. CASE ExitRemove(t)
    <3>1. s.current = t
      BY <1>4, <2>3, Runs, Zenon DEF ExitRemove, At
    <3>2. SameQueued(s, s') /\ s'.current = None
      BY <1>1, <2>3, RemoveCurrentSound, Zenon DEF ExitRemove
    <3> QED
      BY <3>1, <3>2, TidFacts, Zenon DEF PoolStep, Ready, SameQueued
  <2>4. CASE ExitWake(t)
    <3>1. cpu = t /\ pc[t] = "exit_wake" /\ s.current = t
      BY <1>4, <2>4, Runs, Zenon DEF ExitWake, At
    <3>2. \A u \in Tid : s.state[u] # "Blocked"
      BY <3>1, Zenon DEF IInv, BlockedInv
    <3>3. s' = s
      BY <2>4, <3>2, UnblockNothing, ZenonT(60) DEF ExitWake, IInv, TypeOK
    <3> QED
      BY <1>2, <3>3, Zenon
  <2>5. CASE Return(t) \/ Switch(t) \/ SpawnInsert(t) \/ WaitCheck(t) \/ ExitFind(t)
    <3>1. s' = s
      BY <2>5, Zenon DEF Return, Switch, SpawnInsert, WaitCheck, ExitFind
    <3> QED
      BY <1>2, <3>1, Zenon
  <2> QED
    BY <1>4, <2>1, <2>2, <2>3, <2>4, <2>5, MarkPool, Zenon DEF Continue
<1>5. CASE Timer
  BY <1>1, <1>5, TickSound, SchedulePool, Zenon DEF Timer
<1>6. CASE TimerBypassed
  BY <1>6, TimerBypassedSound, Zenon DEF PoolStep, Ready, SameQueued
<1> QED
  BY <1>2, <1>3, <1>4, <1>5, <1>6, Zenon DEF Next, vars

\* The kernel uses the scheduler as a task pool: spawn, exit, wait and the timer
\* together never drop, duplicate or invent a ready task.
THEOREM KernelRefinesPool == Spec => ImplementsPool
<1>1. Init => Pool!Init
  <2> SUFFICES ASSUME Init PROVE Pool!Init
    BY Zenon
  <2>1. s.current \in Tid
    BY TidFacts, Zenon DEF Init
  <2>2. ~Queued(s, s.current)
    BY InitSound, Zenon DEF IInv, Sound, RunQueuesWellFormed, Queued, Occurs
  <2> QED
    BY <2>1, <2>2, Zenon DEF Pool!Init
<1>2. IInv /\ [Next]_vars => [Pool!Next]_<<{t \in Tid : Queued(s, t)}, s.current>>
  BY StepPool, Zenon DEF PoolStep, Ready, Pool!Next, Pool!Admit, Pool!Dispatch, Pool!Leave
<1> QED
  BY <1>1, <1>2, Invariance, PTL DEF Spec, ImplementsPool, Pool!Spec

\* With the timer outside the switch window a context goes to its owner.
THEOREM KernelSavesContexts == SwitchShielded /\ Spec => []ContextSavedToOwner
<1> DEFINE P == SwitchShielded /\ IInv /\ ContextSavedToOwner
<1>1. SwitchShielded /\ Init => P
  BY InitSound, Zenon DEF Init, ContextSavedToOwner
<1>2. P /\ [Next]_vars => P'
  <2> SUFFICES ASSUME P, [Next]_vars PROVE ContextSavedToOwner'
    BY StepSound, Zenon DEF SwitchShielded
  <2>1. CASE Timer /\ corrupt = "no"
    <3>1. cpu \in Tid /\ pc[cpu] # "switch"
      BY <2>1, Zenon DEF Timer, SwitchShielded, IInv, TypeOK
    <3>2. s.current \in {cpu, None}
      BY <2>1, <3>1, Zenon DEF IInv, CpuInv
    <3> QED
      BY <2>1, <3>2, Zenon DEF Timer, ContextSavedToOwner, cpuVars
  <2>2. ASSUME NEW t \in Tid, Begin(t) PROVE ContextSavedToOwner'
    BY <2>2, Zenon DEF Begin, CallYield, CallExit, Halt, CallSpawn, CallWait, EnterKernel, cpuVars,
                ContextSavedToOwner
  <2>3. ASSUME NEW t \in Tid, Continue(t) PROVE ContextSavedToOwner'
    BY <2>3, Zenon DEF Continue, Return, Sched, Switch, SpawnInsert, SpawnPush, WaitCheck, WaitMark,
                ExitMark, ExitFind, ExitWake, ExitRemove, cpuVars, ContextSavedToOwner
  <2>4. CASE TimerBypassed \/ UNCHANGED vars
    BY <2>4, Zenon DEF TimerBypassed, vars, cpuVars, ContextSavedToOwner
  <2> QED
    BY <2>1, <2>2, <2>3, <2>4, Zenon DEF Next
<1>3. P => ContextSavedToOwner
  BY Zenon
<1> QED
  BY <1>1, <1>2, <1>3, PTL DEF Spec

\* A task inside exit has the CPU, and is a Zombie from the mark until wait
\* reaps it.
ExitInv ==
    /\ \A t \in Tid : pc[t] \in Leaving => t = cpu
    /\ \A t \in table : Left(t) \/ pc[t] \in Leaving => s.state[t] = "Zombie"

\* schedule() leaves a task alone that has left the scheduler.
LEMMA ScheduleLeavesAlone ==
    ASSUME IInv, NEW x, Sound(x), SameQueued(s, x), x.current = s.current,
           x.state = s.state, s' = Schedule(x), NEW u \in Tid, Left(u)
    PROVE  s'.state[u] = s.state[u]
<1>1. ScheduleEffect(x, s')
  BY ScheduleSound, Zenon
<1>2. ~Queued(s, u) /\ s.current # u
  BY Zenon DEF IInv, LeftInv
<1> QED
  BY <1>1, <1>2, Zenon DEF ScheduleEffect, SameQueued

\* A step on which no task enters exit or leaves.
LEMMA ExitKept ==
    ASSUME IInv, ExitInv, pc[cpu] \notin Leaving,
           \A u \in Tid : pc'[u] \notin Leaving \/ pc'[u] = pc[u],
           \A u \in Tid : Left(u)' => Left(u),
           \A u \in Tid : Left(u) => s'.state[u] = s.state[u],
           \A u \in table' : Left(u)' => u \in table,
           table' \subseteq Tid
    PROVE  ExitInv'
<1>1. \A u \in Tid : pc[u] \notin Leaving
  BY Zenon DEF ExitInv
<1> QED
  BY <1>1, Zenon DEF ExitInv

\* Every step keeps it.
LEMMA ExitStep ==
    ASSUME IInv, ExitShielded, ExitInv, [Next]_vars
    PROVE  ExitInv'
<1>1. /\ IInv' /\ TypeOK /\ Sound(s) /\ table \subseteq Tid /\ table' \subseteq Tid
      /\ cpu \in Tid /\ pc \in [Tid -> PC] /\ ret \in [Tid -> {"return", "wait_check", "dead"}]
  BY StepSound, Zenon DEF IInv, TypeOK
<1>2. ASSUME s' = s, table' = table, cpu' = cpu, pc' = pc, ret' = ret PROVE ExitInv'
  BY <1>2, Zenon DEF ExitInv, Left
<1>3. ASSUME corrupt = "no", NEW t \in Tid, Begin(t) PROVE ExitInv'
  <2>1. /\ cpu = t /\ pc[t] = "run" /\ table' = table /\ s'.state = s.state
        /\ ret' = ret \/ ret' = [ret EXCEPT ![t] = "return"]
    <3>1. ASSUME NEW kind \in Kinds, NEW p \in SpawnPriorities, CallSpawn(t, kind, p)
          PROVE  s'.state = s.state
      BY <1>1, <3>1, Zenon DEF CallSpawn, Sound, SchedState
    <3> QED
      BY <1>3, <3>1, Zenon DEF Begin, CallYield, CallExit, Halt, CallSpawn, CallWait, At, taskVars
  <2>2. PICK m \in {"sched", "exit_mark", "hlt", "spawn_insert", "wait_check"} :
           pc' = [pc EXCEPT ![t] = m] /\ (m = "sched" => ret'[t] = "return")
    BY <1>1, <1>3, Zenon DEF Begin, CallYield, CallExit, Halt, CallSpawn, CallWait, Goto
  <2>3. \A u \in Tid : /\ pc'[u] \notin Leaving \/ pc'[u] = pc[u]
                       /\ Left(u)' => Left(u)
    BY <1>1, <2>1, <2>2, Zenon DEF Left, Leaving
  <2> QED
    BY <1>1, <2>1, <2>3, ExitKept, Zenon DEF Leaving
<1>4. ASSUME corrupt = "no", NEW t \in Tid, Continue(t) PROVE ExitInv'
  <2>1. CASE ExitMark(t)
    <3>1. /\ cpu = t /\ pc[t] = "exit_mark" /\ cpu' = cpu /\ table' = table /\ ret' = ret
          /\ \A u \in Tid \ {t} : pc'[u] = pc[u] /\ s'.state[u] = s.state[u]
      BY <1>1, <2>1, SMTT(60) DEF ExitMark, At, Goto, SetState, Sound, SchedState, taskVars, cpuVars
    <3>2. pc'[t] \in Leaving /\ (t \in table => s'.state[t] = "Zombie")
      BY <1>1, <2>1, SMTT(60) DEF ExitMark, Goto, SetState, Sound, SchedState, Leaving
    <3>3. \A u \in Tid : pc[u] \notin Leaving
      BY <3>1, Zenon DEF ExitInv, Leaving
    <3> QED
      BY <1>1, <3>1, <3>2, <3>3, ZenonT(60) DEF ExitInv, Left, Leaving
  <2>2. CASE ExitFind(t) \/ ExitWake(t) \/ ExitRemove(t)
    <3>1. /\ cpu = t /\ pc[t] \in Leaving /\ cpu' = cpu /\ table' = table
          /\ \A u \in Tid \ {t} : pc'[u] = pc[u] /\ ret'[u] = ret[u]
          /\ pc'[t] \in Leaving \/ (pc'[t] = "sched" /\ ret'[t] = "dead")
      BY <1>1, <2>2, Zenon DEF ExitFind, ExitWake, ExitRemove, At, Goto, taskVars, cpuVars, Leaving
    <3>2. s'.state = s.state
      <4>1. s.current = t /\ \A u \in Tid : s.state[u] # "Blocked"
        BY <1>4, <3>1, Runs, Zenon DEF IInv, BlockedInv, Leaving
      <4> QED
        BY <1>1, <2>2, <4>1, UnblockNothing, RemoveCurrentSound, ZenonT(60) DEF ExitFind, ExitWake, ExitRemove
    <3> QED
      BY <1>1, <3>1, <3>2, Zenon DEF ExitInv, Left, Leaving
  <2>3. CASE Sched(t)
    <3>1. /\ cpu = t /\ pc[t] = "sched" /\ table' = table /\ ret' = ret /\ s' = Schedule(s)
          /\ pc' = [pc EXCEPT ![t] = IF Switches(s) THEN "switch" ELSE ret[t]]
      BY <2>3, Zenon DEF Sched, At, Goto, taskVars
    <3>2. \A u \in Tid : /\ pc'[u] \notin Leaving \/ pc'[u] = pc[u]
                         /\ Left(u)' => Left(u)
      BY <1>1, <3>1, Zenon DEF Left, Leaving
    <3>3. pc[cpu] \notin Leaving
      BY <3>1, Zenon DEF Leaving
    <3>4. \A u \in Tid : Left(u) => s'.state[u] = s.state[u]
      BY <1>1, <3>1, <3>3, ScheduleLeavesAlone, Zenon DEF SameQueued
    <3> QED
      BY <1>1, <3>1, <3>2, <3>3, <3>4, ExitKept, Zenon
  <2>4. CASE Switch(t)
    <3>1. /\ cpu = t /\ pc[t] = "switch" /\ table' = table /\ ret' = ret /\ s' = s
          /\ pc' = [pc EXCEPT ![t] = ret[t]]
      BY <2>4, Zenon DEF Switch, At, Goto, taskVars
    <3>2. \A u \in Tid : /\ pc'[u] \notin Leaving \/ pc'[u] = pc[u]
                         /\ Left(u)' => Left(u)
      BY <1>1, <3>1, Zenon DEF Left, Leaving
    <3> QED
      BY <1>1, <3>1, <3>2, ExitKept, Zenon DEF Leaving
  <2>5. CASE Return(t) \/ SpawnInsert(t) \/ SpawnPush(t) \/ WaitCheck(t) \/ WaitMark(t)
    <3>1. /\ cpu = t /\ ~Left(t)
          /\ pc[t] \in {"return", "spawn_insert", "spawn_push", "wait_check", "wait_mark"}
      <4>1. /\ cpu = t
            /\ pc[t] \in {"return", "spawn_insert", "spawn_push", "wait_check", "wait_mark"}
        BY <2>5, Zenon DEF Return, SpawnInsert, SpawnPush, WaitCheck, WaitMark, At
      <4> QED
        BY <4>1, Zenon DEF Left
    <3>2. PICK m \in {"run", "spawn_push", "return", "wait_mark", "sched"} :
             pc' = [pc EXCEPT ![t] = m] /\ (m = "sched" => ret'[t] = "wait_check")
      BY <1>1, <2>5, Zenon DEF Return, SpawnInsert, SpawnPush, WaitCheck, WaitMark, Goto
    <3>3. \A u \in Tid \ {t} : ret'[u] = ret[u] /\ s'.state[u] = s.state[u]
      <4>1. s \in SchedState
        BY <1>1, Zenon DEF Sound
      <4>2. \A u \in Tid \ {t} : ret'[u] = ret[u]
        BY <1>1, <2>5, Zenon DEF Return, SpawnInsert, SpawnPush, WaitCheck, WaitMark
      <4>3. CASE SpawnPush(t)
        BY <4>1, <4>2, <4>3, Zenon DEF SpawnPush, Push, SchedState
      <4>4. CASE WaitMark(t)
        BY <4>1, <4>2, <4>4, Zenon DEF WaitMark, SetState, SchedState
      <4>5. CASE Return(t) \/ SpawnInsert(t) \/ WaitCheck(t)
        BY <4>2, <4>5, Zenon DEF Return, SpawnInsert, WaitCheck
      <4> QED
        BY <2>5, <4>3, <4>4, <4>5, Zenon
    <3>4. \A u \in Tid : /\ pc'[u] \notin Leaving \/ pc'[u] = pc[u]
                         /\ Left(u)' => Left(u)
      BY <1>1, <3>1, <3>2, <3>3, Zenon DEF Left, Leaving
    <3>5. \A u \in table' : Left(u)' => u \in table
      <4>1. CASE SpawnInsert(t)
        <5>1. table' = table \cup {local[t]} /\ pc[t] = "spawn_insert"
          BY <4>1, Zenon DEF SpawnInsert, At
        <5>2. local[t] \in Tid /\ pc[local[t]] = "run"
          BY <5>1, Zenon DEF IInv, SpawnInv, UnbornInv, Unborn, Spawning
        <5>3. ~Left(local[t])
          BY <5>2, Zenon DEF Left
        <5> QED
          BY <3>4, <5>1, <5>2, <5>3, Zenon
      <4>2. CASE ~SpawnInsert(t)
        BY <2>5, <4>2, Zenon DEF Return, SpawnPush, WaitCheck, WaitMark, taskVars
      <4> QED
        BY <4>1, <4>2, Zenon
    <3> QED
      BY <1>1, <3>1, <3>3, <3>4, <3>5, ExitKept, ZenonT(60) DEF Leaving
  <2> QED
    BY <1>4, <2>1, <2>2, <2>3, <2>4, <2>5, ZenonT(60) DEF Continue
<1>5. CASE Timer /\ corrupt = "no"
  <2>1. /\ pc[cpu] \notin Leaving /\ s' = Schedule(Tick(s)) /\ table' = table /\ ret' = ret
        /\ \/ pc' = pc
           \/ s.current = None /\ pc' = [pc EXCEPT ![cpu] = "dead"]
    BY <1>5, Zenon DEF Timer, ExitShielded, taskVars
  <2>2. s.current = None => Left(cpu)
    BY <1>1, <1>5, TidFacts, Zenon DEF IInv, CpuInv, Left
  <2>3. \A u \in Tid : /\ pc'[u] \notin Leaving \/ pc'[u] = pc[u]
                       /\ Left(u)' => Left(u)
    BY <1>1, <2>1, <2>2, Zenon DEF Left, Leaving
  <2>4. \A u \in Tid : Left(u) => s'.state[u] = s.state[u]
    BY <1>1, <2>1, TickSound, ScheduleLeavesAlone, Zenon
  <2> QED
    BY <1>1, <2>1, <2>3, <2>4, ExitKept, Zenon
<1>6. CASE TimerBypassed
  BY <1>1, <1>6, TickSound, Zenon DEF TimerBypassed, ExitInv, Left, taskVars, cpuVars
<1> QED
  BY <1>2, <1>3, <1>4, <1>5, <1>6, ZenonT(60) DEF Next, vars

\* A task that has left and is not reaped is a Zombie, so that wait finds its
\* exit, provided the timer stays out of exit.
THEOREM KernelExitsObservable == ExitShielded /\ Spec => []ExitIsObservable
<1>1. ExitShielded /\ Init => ExitShielded /\ IInv /\ ExitInv
  <2> SUFFICES ASSUME Init PROVE ExitInv
    BY InitSound, Zenon
  <2>1. \A u \in Tid : pc[u] \in {"run", "hlt"}
    BY Zenon DEF Init
  <2> QED
    BY <2>1, TidFacts, Zenon DEF Init, ExitInv, Left, Leaving
<1>2. ExitShielded /\ IInv /\ ExitInv /\ [Next]_vars => (ExitShielded /\ IInv /\ ExitInv)'
  BY StepSound, ExitStep, Zenon DEF ExitShielded, Leaving
<1>3. ExitInv => ExitIsObservable
  BY Zenon DEF ExitInv, ExitIsObservable
<1> QED
  BY <1>1, <1>2, <1>3, PTL DEF Spec

\* Task t is in a system call from which it returns.
Inside(t) ==
    \/ pc[t] \in {"return", "spawn_insert", "spawn_push", "wait_check", "wait_mark"}
    \/ pc[t] \in {"sched", "switch"} /\ ret[t] # "dead"

\* While a ring-3 task is inside the kernel GS_BASE is its scratch area, and only
\* a task that may yield or wait is inside without having the CPU; in ring 3
\* KERNEL_GS_BASE is the scratch area of the task that runs.
GsInv ==
    /\ corrupt # "stack"
    /\ ~user[Boot] /\ ~user[Idle]
    /\ \A t \in Tid : user[t] /\ Inside(t) =>
          /\ gs = t
          /\ \/ t \in Yielders \cup Waiters
             \/ cpu = t /\ ~intr /\ pc[t] \in {"return", "spawn_insert", "spawn_push"}
    /\ user[cpu] /\ pc[cpu] = "run" => kgs = cpu

\* syscall_entry finds the stack of the task that enters.
LEMMA Enters ==
    ASSUME IInv, GsInv, Ring3Alone, NEW t \in Tid, cpu = t, pc[t] = "run", EnterKernel(t)
    PROVE  /\ corrupt' = corrupt /\ cpu' = cpu
           /\ user[t] => gs' = t /\ ~intr' /\ \A u \in Tid \ {t} : ~(user[u] /\ Inside(u))
           /\ ~user[t] => gs' = gs /\ kgs' = kgs /\ intr' = intr
<1>1. user[t] => \A u \in Tid \ {t} : ~(user[u] /\ Inside(u))
  BY Zenon DEF GsInv, Ring3Alone
<1> QED
  BY <1>1, Zenon DEF EnterKernel, GsInv, cpuVars

\* A step of task t inside the kernel that leaves the processor state alone.
LEMMA GsMoves ==
    ASSUME IInv, GsInv, NEW t \in Tid, cpu = t, cpu' = t, corrupt' = corrupt,
           gs' = gs, kgs' = kgs, intr' = intr, user' = user,
           \A u \in Tid \ {t} : pc'[u] = pc[u] /\ ret'[u] = ret[u],
           user[t] /\ Inside(t)' =>
              /\ Inside(t)
              /\ \/ t \in Yielders \cup Waiters
                 \/ pc'[t] \in {"return", "spawn_insert", "spawn_push"},
           user[t] => pc'[t] # "run"
    PROVE  GsInv'
<1>1. \A u \in Tid \ {t} : Inside(u)' <=> Inside(u)
  BY Zenon DEF Inside
<1> QED
  BY <1>1, Zenon DEF GsInv

\* Every step keeps the invariant of the GS bases.
LEMMA GsStep ==
    ASSUME IInv, GsInv, Ring3Alone, [Next]_vars
    PROVE  GsInv'
<1>1. /\ TypeOK /\ Sound(s) /\ cpu \in Tid /\ user \in [Tid -> BOOLEAN]
      /\ pc \in [Tid -> PC] /\ ret \in [Tid -> {"return", "wait_check", "dead"}]
  BY Zenon DEF IInv, TypeOK
<1>2. ASSUME UNCHANGED <<user, cpu, intr, gs, kgs, pc, ret, corrupt>> PROVE GsInv'
  BY <1>2, Zenon DEF GsInv, Inside
<1>3. ASSUME corrupt = "no", NEW t \in Tid, Begin(t) PROVE GsInv'
  <2>1. cpu = t /\ pc[t] = "run"
    BY <1>3, Zenon DEF Begin, CallYield, CallExit, Halt, CallSpawn, CallWait, At
  <2>2. CASE Halt(t)
    <3>1. t = Boot /\ UNCHANGED <<cpu, intr, gs, kgs, corrupt, user, ret>>
      BY <2>2, Zenon DEF Halt, taskVars, cpuVars
    <3>2. pc' = [pc EXCEPT ![t] = "hlt"]
      BY <2>2, Zenon DEF Halt, Goto
    <3> QED
      BY <1>1, <2>1, <3>1, <3>2, GsMoves, Zenon DEF GsInv
  <2>3. ASSUME EnterKernel(t),
               NEW m \in {"sched", "exit_mark", "spawn_insert", "wait_check"},
               pc' = [pc EXCEPT ![t] = m],
               ret' = ret \/ ret' = [ret EXCEPT ![t] = "return"],
               m \in {"sched", "wait_check"} => t \in Yielders \cup Waiters,
               \A u \in Tid : user'[u] => user[u] \/ (u # cpu /\ pc[u] = "run" /\ u \notin {Boot, Idle})
        PROVE  GsInv'
    <3>1. /\ corrupt' = corrupt /\ cpu' = cpu
          /\ user[t] => gs' = t /\ ~intr' /\ \A u \in Tid \ {t} : ~(user[u] /\ Inside(u))
          /\ ~user[t] => gs' = gs /\ kgs' = kgs /\ intr' = intr
      BY <2>1, <2>3, Enters, Zenon
    <3>2. \A u \in Tid \ {t} : pc'[u] = pc[u] /\ ret'[u] = ret[u] /\ (Inside(u)' <=> Inside(u))
      BY <1>1, <2>3, Zenon DEF Inside
    <3>3. pc'[t] = m
      BY <1>1, <2>3, Zenon
    <3>4. user'[t] => user[t]
      BY <2>1, <2>3, Zenon
    <3>5. \A u \in Tid : u # t /\ user'[u] /\ Inside(u)' => user[u] /\ Inside(u)
      BY <2>3, <3>2, Zenon DEF Inside
    <3>6. ASSUME NEW u \in Tid, user'[u], Inside(u)'
          PROVE  /\ gs' = u
                 /\ \/ u \in Yielders \cup Waiters
                    \/ cpu' = u /\ ~intr' /\ pc'[u] \in {"return", "spawn_insert", "spawn_push"}
      <4>1. CASE u = t
        BY <2>1, <2>3, <3>1, <3>3, <3>4, <3>6, <4>1, ZenonT(60) DEF Inside
      <4>2. CASE u # t
        BY <2>1, <3>1, <3>2, <3>5, <3>6, <4>2, ZenonT(60) DEF GsInv
      <4> QED
        BY <4>1, <4>2, Zenon
    <3>7. ~user'[Boot] /\ ~user'[Idle]
      BY <2>3, TidFacts, Zenon DEF GsInv
    <3> QED
      BY <1>3, <2>1, <3>1, <3>3, <3>6, <3>7, ZenonT(60) DEF GsInv
  <2>4. CASE CallYield(t)
    BY <1>3, <2>3, <2>4, Zenon DEF CallYield, Goto, taskVars
  <2>5. CASE CallExit(t)
    BY <1>3, <2>3, <2>5, Zenon DEF CallExit, Goto, taskVars
  <2>6. ASSUME NEW tgt \in Targets, CallWait(t, tgt) PROVE GsInv'
    BY <1>3, <2>3, <2>6, Zenon DEF CallWait, Goto, taskVars
  <2>7. ASSUME NEW kind \in Kinds, NEW p \in SpawnPriorities, CallSpawn(t, kind, p) PROVE GsInv'
    <3>1. nextTid \in Tid /\ nextTid # cpu /\ pc[nextTid] = "run" /\ nextTid \notin {Boot, Idle}
      BY <1>1, <2>7, KernelAssumption, SMTT(60) DEF IInv, UnbornInv, Unborn, TypeOK, CallSpawn, Boot, Idle
    <3>2. \A u \in Tid \ {nextTid} : user'[u] = user[u]
      BY <1>1, <2>7, Zenon DEF CallSpawn
    <3> QED
      BY <1>3, <2>3, <2>7, <3>1, <3>2, ZenonT(60) DEF CallSpawn, Goto
  <2> QED
    BY <1>3, <2>2, <2>4, <2>5, <2>6, <2>7, Zenon DEF Begin
<1>4. ASSUME corrupt = "no", NEW t \in Tid, Continue(t) PROVE GsInv'
  <2>1. cpu = t /\ user' = user /\ corrupt' = corrupt
    BY <1>4, Zenon DEF Continue, Return, Sched, Switch, SpawnInsert, SpawnPush, WaitCheck, WaitMark,
                ExitMark, ExitFind, ExitWake, ExitRemove, At, taskVars, cpuVars
  <2>2. CASE Return(t)
    <3>1. /\ pc[t] = "return" /\ pc' = [pc EXCEPT ![t] = "run"] /\ cpu' = cpu
          /\ ret' = [ret EXCEPT ![t] = "return"]
      BY <2>2, Zenon DEF Return, At, Goto, cpuVars
    <3>2. pc'[t] = "run" /\ \A u \in Tid \ {t} : pc'[u] = pc[u] /\ (Inside(u)' <=> Inside(u))
      BY <1>1, <3>1, Zenon DEF Inside
    <3>3. CASE user[t]
      <4>1. gs = t
        BY <3>1, <3>3, Zenon DEF GsInv, Inside
      <4>2. kgs' = t /\ \A u \in Tid : ~(user[u] /\ Inside(u)')
        BY <2>2, <3>2, <3>3, <4>1, Zenon DEF Return, GsInv, Inside
      <4> QED
        BY <1>4, <2>1, <3>1, <3>2, <4>2, Zenon DEF GsInv
    <3>4. CASE ~user[t]
      <4>1. gs' = gs /\ kgs' = kgs /\ intr' = intr
        BY <2>2, <3>4, Zenon DEF Return, cpuVars
      <4> QED
        BY <1>1, <2>1, <3>1, <3>2, <3>4, <4>1, GsMoves, ZenonT(60)
    <3> QED
      BY <3>3, <3>4, Zenon
  <2>3. CASE Switch(t)
    <3>1. /\ pc[t] = "switch" /\ pc' = [pc EXCEPT ![t] = ret[t]] /\ ret' = ret
          /\ cpu' = s.current /\ kgs' = s.current /\ gs' = gs
      BY <2>3, Zenon DEF Switch, At, Goto, Load
    <3>2. \A u \in Tid : Inside(u)' => Inside(u)
      BY <1>1, <3>1, Zenon DEF Inside
    <3>3. \A u \in Tid : user[u] /\ Inside(u) => gs = u /\ u \in Yielders \cup Waiters
      BY <2>1, <3>1, Zenon DEF GsInv
    <3> QED
      BY <1>4, <2>1, <3>1, <3>2, <3>3, Zenon DEF GsInv
  <2>4. CASE ~Return(t) /\ ~Switch(t)
    <3>1. cpu' = cpu /\ intr' = intr /\ gs' = gs /\ kgs' = kgs
      BY <1>4, <2>4, Zenon DEF Continue, Sched, SpawnInsert, SpawnPush, WaitCheck, WaitMark,
                        ExitMark, ExitFind, ExitWake, ExitRemove, cpuVars
    <3>2. \A u \in Tid \ {t} : pc'[u] = pc[u] /\ ret'[u] = ret[u]
      BY <1>1, <1>4, <2>4, Zenon DEF Continue, Sched, SpawnInsert, SpawnPush, WaitCheck, WaitMark,
                        ExitMark, ExitFind, ExitWake, ExitRemove, Goto
    <3>3. \/ pc[t] \in {"spawn_insert", "spawn_push"} /\ pc'[t] \in {"spawn_push", "return"}
          \/ /\ pc[t] \in {"wait_check", "wait_mark"}
             /\ pc'[t] \in {"return", "wait_mark", "sched"}
          \/ pc[t] = "sched" /\ pc'[t] \in {"switch", ret[t]} /\ ret' = ret
          \/ pc'[t] \in Leaving
          \/ pc'[t] = "sched" /\ ret'[t] = "dead"
      BY <1>1, <1>4, <2>4, Zenon DEF Continue, Sched, SpawnInsert, SpawnPush, WaitCheck, WaitMark,
                        ExitMark, ExitFind, ExitWake, ExitRemove, Goto, At, Leaving
    <3>4. pc'[t] # "run"
      BY <1>1, <3>3, Zenon DEF Leaving
    <3>5. Inside(t)' => /\ Inside(t)
                        /\ \/ pc[t] \notin {"return", "spawn_insert", "spawn_push"}
                           \/ pc'[t] \in {"return", "spawn_insert", "spawn_push"}
      BY <1>1, <3>3, Zenon DEF Inside, Leaving
    <3>6. user[t] /\ Inside(t)' =>
              /\ Inside(t)
              /\ \/ t \in Yielders \cup Waiters
                 \/ pc'[t] \in {"return", "spawn_insert", "spawn_push"}
      BY <3>5, Zenon DEF GsInv
    <3> QED
      BY <2>1, <3>1, <3>2, <3>4, <3>6, GsMoves, ZenonT(60)
  <2> QED
    BY <2>2, <2>3, <2>4, Zenon
<1>5. CASE Timer /\ corrupt = "no"
  <2>1. user' = user /\ ret' = ret /\ intr
    BY <1>5, Zenon DEF Timer, taskVars
  <2>2. CASE ~Switches(Tick(s))
    BY <1>2, <1>5, <2>1, <2>2, Zenon DEF Timer, cpuVars
  <2>3. CASE Switches(Tick(s))
    <3>1. /\ cpu' = s'.current /\ kgs' = s'.current /\ gs' = gs
          /\ pc' = pc \/ pc' = [pc EXCEPT ![cpu] = "dead"]
          /\ corrupt' \in {corrupt, "context"}
      BY <1>5, <2>3, Zenon DEF Timer, Load
    <3>2. \A u \in Tid : Inside(u)' => Inside(u)
      BY <1>1, <2>1, <3>1, Zenon DEF Inside
    <3>3. \A u \in Tid : user[u] /\ Inside(u) => gs = u /\ u \in Yielders \cup Waiters
      BY <2>1, Zenon DEF GsInv
    <3> QED
      BY <1>5, <2>1, <3>1, <3>2, <3>3, Zenon DEF GsInv
  <2> QED
    BY <2>2, <2>3, Zenon
<1>6. CASE TimerBypassed
  BY <1>2, <1>6, Zenon DEF TimerBypassed, taskVars, cpuVars
<1> QED
  BY <1>2, <1>3, <1>4, <1>5, <1>6, Zenon DEF Next, vars

\* syscall_entry finds the kernel stack of the task that enters, as long as no
\* task yields or waits in a system call while another task lives in ring 3.
THEOREM KernelEntersOnOwnStack == Spec /\ []Ring3Alone => []SyscallOnOwnStack
<1>1. Init => IInv /\ GsInv
  <2> SUFFICES ASSUME Init PROVE GsInv
    BY InitSound, Zenon
  <2>1. \A u \in Tid : ~user[u]
    BY Zenon DEF Init
  <2> QED
    BY <2>1, TidFacts, Zenon DEF Init, GsInv
<1>2. IInv /\ GsInv /\ Ring3Alone /\ [Next]_vars => (IInv /\ GsInv)'
  BY StepSound, GsStep, Zenon
<1>3. GsInv => SyscallOnOwnStack
  BY Zenon DEF GsInv, SyscallOnOwnStack
<1> QED
  BY <1>1, <1>2, <1>3, PTL DEF Spec
=============================================================================
