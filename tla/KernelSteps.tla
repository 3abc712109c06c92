---------------------------- MODULE KernelSteps ----------------------------
(***************************************************************************)
(* The inductive invariant of the task lifecycle, and that the steps of    *)
(* yield, wait and exit, on which the current task stays or leaves, and of *)
(* spawn, schedule() and switch_to keep it.                                *)
(***************************************************************************)
EXTENDS Kernel, MlfqProofs

\* Task u has created a task that no queue holds yet.
Spawning(u) == pc[u] \in {"spawn_insert", "spawn_push"}

\* Tid v is not given out yet, or its task is still to be pushed.
Unborn(v) == v >= nextTid \/ \E u \in Tid : Spawning(u) /\ local[u] = v

\* The tid a spawning task holds is given out, and no other task holds it.
SpawnInv ==
    /\ \A u \in Tid : Spawning(u) => local[u] \in Tid /\ local[u] < nextTid
    /\ \A u, w \in Tid : Spawning(u) /\ Spawning(w) /\ local[u] = local[w] => u = w

\* The scheduler has not seen an unborn task, and it has not run.
UnbornInv ==
    \A v \in Tid : Unborn(v) =>
        ~Queued(s, v) /\ s.current # v /\ s.state[v] = "Ready" /\ cpu # v /\ pc[v] = "run"

\* Idle never leaves the scheduler, so there is always a task to switch to.
IdleInv == pc[Idle] = "hlt" /\ (Queued(s, Idle) \/ s.current = Idle)

\* A Blocked task is current and about to call schedule().
BlockedInv == \A t \in Tid : s.state[t] = "Blocked" => t = s.current /\ pc[t] = "sched"

\* A task that has left is in no queue and not current, and no task follows it
\* without a request to switch.
LeftInv ==
    /\ \A t \in Tid : Left(t) => ~Queued(s, t) /\ s.current # t
    /\ pc[cpu] # "dead"
    /\ s.current = None => s.needs_reschedule

\* The CPU is on the stack of the current task, except between prepare_switch
\* and switch_to and after remove_current.
CpuInv ==
    corrupt = "no" =>
      /\ \A t \in Tid \ {cpu} : pc[t] # "switch"
      /\ \/ s.current = cpu /\ pc[cpu] # "switch"
         \/ pc[cpu] = "switch" /\ s.current \in Tid \ {cpu}
         \/ s.current = None /\ pc[cpu] = "sched" /\ ret[cpu] = "dead"

\* A task outside the table is not inserted yet, or has left and was reaped.
TableInv ==
    \A t \in Tid \ table :
        \/ t >= nextTid
        \/ \E u \in Tid : pc[u] = "spawn_insert" /\ local[u] = t
        \/ Left(t) /\ cpu # t

\* A Zombie has left, or is current and on its way out.
ZombieInv ==
    \A t \in Tid : s.state[t] = "Zombie" =>
        Left(t) \/ (t = s.current /\ pc[t] \in {"exit_find", "exit_wake", "exit_remove"})

\* The inductive invariant.
IInv ==
    /\ TypeOK /\ Sound(s)
    /\ SpawnInv /\ UnbornInv /\ IdleInv /\ BlockedInv
    /\ LeftInv /\ CpuInv /\ TableInv /\ ZombieInv /\ NoTaskLost

\* Boot and Idle are different tasks, and tids are natural numbers.
LEMMA TidFacts ==
    /\ Tid \subseteq Nat /\ Boot \in Tid /\ Idle \in Tid /\ Boot # Idle
    /\ None \notin Tid
BY KernelAssumption, MlfqAssumption, SMTT(60) DEF Boot, Idle

\* scheduler::init establishes the invariant.
LEMMA InitSound == Init => IInv
<1> SUFFICES ASSUME Init PROVE IInv
  BY Zenon
<1>1. /\ s.queues = [i \in Level |-> IF i = NumQueues - 1 THEN <<Idle>> ELSE << >>]
      /\ s.current = Boot
      /\ s.state = [t \in Tid |-> IF t = Boot THEN "Running" ELSE "Ready"]
      /\ s.priority = [t \in Tid |-> IF t = Idle THEN NumQueues - 1 ELSE 0]
  BY Zenon DEF Init
<1>2. TimeSlice(0) \in Nat /\ 0 \in 0..(BoostPeriod - 1)
  BY MlfqAssumption, SMTT(60) DEF TimeSlice
<1>3. s.queues \in [Level -> Seq(Tid)]
  BY <1>1, TidFacts, SMTT(60)
<1>4. /\ s.state \in [Tid -> TaskState]
      /\ s.priority \in [Tid -> Priority]
      /\ \A t \in Tid : s.priority[t] \in Level
  BY <1>1, LevelFacts, Zenon DEF TaskState
<1>5. s \in SchedState
  BY <1>1, <1>2, <1>3, <1>4, TidFacts, Zenon DEF SchedState, Init
<1>6. \A i \in Level : \A m \in 1..Len(s.queues[i]) :
        i = NumQueues - 1 /\ m = 1 /\ s.queues[i][m] = Idle
  BY <1>1, SMTT(60)
<1>7. s.priority[Idle] = NumQueues - 1 /\ s.state[Idle] = "Ready" /\ Idle # s.current
  BY <1>1, TidFacts, Zenon
<1>8. RunQueuesWellFormed(s)
  <2>1. \A i, j \in Level : \A m \in 1..Len(s.queues[i]), n \in 1..Len(s.queues[j]) :
           i = j /\ m = n
    BY <1>6, Zenon
  <2>2. \A i \in Level : \A m \in 1..Len(s.queues[i]) :
           /\ s.priority[s.queues[i][m]] = i
           /\ s.state[s.queues[i][m]] = "Ready"
           /\ s.queues[i][m] # s.current
    BY <1>6, <1>7, Zenon
  <2> QED
    BY <2>1, <2>2, SMTT(60) DEF RunQueuesWellFormed
<1>9. Sound(s)
  BY <1>4, <1>5, <1>8, Zenon DEF Sound
<1>10. \A t \in Tid : Queued(s, t) <=> t = Idle
  <2>1. \A t \in Tid : Queued(s, t) => t = Idle
    BY <1>6, Zenon DEF Queued, Occurs
  <2>2. s.queues[NumQueues - 1] = <<Idle>>
    BY <1>1, LevelFacts, Zenon
  <2>3. 1 \in 1..Len(s.queues[NumQueues - 1]) /\ s.queues[NumQueues - 1][1] = Idle
    BY <2>2, SMTT(60)
  <2>4. Queued(s, Idle)
    BY <2>3, LevelFacts, Zenon DEF Queued, Occurs
  <2> QED
    BY <2>1, <2>4, Zenon
<1>11. \A u \in Tid : pc[u] = IF u = Idle THEN "hlt" ELSE "run"
  BY Zenon DEF Init
<1>12. TypeOK
  <2>1. nextTid \in 3..(MaxTid + 1)
    BY KernelAssumption, SMTT(60) DEF Init
  <2>2. target \in [Tid -> Target]
    BY TidFacts, Zenon DEF Init, NoTarget, Target
  <2>3. pc \in [Tid -> PC]
    BY Zenon DEF Init, PC
  <2> QED
    BY <1>5, <2>1, <2>2, <2>3, TidFacts, Zenon DEF Init, TypeOK
<1>13. SpawnInv
  BY <1>11, Zenon DEF SpawnInv, Spawning
<1>14. UnbornInv
  <2>1. \A v \in Tid : Unborn(v) => v >= 3
    BY <1>11, Zenon DEF Unborn, Spawning, Init
  <2>2. \A v \in Tid : v >= 3 => v # Boot /\ v # Idle
    BY TidFacts, SMTT(60) DEF Boot, Idle
  <2>3. cpu = Boot
    BY Zenon DEF Init
  <2> QED
    BY <1>1, <1>10, <1>11, <2>1, <2>2, <2>3, Zenon DEF UnbornInv
<1>15. IdleInv /\ BlockedInv
  BY <1>1, <1>10, <1>11, TidFacts, Zenon DEF IdleInv, BlockedInv
<1>16. \A t \in Tid : ~Left(t)
  BY <1>11, Zenon DEF Left
<1>17. LeftInv /\ CpuInv
  BY <1>1, <1>11, <1>16, TidFacts, Zenon DEF LeftInv, CpuInv, Init
<1>18. TableInv
  <2>1. table = {1, 2} /\ nextTid = 3
    BY Zenon DEF Init, Boot, Idle
  <2>2. \A t \in Tid \ {1, 2} : t >= 3
    BY KernelAssumption, SMTT(60)
  <2> QED
    BY <2>1, <2>2, Zenon DEF TableInv
<1>19. ZombieInv /\ NoTaskLost
  BY <1>1, <1>10, TidFacts, Zenon DEF ZombieInv, NoTaskLost, Init
<1> QED
  BY <1>9, <1>12, <1>13, <1>14, <1>15, <1>17, <1>18, <1>19, Zenon DEF IInv

\* A step of the running task t after which it still runs, and that changes
\* nothing about the other tasks or the queues.
Stays(t) ==
    /\ cpu = t /\ s.current = t /\ t # Idle
    /\ cpu' = cpu /\ nextTid' = nextTid /\ table' = table
    /\ Sound(s') /\ SameQueued(s, s') /\ s'.current = s.current
    /\ \A u \in Tid \ {t} :
          pc'[u] = pc[u] /\ ret'[u] = ret[u] /\ local'[u] = local[u] /\ s'.state[u] = s.state[u]
    /\ ~Spawning(t) /\ ~Spawning(t)'
    /\ ~Left(t) /\ ~Left(t)' /\ pc'[t] # "switch"
    /\ s'.state[t] = "Blocked" => pc'[t] = "sched"
    /\ s'.state[t] = "Zombie" => pc'[t] \in {"exit_find", "exit_wake", "exit_remove"}

LEMMA StaysSound ==
    ASSUME IInv, TypeOK', corrupt = "no", NEW t \in Tid, Stays(t)
    PROVE  IInv'
<1>1. /\ \A u \in Tid : Spawning(u)' <=> Spawning(u)
      /\ \A u \in Tid : Spawning(u) => local'[u] = local[u]
  BY Zenon DEF Stays, Spawning
<1>2. \A u \in Tid : Left(u)' <=> Left(u)
  BY Zenon DEF Stays, Left
<1>3. \A v \in Tid : Unborn(v)' <=> Unborn(v)
  BY <1>1, Zenon DEF Unborn, Stays
<1>4. SpawnInv'
  BY <1>1, SMTT(60) DEF IInv, SpawnInv, Stays
<1>5. UnbornInv'
  BY <1>3, ZenonT(60) DEF IInv, UnbornInv, Stays, SameQueued
<1>6. IdleInv'
  BY TidFacts, Zenon DEF IInv, IdleInv, Stays, SameQueued
<1>7. BlockedInv'
  BY Zenon DEF IInv, BlockedInv, Stays
<1>8. LeftInv'
  BY <1>2, TidFacts, SMTT(60) DEF IInv, LeftInv, Stays, SameQueued, Left
<1>9. CpuInv'
  BY Zenon DEF IInv, CpuInv, Stays
<1>10. TableInv'
  <2>1. \A u \in Tid : pc[u] = "spawn_insert" => pc'[u] = "spawn_insert" /\ local'[u] = local[u]
    BY Zenon DEF Stays, Spawning
  <2> QED
    BY <1>2, <2>1, SMTT(60) DEF IInv, TableInv, Stays
<1>11. ZombieInv'
  BY <1>2, Zenon DEF IInv, ZombieInv, Stays
<1>12. NoTaskLost'
  <2>1. \A u \in Tid : pc[u] = "spawn_push" => pc'[u] = "spawn_push" /\ local'[u] = local[u]
    BY Zenon DEF Stays, Spawning
  <2>2. table \subseteq Tid
    BY Zenon DEF IInv, TypeOK
  <2> QED
    BY <1>2, <2>1, <2>2, SMTT(60) DEF IInv, NoTaskLost, Stays, SameQueued
<1> QED
  BY <1>4, <1>5, <1>6, <1>7, <1>8, <1>9, <1>10, <1>11, <1>12, Zenon DEF IInv, Stays


\* A running task that is not in schedule() is the current one.
LEMMA Runs ==
    ASSUME IInv, corrupt = "no", NEW t \in Tid, cpu = t,
           pc[t] \notin {"switch", "sched", "hlt"}
    PROVE  /\ s.current = t /\ t # Idle
           /\ ~Queued(s, t) /\ ~Unborn(t) /\ ~Left(t)
           /\ s.state[t] # "Blocked"
           /\ s.state[t] = "Zombie" => pc[t] \in {"exit_find", "exit_wake", "exit_remove"}
<1>1. s.current = t
  BY Zenon DEF IInv, CpuInv
<1>2. t # Idle
  BY Zenon DEF IInv, IdleInv
<1>3. ~Queued(s, t)
  BY <1>1, SMTT(60) DEF IInv, Sound, RunQueuesWellFormed, Queued, Occurs
<1>4. ~Unborn(t)
  BY Zenon DEF IInv, UnbornInv
<1>5. ~Left(t)
  BY <1>1, Zenon DEF IInv, LeftInv
<1>6. s.state[t] # "Blocked"
  BY Zenon DEF IInv, BlockedInv
<1> QED
  BY <1>1, <1>2, <1>3, <1>4, <1>5, <1>6, Zenon DEF IInv, ZombieInv

\* System call entry moves no task and keeps the types.
LEMMA EnterTypes ==
    ASSUME TypeOK, NEW t, EnterKernel(t)
    PROVE  /\ cpu' = cpu /\ ctx' = ctx
           /\ intr' \in BOOLEAN
           /\ gs' \in Tid \cup {None} /\ kgs' \in Tid \cup {None}
           /\ corrupt' \in {"no", "context", "stack"}
BY Zenon DEF TypeOK, EnterKernel, cpuVars

\* Task t goes from l to m while the scheduler stays as it is.
LEMMA MovesOn ==
    ASSUME IInv, TypeOK', corrupt = "no", NEW t \in Tid, NEW m, At(t, pc[t]), Goto(t, m),
           pc[t] \notin {"switch", "sched", "hlt", "spawn_insert", "spawn_push"},
           m \notin {"switch", "dead", "spawn_insert", "spawn_push"},
           m = "sched" => ret'[t] # "dead",
           pc[t] \in {"exit_find", "exit_wake", "exit_remove"} =>
              m \in {"exit_find", "exit_wake", "exit_remove"},
           s' = s, cpu' = cpu, nextTid' = nextTid, table' = table,
           \A u \in Tid \ {t} : ret'[u] = ret[u] /\ local'[u] = local[u]
    PROVE  IInv'
<1>1. cpu = t /\ pc \in [Tid -> PC] /\ pc' = [pc EXCEPT ![t] = m]
  BY Zenon DEF At, Goto, IInv, TypeOK
<1>2. /\ s.current = t /\ t # Idle /\ ~Left(t) /\ s.state[t] # "Blocked"
      /\ s.state[t] = "Zombie" => pc[t] \in {"exit_find", "exit_wake", "exit_remove"}
  BY <1>1, Runs, Zenon
<1>3. pc'[t] = m /\ \A u \in Tid \ {t} : pc'[u] = pc[u]
  BY <1>1, Zenon
<1>4. ~Spawning(t) /\ ~Spawning(t)' /\ ~Left(t)'
  BY <1>3, Zenon DEF Spawning, Left
<1>5. Sound(s') /\ SameQueued(s, s')
  BY Zenon DEF IInv, SameQueued
<1>6. Stays(t)
  BY <1>1, <1>2, <1>3, <1>4, <1>5, Zenon DEF Stays
<1> QED
  BY <1>6, StaysSound, Zenon

\* sysretq.
LEMMA ReturnSound ==
    ASSUME IInv, corrupt = "no", NEW t \in Tid, Return(t)
    PROVE  IInv'
<1>1. TypeOK'
  BY TidFacts, Zenon DEF IInv, TypeOK, Return, Goto, PC, NoTarget, Target, taskVars, cpuVars
<1>2. /\ At(t, pc[t]) /\ pc[t] = "return" /\ Goto(t, "run")
      /\ s' = s /\ cpu' = cpu /\ nextTid' = nextTid /\ table' = table
  BY Zenon DEF Return, At, taskVars, cpuVars
<1>3. \A u \in Tid \ {t} : ret'[u] = ret[u] /\ local'[u] = local[u]
  BY Zenon DEF Return, IInv, TypeOK
<1> QED
  BY <1>1, <1>2, <1>3, MovesOn, Zenon

\* SYS_YIELD.
LEMMA CallYieldSound ==
    ASSUME IInv, corrupt = "no", NEW t \in Tid, CallYield(t)
    PROVE  IInv'
<1>1. TypeOK /\ EnterKernel(t)
  BY Zenon DEF IInv, CallYield
<1>2. TypeOK'
  BY <1>1, EnterTypes, Zenon DEF TypeOK, CallYield, Goto, PC, taskVars
<1>3. /\ At(t, pc[t]) /\ pc[t] = "run" /\ Goto(t, "sched")
      /\ s' = s /\ cpu' = cpu /\ nextTid' = nextTid /\ table' = table
  BY <1>1, EnterTypes, Zenon DEF CallYield, At, taskVars
<1>4. ret'[t] # "dead" /\ \A u \in Tid \ {t} : ret'[u] = ret[u] /\ local'[u] = local[u]
  BY <1>1, Zenon DEF CallYield, TypeOK
<1> QED
  BY <1>2, <1>3, <1>4, MovesOn, Zenon

\* SYS_WAITPID and SYS_JOIN.
LEMMA CallWaitSound ==
    ASSUME IInv, corrupt = "no", NEW t \in Tid, NEW tgt \in Targets, CallWait(t, tgt)
    PROVE  IInv'
<1>1. TypeOK /\ EnterKernel(t) /\ tgt \in Target
  BY KernelAssumption, Zenon DEF IInv, CallWait
<1>2. TypeOK'
  BY <1>1, EnterTypes, Zenon DEF TypeOK, CallWait, Goto, PC, taskVars
<1>3. /\ At(t, pc[t]) /\ pc[t] = "run" /\ Goto(t, "wait_check")
      /\ s' = s /\ cpu' = cpu /\ nextTid' = nextTid /\ table' = table
      /\ ret' = ret /\ local' = local
  BY <1>1, EnterTypes, Zenon DEF CallWait, At, taskVars
<1> QED
  BY <1>2, <1>3, MovesOn, Zenon

\* SYS_EXIT.
LEMMA CallExitSound ==
    ASSUME IInv, corrupt = "no", NEW t \in Tid, CallExit(t)
    PROVE  IInv'
<1>1. TypeOK /\ EnterKernel(t)
  BY Zenon DEF IInv, CallExit
<1>2. TypeOK'
  BY <1>1, EnterTypes, Zenon DEF TypeOK, CallExit, Goto, PC, taskVars
<1>3. /\ At(t, pc[t]) /\ pc[t] = "run" /\ Goto(t, "exit_mark")
      /\ s' = s /\ cpu' = cpu /\ nextTid' = nextTid /\ table' = table
      /\ ret' = ret /\ local' = local
  BY <1>1, EnterTypes, Zenon DEF CallExit, At, taskVars
<1> QED
  BY <1>2, <1>3, MovesOn, Zenon

\* The halt loop of kernel_main.
LEMMA HaltSound ==
    ASSUME IInv, corrupt = "no", NEW t \in Tid, Halt(t)
    PROVE  IInv'
<1>1. TypeOK'
  BY Zenon DEF IInv, TypeOK, Halt, Goto, PC, taskVars, cpuVars
<1>2. /\ At(t, pc[t]) /\ pc[t] = "run" /\ Goto(t, "hlt")
      /\ s' = s /\ cpu' = cpu /\ nextTid' = nextTid /\ table' = table
      /\ ret' = ret /\ local' = local
  BY Zenon DEF Halt, At, taskVars, cpuVars
<1> QED
  BY <1>1, <1>2, MovesOn, Zenon


\* The scan of the table finds a task of the table or nothing.
LEMMA FirstWithPidFacts ==
    ASSUME TypeOK, NEW p
    PROVE  FirstWithPid(p) \in table \cup {None}
<1>1. CASE \E u \in table : pid[u] = p
  <2> DEFINE S == {u \in table : pid[u] = p}
  <2>1. S \subseteq Nat /\ S # {}
    BY <1>1, TidFacts, Zenon DEF TypeOK
  <2>2. PICK u \in S : \A v \in S : u <= v
    BY <2>1, LeastNat, Zenon
  <2>3. \E w \in table : pid[w] = p /\ \A v \in table : pid[v] = p => w <= v
    BY <2>2, Zenon
  <2> QED
    BY <1>1, <2>3, Zenon DEF FirstWithPid
<1>2. CASE ~\E u \in table : pid[u] = p
  BY <1>2, Zenon DEF FirstWithPid
<1> QED
  BY <1>1, <1>2, Zenon

\* wait frees a task that has left: the Zombie it found is not current, since a
\* current Zombie is inside exit.
LEMMA ReapSound ==
    ASSUME IInv, TypeOK', corrupt = "no", NEW t \in Tid, NEW z \in Tid,
           At(t, "wait_check"), Goto(t, "return"), s.state[z] = "Zombie",
           table' = table \ {z}, s' = s, cpu' = cpu, nextTid' = nextTid,
           ret' = ret, local' = local
    PROVE  IInv'
<1>1. cpu = t /\ pc[t] = "wait_check" /\ pc \in [Tid -> PC] /\ pc' = [pc EXCEPT ![t] = "return"]
  BY Zenon DEF At, Goto, IInv, TypeOK
<1>2. s.current = t /\ t # Idle /\ ~Left(t) /\ s.state[t] # "Blocked" /\ s.state[t] # "Zombie"
  BY <1>1, Runs, Zenon
<1>3. pc'[t] = "return" /\ \A u \in Tid \ {t} : pc'[u] = pc[u]
  BY <1>1, Zenon
<1>4. \A u \in Tid : (Spawning(u)' <=> Spawning(u)) /\ (Left(u)' <=> Left(u))
  BY <1>1, <1>3, Zenon DEF Spawning, Left
<1>5. z # t /\ Left(z)
  BY <1>2, Zenon DEF IInv, ZombieInv
<1>6. \A v \in Tid : Unborn(v)' <=> Unborn(v)
  BY <1>4, Zenon DEF Unborn
<1>7. SpawnInv'
  BY <1>4, Zenon DEF IInv, SpawnInv
<1>8. UnbornInv'
  BY <1>1, <1>2, <1>3, <1>6, Zenon DEF IInv, UnbornInv
<1>9. IdleInv' /\ BlockedInv'
  BY <1>1, <1>2, <1>3, TidFacts, Zenon DEF IInv, IdleInv, BlockedInv
<1>10. LeftInv' /\ CpuInv'
  BY <1>1, <1>2, <1>3, <1>4, Zenon DEF IInv, LeftInv, CpuInv
<1>11. TableInv'
  <2>1. \A u \in Tid : pc[u] = "spawn_insert" => pc'[u] = "spawn_insert"
    BY <1>1, <1>3, Zenon
  <2> QED
    BY <1>1, <1>4, <1>5, <2>1, Zenon DEF IInv, TableInv
<1>12. ZombieInv'
  BY <1>1, <1>2, <1>3, <1>4, Zenon DEF IInv, ZombieInv
<1>13. NoTaskLost'
  <2>1. \A u \in Tid : pc[u] = "spawn_push" => pc'[u] = "spawn_push"
    BY <1>1, <1>3, Zenon
  <2>2. table \subseteq Tid
    BY Zenon DEF IInv, TypeOK
  <2> QED
    BY <1>4, <2>1, <2>2, Zenon DEF IInv, NoTaskLost
<1> QED
  BY <1>7, <1>8, <1>9, <1>10, <1>11, <1>12, <1>13, Zenon DEF IInv

\* One look at the table.
LEMMA WaitCheckSound ==
    ASSUME IInv, corrupt = "no", NEW t \in Tid, WaitCheck(t)
    PROVE  IInv'
<1>1. TypeOK /\ table \subseteq Tid /\ target \in [Tid -> Target]
  BY Zenon DEF IInv, TypeOK
<1>2. Found(t) \in table \cup {None}
  BY <1>1, FirstWithPidFacts, Zenon DEF Found
<1>3. /\ At(t, pc[t]) /\ At(t, "wait_check") /\ pc[t] = "wait_check"
      /\ s' = s /\ cpu' = cpu /\ nextTid' = nextTid /\ ret' = ret /\ local' = local
  BY Zenon DEF WaitCheck, At, cpuVars
<1>4. TypeOK'
  <2>1. table' \subseteq Tid
    BY <1>1, Zenon DEF WaitCheck
  <2>2. pc' \in [Tid -> PC]
    BY <1>1, Zenon DEF WaitCheck, TypeOK, Goto, PC
  <2> QED
    BY <1>1, <2>1, <2>2, Zenon DEF TypeOK, WaitCheck, cpuVars
<1>5. CASE Goto(t, "return") /\ table' = table
  BY <1>3, <1>4, <1>5, MovesOn, Zenon
<1>6. CASE /\ Found(t) # None /\ s.state[Found(t)] = "Zombie"
           /\ table' = table \ {Found(t)} /\ Goto(t, "return")
  BY <1>1, <1>2, <1>3, <1>4, <1>6, ReapSound, Zenon
<1>7. CASE Goto(t, "wait_mark") /\ table' = table
  BY <1>3, <1>4, <1>7, MovesOn, Zenon
<1> QED
  BY <1>5, <1>6, <1>7, Zenon DEF WaitCheck

\* A running task writes its own state: the Blocked mark and the Zombie mark.
LEMMA MarksSelf ==
    ASSUME IInv, TypeOK', corrupt = "no", NEW t \in Tid, NEW m, cpu = t, Goto(t, m),
           pc[t] \in {"wait_mark", "exit_mark"},
           \/ m = "sched" /\ ret'[t] # "dead" /\ s' = SetState(s, t, "Blocked")
           \/ m \in {"exit_find", "exit_remove"} /\ s' = SetState(s, t, "Zombie"),
           cpu' = cpu, nextTid' = nextTid, table' = table, local' = local,
           \A u \in Tid \ {t} : ret'[u] = ret[u]
    PROVE  IInv'
<1>1. pc \in [Tid -> PC] /\ pc' = [pc EXCEPT ![t] = m] /\ s \in SchedState /\ Sound(s)
  BY Zenon DEF Goto, IInv, TypeOK
<1>2. s.current = t /\ t # Idle /\ ~Left(t) /\ ~Queued(s, t)
  BY Runs, Zenon
<1>3. pc'[t] = m /\ \A u \in Tid \ {t} : pc'[u] = pc[u]
  BY <1>1, Zenon
<1>4. ~Spawning(t) /\ ~Spawning(t)' /\ ~Left(t)'
  BY <1>3, Zenon DEF Spawning, Left
<1>5. PICK st \in {"Blocked", "Zombie"} :
         /\ s' = SetState(s, t, st)
         /\ st = "Blocked" => m = "sched"
         /\ st = "Zombie" => m \in {"exit_find", "exit_remove"}
  BY Zenon
<1>6. st \in TaskState
  BY Zenon DEF TaskState
<1>7. /\ Sound(s') /\ SameQueued(s, s') /\ s'.current = s.current
      /\ s'.state = [s.state EXCEPT ![t] = st]
  BY <1>1, <1>2, <1>5, <1>6, SetStateSound, SMTT(60)
<1>8. s'.state[t] = st /\ \A u \in Tid \ {t} : s'.state[u] = s.state[u]
  BY <1>1, <1>7, Zenon DEF SchedState
<1>9. pc'[t] # "switch"
  BY <1>3, Zenon
<1>10. Stays(t)
  BY <1>2, <1>3, <1>4, <1>5, <1>7, <1>8, <1>9, Zenon DEF Stays
<1> QED
  BY <1>10, StaysSound, Zenon

\* The types survive a write of a task's state.
LEMMA SetStateTypes ==
    ASSUME NEW x \in SchedState, NEW t \in Tid, NEW st \in TaskState
    PROVE  SetState(x, t, st) \in SchedState
BY Zenon DEF SetState, SchedState

\* The Blocked mark of wait and wait_tid.
LEMMA WaitMarkSound ==
    ASSUME IInv, corrupt = "no", NEW t \in Tid, WaitMark(t)
    PROVE  IInv'
<1>1. TypeOK /\ s \in SchedState
  BY Zenon DEF IInv, TypeOK
<1>2. s' \in SchedState
  BY <1>1, SetStateTypes, Zenon DEF WaitMark, TaskState
<1>3. TypeOK'
  BY <1>1, <1>2, Zenon DEF TypeOK, WaitMark, Goto, PC, taskVars, cpuVars
<1>4. /\ At(t, pc[t]) /\ cpu = t /\ pc[t] = "wait_mark" /\ Goto(t, "sched")
      /\ cpu' = cpu /\ nextTid' = nextTid /\ table' = table /\ local' = local
  BY Zenon DEF WaitMark, At, taskVars, cpuVars
<1>5. ret'[t] # "dead" /\ \A u \in Tid \ {t} : ret'[u] = ret[u]
  BY <1>1, Zenon DEF WaitMark, TypeOK
<1>6. CASE t \in table
  BY <1>3, <1>4, <1>5, <1>6, MarksSelf, Zenon DEF WaitMark
<1>7. CASE t \notin table
  BY <1>3, <1>4, <1>5, <1>7, MovesOn, Zenon DEF WaitMark
<1> QED
  BY <1>6, <1>7, Zenon

\* The Zombie mark of exit.
LEMMA ExitMarkSound ==
    ASSUME IInv, corrupt = "no", NEW t \in Tid, ExitMark(t)
    PROVE  IInv'
<1>1. TypeOK /\ s \in SchedState
  BY Zenon DEF IInv, TypeOK
<1>2. s' \in SchedState
  BY <1>1, SetStateTypes, Zenon DEF ExitMark, TaskState
<1>3. TypeOK'
  BY <1>1, <1>2, Zenon DEF TypeOK, ExitMark, Goto, PC, taskVars, cpuVars
<1>4. /\ At(t, pc[t]) /\ cpu = t /\ pc[t] = "exit_mark"
      /\ cpu' = cpu /\ nextTid' = nextTid /\ table' = table /\ local' = local /\ ret' = ret
  BY Zenon DEF ExitMark, At, taskVars, cpuVars
<1>5. CASE t \in table
  <2>1. PICK m \in {"exit_find", "exit_remove"} : Goto(t, m)
    BY <1>5, Zenon DEF ExitMark
  <2> QED
    BY <1>3, <1>4, <1>5, <2>1, MarksSelf, Zenon DEF ExitMark
<1>6. CASE t \notin table
  BY <1>3, <1>4, <1>6, MovesOn, Zenon DEF ExitMark
<1> QED
  BY <1>5, <1>6, Zenon

\* unblock_pid finds a tid ...
LEMMA ExitFindSound ==
    ASSUME IInv, corrupt = "no", NEW t \in Tid, ExitFind(t)
    PROVE  IInv'
<1>1. TypeOK
  BY Zenon DEF IInv
<1>2. FirstWithPid(parent[t]) \in Tid \cup {None}
  BY <1>1, FirstWithPidFacts, Zenon DEF TypeOK
<1>3. TypeOK'
  BY <1>1, <1>2, Zenon DEF TypeOK, ExitFind, Goto, PC, taskVars, cpuVars
<1>4. /\ At(t, pc[t]) /\ pc[t] = "exit_find" /\ Goto(t, "exit_wake")
      /\ s' = s /\ cpu' = cpu /\ nextTid' = nextTid /\ table' = table /\ ret' = ret
  BY Zenon DEF ExitFind, At, taskVars, cpuVars
<1>5. \A u \in Tid \ {t} : local'[u] = local[u]
  BY <1>1, Zenon DEF ExitFind, TypeOK
<1> QED
  BY <1>3, <1>4, <1>5, MovesOn, Zenon

\* ... and unblock_tid never finds its task Blocked.
LEMMA ExitWakeSound ==
    ASSUME IInv, corrupt = "no", NEW t \in Tid, ExitWake(t)
    PROVE  IInv'
<1>1. TypeOK /\ table \subseteq Tid
  BY Zenon DEF IInv, TypeOK
<1>2. /\ At(t, pc[t]) /\ cpu = t /\ pc[t] = "exit_wake" /\ Goto(t, "exit_remove")
      /\ cpu' = cpu /\ nextTid' = nextTid /\ table' = table /\ ret' = ret /\ local' = local
  BY Zenon DEF ExitWake, At, taskVars, cpuVars
<1>3. s.current = t
  BY <1>2, Runs, Zenon
<1>4. \A u \in Tid : s.state[u] # "Blocked"
  BY <1>2, <1>3, Zenon DEF IInv, BlockedInv
<1>5. s' = s
  BY <1>1, <1>4, UnblockNothing, Zenon DEF ExitWake
<1>6. TypeOK'
  BY <1>1, <1>5, Zenon DEF TypeOK, ExitWake, Goto, PC, taskVars, cpuVars
<1> QED
  BY <1>2, <1>5, <1>6, MovesOn, Zenon


\* remove_current: the task has left, and a switch is asked for.
LEMMA ExitRemoveSound ==
    ASSUME IInv, corrupt = "no", NEW t \in Tid, ExitRemove(t)
    PROVE  IInv'
<1>1. TypeOK /\ Sound(s) /\ pc \in [Tid -> PC] /\ ret \in [Tid -> {"return", "wait_check", "dead"}]
  BY Zenon DEF IInv, TypeOK
<1>2. /\ cpu = t /\ pc[t] = "exit_remove" /\ pc' = [pc EXCEPT ![t] = "sched"]
      /\ ret' = [ret EXCEPT ![t] = "dead"] /\ s' = RemoveCurrent(s)
      /\ cpu' = cpu /\ nextTid' = nextTid /\ table' = table /\ local' = local
  BY Zenon DEF ExitRemove, At, Goto, taskVars, cpuVars
<1>3. s.current = t /\ t # Idle /\ ~Left(t) /\ ~Queued(s, t) /\ ~Unborn(t)
  BY <1>2, Runs, Zenon
<1>4. /\ Sound(s') /\ SameQueued(s, s') /\ s'.current = None /\ s'.state = s.state
      /\ s'.needs_reschedule
  BY <1>1, <1>2, <1>3, TidFacts, RemoveCurrentSound, Zenon
<1>5. TypeOK'
  BY <1>1, <1>4, Zenon DEF TypeOK, Sound, ExitRemove, Goto, PC, taskVars, cpuVars
<1>6. /\ pc'[t] = "sched" /\ ret'[t] = "dead"
      /\ \A u \in Tid \ {t} : pc'[u] = pc[u] /\ ret'[u] = ret[u]
  BY <1>1, <1>2, Zenon
<1>7. \A u \in Tid : (Spawning(u)' <=> Spawning(u)) /\ (Left(u)' <=> Left(u) \/ u = t)
  BY <1>2, <1>6, Zenon DEF Spawning, Left
<1>8. \A v \in Tid : Unborn(v)' <=> Unborn(v)
  BY <1>2, <1>7, Zenon DEF Unborn
<1>9. SpawnInv'
  BY <1>2, <1>7, Zenon DEF IInv, SpawnInv
<1>10. UnbornInv'
  BY <1>2, <1>3, <1>4, <1>6, <1>8, TidFacts, SMTT(60) DEF IInv, UnbornInv, SameQueued
<1>11. IdleInv'
  BY <1>3, <1>4, <1>6, TidFacts, Zenon DEF IInv, IdleInv, SameQueued
<1>12. BlockedInv'
  BY <1>2, <1>3, <1>4, Zenon DEF IInv, BlockedInv
<1>13. LeftInv' /\ CpuInv'
  BY <1>2, <1>3, <1>4, <1>6, <1>7, TidFacts, SMTT(60) DEF IInv, LeftInv, CpuInv, SameQueued
<1>14. TableInv'
  <2>1. \A u \in Tid : pc[u] = "spawn_insert" => pc'[u] = "spawn_insert"
    BY <1>2, <1>6, Zenon
  <2> QED
    BY <1>2, <1>7, <2>1, Zenon DEF IInv, TableInv
<1>15. ZombieInv'
  BY <1>3, <1>4, <1>6, <1>7, Zenon DEF IInv, ZombieInv
<1>16. NoTaskLost'
  <2>1. \A u \in Tid : pc[u] = "spawn_push" => pc'[u] = "spawn_push"
    BY <1>2, <1>6, Zenon
  <2> QED
    BY <1>1, <1>2, <1>3, <1>4, <1>7, <2>1, ZenonT(60) DEF IInv, TypeOK, NoTaskLost, SameQueued
<1> QED
  BY <1>4, <1>5, <1>9, <1>10, <1>11, <1>12, <1>13, <1>14, <1>15, <1>16, Zenon DEF IInv
-----------------------------------------------------------------------------
\* Building a task: it takes the next tid, which no task has had.
LEMMA CallSpawnSound ==
    ASSUME IInv, corrupt = "no", NEW t \in Tid, NEW kind \in Kinds,
           NEW priority \in SpawnPriorities, CallSpawn(t, kind, priority)
    PROVE  IInv' /\ SameQueued(s, s') /\ s'.current = s.current
<1> DEFINE n == nextTid
           p == IF kind = "fork" /\ user[t] THEN s.priority[t] ELSE priority
<1>1. TypeOK /\ Sound(s) /\ s \in SchedState /\ pc \in [Tid -> PC] /\ EnterKernel(t)
  BY Zenon DEF IInv, TypeOK, CallSpawn
<1>2. /\ cpu = t /\ pc[t] = "run" /\ pc' = [pc EXCEPT ![t] = "spawn_insert"]
      /\ s' = [s EXCEPT !.priority[n] = p]
      /\ cpu' = cpu /\ nextTid' = n + 1 /\ table' = table /\ ret' = ret
      /\ local' = [local EXCEPT ![t] = n]
  BY <1>1, EnterTypes, Zenon DEF CallSpawn, At, Goto
<1>3. n \in Tid /\ n \in Nat /\ n + 1 \in 3..(MaxTid + 1)
  BY <1>1, KernelAssumption, SMTT(60) DEF CallSpawn, TypeOK
<1>4. s.current = t /\ t # Idle /\ ~Left(t) /\ ~Queued(s, t) /\ ~Unborn(t)
      /\ s.state[t] # "Zombie" /\ s.state[t] # "Blocked"
  BY <1>2, Runs, Zenon
<1>5. Unborn(n)
  BY <1>3, SMTT(60) DEF Unborn
<1>6. ~Queued(s, n) /\ n # s.current /\ n # t
  BY <1>3, <1>4, <1>5, Zenon DEF IInv, UnbornInv
<1>7. p \in Level
  BY <1>1, KernelAssumption, Zenon DEF Sound
<1>8. /\ s'.queues = s.queues /\ s'.current = s.current /\ s'.state = s.state
      /\ s'.needs_reschedule = s.needs_reschedule
      /\ s'.priority = [s.priority EXCEPT ![n] = p]
      /\ s' \in SchedState
  <2> HIDE DEF p, n
  <2> QED
    BY <1>1, <1>2, <1>3, <1>7, LevelFacts, Zenon DEF SchedState
<1>9. Sound(s') /\ SameQueued(s, s')
  <2> HIDE DEF p, n
  <2>1. \A u \in Tid : Queued(s, u) => u # s.current
    BY <1>1, QueuedIsWaiting, Zenon DEF Sound
  <2>2. \A u \in Tid : Queued(s, u) =>
           s'.state[u] = s.state[u] /\ s'.priority[u] = s.priority[u] /\ u # s'.current
    BY <1>1, <1>6, <1>8, <2>1, Zenon DEF SchedState
  <2>3. \A u \in Tid : s'.priority[u] \in Level
    BY <1>1, <1>7, <1>8, Zenon DEF Sound, SchedState
  <2> QED
    BY <1>1, <1>8, <2>2, <2>3, OutsideQueuesSound, Zenon
<1>10. TypeOK'
  <2>1. pid' \in [Tid -> Tid]
    BY <1>1, <1>3, Zenon DEF CallSpawn, TypeOK
  <2>2. parent' \in [Tid -> Tid \cup {0}]
    <3>1. pid[t] \in Tid /\ parent[t] \in Tid \cup {0}
      BY <1>1, Zenon DEF TypeOK
    <3>2. (CASE kind = "clone" -> parent[t]
             [] kind = "new" -> 0
             [] OTHER -> pid[t]) \in Tid \cup {0}
      BY <3>1, Zenon
    <3> QED
      BY <1>1, <3>2, Zenon DEF CallSpawn, TypeOK
  <2>3. user' \in [Tid -> BOOLEAN]
    BY <1>1, Zenon DEF CallSpawn, TypeOK
  <2>4. local' \in [Tid -> Tid \cup {None}] /\ pc' \in [Tid -> PC]
    BY <1>1, <1>2, <1>3, Zenon DEF TypeOK, PC
  <2> QED
    BY <1>1, <1>2, <1>3, <1>8, <2>1, <2>2, <2>3, <2>4, EnterTypes, SMTT(60) DEF TypeOK, CallSpawn
<1>11. /\ pc'[t] = "spawn_insert" /\ local'[t] = n
       /\ \A u \in Tid \ {t} : pc'[u] = pc[u] /\ local'[u] = local[u]
  BY <1>1, <1>2, Zenon DEF TypeOK
<1> HIDE DEF n, p
<1>12. \A u \in Tid : (Spawning(u)' <=> Spawning(u) \/ u = t) /\ (Left(u)' <=> Left(u))
  BY <1>2, <1>11, Zenon DEF Spawning, Left
<1>13. ~Spawning(t)
  BY <1>2, Zenon DEF Spawning
<1>14. n = nextTid
  BY Zenon DEF n
<1>15. \A v \in Tid : Unborn(v)' <=> Unborn(v)
  <2> SUFFICES ASSUME NEW v \in Tid PROVE Unborn(v)' <=> Unborn(v)
    BY Zenon
  <2>1. v \in Nat
    BY TidFacts, Zenon
  <2>2. v >= n <=> v >= n + 1 \/ v = n
    BY <1>3, <2>1, SMTT(60)
  <2>3. (\E u \in Tid : Spawning(u)' /\ local'[u] = v)
          <=> v = n \/ \E u \in Tid : Spawning(u) /\ local[u] = v
    BY <1>11, <1>12, <1>13, Zenon
  <2> QED
    BY <1>2, <1>14, <2>2, <2>3, Zenon DEF Unborn
<1>16. SpawnInv'
  <2>1. \A u \in Tid : Spawning(u) => local[u] \in Tid /\ local[u] < n
    BY <1>14, Zenon DEF IInv, SpawnInv
  <2>2. \A u \in Tid : Spawning(u)' => local'[u] \in Tid /\ local'[u] < n + 1
    <3>1. n < n + 1 /\ \A k \in Tid : k < n => k < n + 1
      BY <1>3, TidFacts, SMTT(60)
    <3>2. \A u \in Tid : Spawning(u) => local[u] < n + 1
      BY <2>1, <3>1, Zenon
    <3> QED
      BY <1>3, <1>11, <1>12, <1>13, <2>1, <3>1, <3>2, Zenon
  <2>3. \A u \in Tid : Spawning(u) => local[u] # n
    BY <1>3, <2>1, TidFacts, SMTT(60)
  <2>4. \A u, w \in Tid : Spawning(u)' /\ Spawning(w)' /\ local'[u] = local'[w] => u = w
    BY <1>11, <1>12, <1>13, <2>3, Zenon DEF IInv, SpawnInv
  <2> QED
    BY <1>2, <2>2, <2>4, Zenon DEF SpawnInv
<1>17. UnbornInv'
  BY <1>2, <1>4, <1>8, <1>9, <1>11, <1>15, SMTT(60) DEF IInv, UnbornInv, SameQueued
<1>18. IdleInv' /\ BlockedInv'
  BY <1>4, <1>8, <1>9, <1>11, TidFacts, Zenon DEF IInv, IdleInv, BlockedInv, SameQueued
<1>19. LeftInv' /\ CpuInv'
  BY <1>2, <1>4, <1>8, <1>9, <1>11, <1>12, ZenonT(60) DEF IInv, LeftInv, CpuInv, SameQueued
<1>20. TableInv'
  <2> SUFFICES ASSUME NEW v \in Tid \ table
               PROVE  \/ v >= n + 1
                      \/ \E u \in Tid : pc'[u] = "spawn_insert" /\ local'[u] = v
                      \/ Left(v)' /\ cpu' # v
    BY <1>2, Zenon DEF TableInv
  <2>1. \/ v >= n
        \/ \E u \in Tid : pc[u] = "spawn_insert" /\ local[u] = v
        \/ Left(v) /\ cpu # v
    BY <1>14, Zenon DEF IInv, TableInv
  <2>2. v >= n => v >= n + 1 \/ v = n
    BY <1>3, TidFacts, SMTT(60)
  <2>3. \A u \in Tid : pc[u] = "spawn_insert" => u # t
    BY <1>2, Zenon
  <2> QED
    BY <1>2, <1>11, <1>12, <2>1, <2>2, <2>3, Zenon
<1>21. ZombieInv'
  BY <1>4, <1>8, <1>11, <1>12, Zenon DEF IInv, ZombieInv
<1>22. NoTaskLost'
  <2>1. \A u \in Tid : pc[u] = "spawn_push" => u # t
    BY <1>2, Zenon
  <2> QED
    BY <1>1, <1>2, <1>8, <1>9, <1>11, <1>12, <2>1, Zenon DEF IInv, TypeOK, NoTaskLost, SameQueued
<1> QED
  BY <1>8, <1>9, <1>10, <1>16, <1>17, <1>18, <1>19, <1>20, <1>21, <1>22, Zenon DEF IInv


\* spawn, first half: the task is in the table.
LEMMA SpawnInsertSound ==
    ASSUME IInv, corrupt = "no", NEW t \in Tid, SpawnInsert(t)
    PROVE  IInv'
<1>1. TypeOK /\ pc \in [Tid -> PC]
  BY Zenon DEF IInv, TypeOK
<1>2. /\ cpu = t /\ pc[t] = "spawn_insert" /\ pc' = [pc EXCEPT ![t] = "spawn_push"]
      /\ s' = s /\ cpu' = cpu /\ nextTid' = nextTid /\ table' = table \cup {local[t]}
      /\ local' = local /\ ret' = ret
  BY Zenon DEF SpawnInsert, At, Goto, cpuVars
<1>3. /\ s.current = t /\ t # Idle /\ ~Left(t) /\ ~Unborn(t)
      /\ s.state[t] # "Blocked" /\ s.state[t] # "Zombie"
  BY <1>2, Runs, Zenon
<1>4. local[t] \in Tid
  BY <1>2, Zenon DEF IInv, SpawnInv, Spawning
<1>5. TypeOK'
  BY <1>1, <1>4, Zenon DEF TypeOK, SpawnInsert, Goto, PC, cpuVars
<1>6. pc'[t] = "spawn_push" /\ \A u \in Tid \ {t} : pc'[u] = pc[u]
  BY <1>1, <1>2, Zenon
<1>7. \A u \in Tid : (Spawning(u)' <=> Spawning(u)) /\ (Left(u)' <=> Left(u))
  BY <1>2, <1>6, Zenon DEF Spawning, Left
<1>8. \A v \in Tid : Unborn(v)' <=> Unborn(v)
  BY <1>2, <1>7, Zenon DEF Unborn
<1>9. SpawnInv'
  BY <1>2, <1>7, Zenon DEF IInv, SpawnInv
<1>10. UnbornInv'
  BY <1>2, <1>3, <1>6, <1>8, ZenonT(60) DEF IInv, UnbornInv
<1>11. IdleInv' /\ BlockedInv'
  BY <1>2, <1>3, <1>6, TidFacts, Zenon DEF IInv, IdleInv, BlockedInv
<1>12. LeftInv' /\ CpuInv'
  BY <1>2, <1>3, <1>6, <1>7, ZenonT(60) DEF IInv, LeftInv, CpuInv
<1>13. TableInv'
  BY <1>2, <1>6, <1>7, ZenonT(60) DEF IInv, TableInv
<1>14. ZombieInv'
  BY <1>2, <1>3, <1>6, <1>7, Zenon DEF IInv, ZombieInv
<1>15. NoTaskLost'
  <2>1. \A u \in Tid : pc[u] = "spawn_push" => pc'[u] = "spawn_push"
    BY <1>2, <1>6, Zenon
  <2> QED
    BY <1>1, <1>2, <1>6, <1>7, <2>1, Zenon DEF IInv, TypeOK, NoTaskLost
<1> QED
  BY <1>2, <1>5, <1>9, <1>10, <1>11, <1>12, <1>13, <1>14, <1>15, Zenon DEF IInv

\* spawn, second half: the task is pushed, once.
LEMMA SpawnPushSound ==
    ASSUME IInv, corrupt = "no", NEW t \in Tid, SpawnPush(t)
    PROVE  /\ IInv'
           /\ \E n \in Tid : /\ ~Queued(s, n) /\ n # s.current /\ s'.current = s.current
                             /\ \A u \in Tid : Queued(s', u) <=> Queued(s, u) \/ u = n
<1>1. TypeOK /\ Sound(s) /\ pc \in [Tid -> PC]
  BY Zenon DEF IInv, TypeOK
<1>2. /\ cpu = t /\ pc[t] = "spawn_push" /\ pc' = [pc EXCEPT ![t] = "return"]
      /\ s' = Push(s, local[t]) /\ cpu' = cpu /\ nextTid' = nextTid /\ table' = table
      /\ local' = local /\ ret' = ret
  BY Zenon DEF SpawnPush, At, Goto, taskVars, cpuVars
<1>3. /\ s.current = t /\ t # Idle /\ ~Left(t) /\ ~Unborn(t)
      /\ s.state[t] # "Blocked" /\ s.state[t] # "Zombie"
  BY <1>2, Runs, Zenon
<1>4. Spawning(t) /\ local[t] \in Tid /\ local[t] < nextTid
  BY <1>2, Zenon DEF IInv, SpawnInv, Spawning
<1>5. PICK n \in Tid : n = local[t]
  BY <1>4, Zenon
<1>6. Unborn(n)
  BY <1>4, <1>5, Zenon DEF Unborn
<1>7. ~Queued(s, n) /\ n # s.current /\ s.state[n] = "Ready" /\ pc[n] = "run"
  BY <1>6, Zenon DEF IInv, UnbornInv
<1>8. /\ Sound(s') /\ \A u \in Tid : Queued(s', u) <=> Queued(s, u) \/ u = n
      /\ s'.current = s.current /\ s'.state = s.state
      /\ s'.needs_reschedule = s.needs_reschedule
  BY <1>1, <1>2, <1>5, <1>7, PushSound, ZenonT(60)
<1>9. TypeOK'
  BY <1>1, <1>8, Zenon DEF TypeOK, Sound, SpawnPush, Goto, PC, taskVars, cpuVars
<1>10. pc'[t] = "return" /\ \A u \in Tid \ {t} : pc'[u] = pc[u]
  BY <1>1, <1>2, Zenon
<1>11. \A u \in Tid : (Spawning(u)' <=> Spawning(u) /\ u # t) /\ (Left(u)' <=> Left(u))
  BY <1>2, <1>10, Zenon DEF Spawning, Left
<1>12. \A v \in Tid : Unborn(v)' => Unborn(v) /\ v # n
  <2>1. \A u \in Tid : Spawning(u) /\ u # t => local[u] # n
    BY <1>4, <1>5, Zenon DEF IInv, SpawnInv
  <2>2. ~(n >= nextTid)
    BY <1>1, <1>4, <1>5, TidFacts, SMTT(60) DEF TypeOK
  <2> QED
    BY <1>2, <1>11, <2>1, <2>2, Zenon DEF Unborn
<1>13. SpawnInv'
  BY <1>2, <1>11, Zenon DEF IInv, SpawnInv
<1>14. UnbornInv'
  <2> SUFFICES ASSUME NEW v \in Tid, Unborn(v)'
               PROVE  ~Queued(s', v) /\ s'.current # v /\ s'.state[v] = "Ready"
                      /\ cpu' # v /\ pc'[v] = "run"
    BY Zenon DEF UnbornInv
  <2>1. Unborn(v) /\ v # n
    BY <1>12, Zenon
  <2>2. ~Queued(s, v) /\ s.current # v /\ s.state[v] = "Ready" /\ cpu # v /\ pc[v] = "run"
    BY <2>1, Zenon DEF IInv, UnbornInv
  <2>3. v # t
    BY <1>2, <2>2, Zenon
  <2> QED
    BY <1>2, <1>8, <1>10, <2>1, <2>2, <2>3, Zenon
<1>15. IdleInv' /\ BlockedInv'
  BY <1>3, <1>8, <1>10, TidFacts, Zenon DEF IInv, IdleInv, BlockedInv
<1>16. LeftInv' /\ CpuInv'
  <2>1. ~Left(n)
    BY <1>7, Zenon DEF Left
  <2> QED
    BY <1>2, <1>3, <1>8, <1>10, <1>11, <2>1, ZenonT(60) DEF IInv, LeftInv, CpuInv
<1>17. TableInv'
  <2>1. \A u \in Tid : pc[u] = "spawn_insert" => pc'[u] = "spawn_insert"
    BY <1>2, <1>10, Zenon
  <2> QED
    BY <1>2, <1>11, <2>1, Zenon DEF IInv, TableInv
<1>18. ZombieInv'
  BY <1>3, <1>8, <1>10, <1>11, Zenon DEF IInv, ZombieInv
<1>19. NoTaskLost'
  <2>1. \A u \in Tid \ {t} : pc[u] = "spawn_push" => pc'[u] = "spawn_push"
    BY <1>10, Zenon
  <2> QED
    BY <1>1, <1>2, <1>5, <1>8, <1>11, <2>1, SMTT(60) DEF IInv, TypeOK, NoTaskLost
<1> QED
  BY <1>7, <1>8, <1>9, <1>13, <1>14, <1>15, <1>16, <1>17, <1>18, <1>19, ZenonT(60) DEF IInv

\* Without a current task there is always one to switch to.
LEMMA SwitchesIfNone ==
    ASSUME IInv, NEW x, Sound(x), SameQueued(s, x), x.current = s.current,
           s.needs_reschedule => x.needs_reschedule, s.current = None
    PROVE  Switches(x)
<1>1. x.needs_reschedule
  BY Zenon DEF IInv, LeftInv
<1>2. Queued(x, Idle)
  BY TidFacts, Zenon DEF IInv, IdleInv, SameQueued
<1> QED
  BY <1>1, <1>2, TidFacts, SwitchesIfAsked, Zenon


\* A switch decided by schedule() keeps the invariant, whether the CPU is still
\* to follow (Sched) or follows at once (Timer).  The control points may only
\* record that a task is about to switch, or gone.
DispatchStep(x) ==
    /\ SameQueued(s, x) /\ x.current = s.current /\ x.state = s.state
    /\ ScheduleEffect(x, s') /\ Switches(x)
    /\ nextTid' = nextTid /\ table' = table /\ local' = local /\ ret' = ret
    /\ cpu' \in {cpu, s'.current} /\ pc'[cpu'] # "dead"
    /\ \A u \in Tid : \/ pc'[u] = pc[u]
                      \/ pc[u] = "sched" /\ pc'[u] \in {"switch", "dead"}
    /\ \A u \in Tid : Left(u)' <=> Left(u)

LEMMA DispatchSound ==
    ASSUME IInv, TypeOK', CpuInv', corrupt = "no", NEW x, DispatchStep(x)
    PROVE  IInv'
<1>1. PICK in \in Tid : in = s'.current /\ Queued(s, in) /\ in # s.current
  BY Zenon DEF DispatchStep, ScheduleEffect, SameQueued
<1>2. \A u \in Tid : Queued(s', u) <=> (Queued(s, u) /\ u # in) \/ u = s.current
  BY <1>1, Zenon DEF DispatchStep, ScheduleEffect, SameQueued
<1>3. /\ s'.state[in] = "Running"
      /\ s.current # None => s'.state[s.current] = "Ready"
      /\ \A u \in Tid \ {s.current, in} : s'.state[u] = s.state[u]
  BY <1>1, Zenon DEF DispatchStep, ScheduleEffect
<1>4. Sound(s') /\ TypeOK /\ table \subseteq Tid
  BY DEF DispatchStep, ScheduleEffect, IInv, TypeOK
<1>5. \A u \in Tid : Spawning(u)' <=> Spawning(u)
  BY Zenon DEF DispatchStep, Spawning
<1>6. \A v \in Tid : Unborn(v)' <=> Unborn(v)
  BY <1>5 DEF Unborn, DispatchStep
<1>7. SpawnInv'
  BY <1>5, Zenon DEF IInv, SpawnInv, DispatchStep
<1>8. UnbornInv'
  <2> SUFFICES ASSUME NEW v \in Tid, Unborn(v)
               PROVE  /\ ~Queued(s', v) /\ s'.current # v /\ s'.state[v] = "Ready"
                      /\ cpu' # v /\ pc'[v] = "run"
    BY <1>6, Zenon DEF UnbornInv
  <2>1. ~Queued(s, v) /\ s.current # v /\ s.state[v] = "Ready" /\ cpu # v /\ pc[v] = "run"
    BY Zenon DEF IInv, UnbornInv
  <2> QED
    BY <1>1, <1>2, <1>3, <2>1, Zenon DEF DispatchStep
<1>9. IdleInv'
  BY <1>1, <1>2, TidFacts, Zenon DEF IInv, IdleInv, DispatchStep
<1>10. \A u \in Tid : s'.state[u] # "Blocked"
  BY <1>1, <1>3, TidFacts, Zenon DEF IInv, BlockedInv
<1>11. LeftInv'
  BY <1>1, <1>2, TidFacts DEF IInv, LeftInv, DispatchStep
<1>12. TableInv'
  <2>1. \A u \in Tid : pc[u] = "spawn_insert" => pc'[u] = "spawn_insert"
    BY Zenon DEF DispatchStep
  <2>2. \A v \in Tid : Left(v) => v # in
    BY <1>1, Zenon DEF IInv, LeftInv
  <2> QED
    BY <1>1, <2>1, <2>2, ZenonT(60) DEF IInv, TableInv, DispatchStep
<1>13. ZombieInv'
  <2> SUFFICES ASSUME NEW u \in Tid, s'.state[u] = "Zombie" PROVE Left(u)
    BY Zenon DEF ZombieInv, DispatchStep
  <2>1. u # in /\ u # s.current
    BY <1>3, TidFacts, Zenon
  <2> QED
    BY <1>3, <2>1, Zenon DEF IInv, ZombieInv
<1>14. NoTaskLost'
  <2>1. \A u \in Tid : pc[u] = "spawn_push" => pc'[u] = "spawn_push"
    BY DEF DispatchStep
  <2> QED
    BY <1>1, <1>2, <1>4, <2>1 DEF IInv, NoTaskLost, DispatchStep
<1> QED
  BY <1>4, <1>7, <1>8, <1>9, <1>10, <1>11, <1>12, <1>13, <1>14, Zenon DEF IInv, BlockedInv

\* The decision of schedule().
LEMMA SchedSound ==
    ASSUME IInv, corrupt = "no", NEW t \in Tid, Sched(t)
    PROVE  IInv'
<1>1. TypeOK /\ Sound(s) /\ pc \in [Tid -> PC] /\ ret[t] \in {"return", "wait_check", "dead"}
  BY Zenon DEF IInv, TypeOK
<1>2. /\ cpu = t /\ pc[t] = "sched" /\ s' = Schedule(s)
      /\ pc' = [pc EXCEPT ![t] = IF Switches(s) THEN "switch" ELSE ret[t]]
      /\ cpu' = cpu /\ nextTid' = nextTid /\ table' = table /\ local' = local /\ ret' = ret
  BY DEF Sched, At, Goto, taskVars, cpuVars
<1>3. ScheduleEffect(s, s') /\ SameQueued(s, s)
  BY <1>1, <1>2, ScheduleSound, Zenon DEF SameQueued
<1>4. Sound(s') /\ s' \in SchedState
  BY <1>3, Zenon DEF ScheduleEffect, Sound
<1>5. pc' \in [Tid -> PC]
  BY <1>1, <1>2, Zenon DEF PC
<1>6. TypeOK'
  BY <1>1, <1>4, <1>5, Zenon DEF TypeOK, Sched, taskVars, cpuVars
<1>7. t # Idle
  BY <1>2 DEF IInv, IdleInv
<1>8. s.current = t \/ (s.current = None /\ ret[t] = "dead")
  BY <1>2, Zenon DEF IInv, CpuInv
<1>9. \A u \in Tid \ {t} : pc'[u] = pc[u]
  BY <1>1, <1>2, Zenon
<1>10. CASE Switches(s)
  <2>1. pc'[t] = "switch"
    BY <1>1, <1>2, <1>10, Zenon
  <2>2. \A u \in Tid : Left(u)' <=> Left(u)
    BY <1>2, <1>9, <2>1, Zenon DEF Left
  <2>3. s'.current \in Tid /\ Queued(s, s'.current) /\ s'.current # s.current
    BY <1>3, <1>10, Zenon DEF ScheduleEffect
  <2>4. s'.current # t
    <3>1. CASE s.current = t
      BY <2>3, <3>1, Zenon
    <3>2. CASE ret[t] = "dead"
      <4>1. Left(t)
        BY <1>2, <3>2, Zenon DEF Left
      <4> QED
        BY <2>3, <4>1, Zenon DEF IInv, LeftInv
    <3> QED
      BY <1>8, <3>1, <3>2, Zenon
  <2>5. CpuInv'
    BY <1>2, <1>9, <2>1, <2>3, <2>4, Zenon DEF IInv, CpuInv
  <2>6. DispatchStep(s)
    BY <1>2, <1>3, <1>9, <1>10, <2>1, <2>2 DEF DispatchStep
  <2> QED
    BY <1>6, <2>5, <2>6, DispatchSound, Zenon
<1>11. CASE ~Switches(s)
  <2>1. s.current = t
    BY <1>1, <1>3, <1>8, <1>11, SwitchesIfNone, Zenon
  <2>2. ~Left(t)
    BY <2>1, Zenon DEF IInv, LeftInv
  <2>3. ret[t] \in {"return", "wait_check"}
    BY <1>1, <1>2, <2>2, Zenon DEF Left
  <2>4. Queued(s, Idle)
    BY <1>7, <2>1, Zenon DEF IInv, IdleInv
  <2>5. s.state[t] # "Blocked"
    BY <1>1, <1>11, <2>1, <2>4, TidFacts, SwitchesIfBlocked, Zenon
  <2>6. s.state[t] # "Zombie"
    BY <1>2, <2>2, Zenon DEF IInv, ZombieInv
  <2>7. SameQueued(s, s') /\ s'.current = s.current /\ s'.state = s.state
    BY <1>3, <1>11, Zenon DEF ScheduleEffect
  <2>8. pc'[t] = ret[t]
    BY <1>1, <1>2, <1>11, Zenon
  <2>9. ~Spawning(t) /\ ~Spawning(t)' /\ ~Left(t)' /\ pc'[t] # "switch"
    BY <1>2, <2>3, <2>8, Zenon DEF Spawning, Left
  <2>10. Stays(t)
    BY <1>2, <1>4, <1>7, <1>9, <2>1, <2>2, <2>5, <2>6, <2>7, <2>9 DEF Stays
  <2> QED
    BY <1>6, <2>10, StaysSound, Zenon
<1> QED
  BY <1>10, <1>11, Zenon

\* switch_to: the CPU follows the current task.
LEMMA SwitchSound ==
    ASSUME IInv, corrupt = "no", NEW t \in Tid, Switch(t)
    PROVE  IInv'
<1>1. TypeOK /\ pc \in [Tid -> PC] /\ ret[t] \in {"return", "wait_check", "dead"}
  BY Zenon DEF IInv, TypeOK
<1>2. /\ cpu = t /\ pc[t] = "switch" /\ pc' = [pc EXCEPT ![t] = ret[t]] /\ s' = s
      /\ cpu' = s.current /\ nextTid' = nextTid /\ table' = table /\ local' = local /\ ret' = ret
  BY Zenon DEF Switch, Load, At, Goto, taskVars
<1>3. PICK in \in Tid \ {t} : in = s.current
  BY <1>2, Zenon DEF IInv, CpuInv
<1>4. pc' \in [Tid -> PC]
  BY <1>1, <1>2, Zenon DEF PC
<1>5. TypeOK'
  <2>1. intr' \in BOOLEAN /\ ctx' \in [Tid -> {"fresh", "irq", "call", "live"}]
    BY <1>1, <1>2, Zenon DEF TypeOK, Switch, Load
  <2>2. gs' = gs /\ kgs' = s.current
    BY DEF Switch, Load
  <2> QED
    BY <1>1, <1>2, <1>3, <1>4, <2>1, <2>2, ZenonT(60) DEF TypeOK, Switch, taskVars
<1>6. pc'[t] = ret[t] /\ \A u \in Tid \ {t} : pc'[u] = pc[u]
  BY <1>1, <1>2, Zenon
<1>7. \A u \in Tid : (Spawning(u)' <=> Spawning(u)) /\ (Left(u)' <=> Left(u))
  BY <1>1, <1>2, <1>6, Zenon DEF Spawning, Left
<1>8. \A v \in Tid : Unborn(v)' <=> Unborn(v)
  BY <1>2, <1>7, Zenon DEF Unborn
<1>9. ~Left(in)
  BY <1>3, Zenon DEF IInv, LeftInv
<1>10. SpawnInv'
  BY <1>2, <1>7, Zenon DEF IInv, SpawnInv
<1>11. UnbornInv'
  BY <1>2, <1>3, <1>6, <1>8, Zenon DEF IInv, UnbornInv
<1>12. IdleInv' /\ BlockedInv'
  BY <1>2, <1>3, <1>6, TidFacts, ZenonT(60) DEF IInv, IdleInv, BlockedInv
<1>13. LeftInv'
  BY <1>2, <1>3, <1>6, <1>7, <1>9 DEF IInv, LeftInv, Left
<1>14. CpuInv'
  BY <1>1, <1>2, <1>3, <1>6 DEF IInv, CpuInv
<1>15. TableInv'
  <2>1. \A u \in Tid : pc[u] = "spawn_insert" => pc'[u] = "spawn_insert"
    BY <1>2, <1>6, Zenon
  <2> QED
    BY <1>2, <1>3, <1>7, <1>9, <2>1, Zenon DEF IInv, TableInv
<1>16. ZombieInv'
  BY <1>2, <1>6, <1>7 DEF IInv, ZombieInv
<1>17. NoTaskLost'
  <2>1. \A u \in Tid : pc[u] = "spawn_push" => pc'[u] = "spawn_push"
    BY <1>2, <1>6, Zenon
  <2> QED
    BY <1>1, <1>2, <1>7, <2>1, Zenon DEF IInv, TypeOK, NoTaskLost
<1> QED
  BY <1>2, <1>5, <1>10, <1>11, <1>12, <1>13, <1>14, <1>15, <1>16, <1>17, ZenonT(60) DEF IInv
=============================================================================
