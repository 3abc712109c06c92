----------------------------- MODULE MCThreads ------------------------------
(***************************************************************************)
(* Small instances of what threads wait for: spinlocks, the resources of   *)
(* user programs, monitors and free frames.  The four have no variable in  *)
(* common, so a behaviour has one of them at work while the others stay in *)
(* an initial state.                                                       *)
(***************************************************************************)
EXTENDS QueuedResource, ThreadParts, ReaperPart

CONSTANTS Parts,                     \* which of the parts to check
          t1, t2, idle,              \* tasks
          table, sched, task, frames    \* spinlocks

Two      == {t1, t2}
Three    == {t1, t2, idle}
AllLocks == {table, sched, task, frames}
MCTaskLocks == {task}

\* One lock at a time, and none that timer_handler takes; and the nestings along
\* the hierarchy TASK_TABLE, SCHEDULER, task.
Flat   == {<<table>>, <<frames>>}
Nested == Flat \cup {<<sched>>, <<task>>, <<table, task>>, <<table, sched, task>>}

\* Programs that use the mutex only, and those that use the condition variable.
\* A system call runs with interrupts disabled.
MutexOrAll == {AllCalls \ {"wait"}, AllCalls}
Ring3      == {"run"}

\* A task of one page and one of two.
OneAndTwo == <<1, 2>>

VARIABLE part

ASSUME PartsAssumption ==
    /\ Parts \subseteq {"locks", "nested", "resource", "monitor", "reaper"}
    /\ QueuedResourceAssumption /\ Locks!SpinlocksAssumption
    /\ Mon!MonitorAssumption /\ Pool!ReaperAssumption

lockVars    == <<flags, guards, cpu, lpc, plan, held, inTick>>
monitorVars == <<ms, turn, handoffs, mwaiters, mpc>>
reaperVars  == <<resident, onDisk, accessed, dirty, touches,
                 ppc, todo, found, cands, sweep, pos, progress, full>>
allVars     == <<part, vars, lockVars, monitorVars, reaperVars>>

MCInit ==
    /\ part \in Parts
    /\ Init /\ Locks!Init /\ Mon!Init /\ Pool!Init
    /\ part \notin {"locks", "nested"} => cpu = t1
    /\ part # "resource" => s.current = t1 /\ program = AllCalls

OnlyFlat     ==
    /\ \A t \in Two : plan'[t] \in Flat \cup {<< >>}
    /\ UNCHANGED <<part, vars, monitorVars, reaperVars>>
OnlyNested   == part = "nested" /\ UNCHANGED <<part, vars, monitorVars, reaperVars>>
OnlyResource == part = "resource" /\ UNCHANGED <<part, lockVars, monitorVars, reaperVars>>
OnlyMonitor  == part = "monitor" /\ UNCHANGED <<part, vars, lockVars, reaperVars>>
OnlyReaper   == part = "reaper" /\ UNCHANGED <<part, vars, lockVars, monitorVars>>

\* In the nested part timer_handler may spin for ever.
MCNext ==
    \/ part = "locks" /\ Locks!Next /\ OnlyFlat
    \/ OnlyNested   /\ (Locks!Next \/ (inTick /\ UNCHANGED lockVars))
    \/ OnlyResource /\ Next
    \/ OnlyMonitor  /\ Mon!Next
    \/ OnlyReaper   /\ Pool!Next
-----------------------------------------------------------------------------
\* The fairness of the parts: FairSpec of Spinlocks, QueuedResource, Monitor and
\* Reaper.
Goes(t) ==
    \/ part = "locks" /\ Locks!Step(t) /\ OnlyFlat
    \/ OnlyResource /\ Continue(t) /\ UNCHANGED program
    \/ OnlyMonitor  /\ Mon!Continue(t)

IsLetGo(t) ==
    \/ part = "locks" /\ Locks!Timer /\ cpu' = t /\ OnlyFlat
    \/ OnlyResource /\ CallUnlock(t) /\ UNCHANGED program

Ticks ==
    \/ OnlyResource /\ Timer /\ UNCHANGED program
    \/ OnlyMonitor  /\ Mon!Timer
    \/ OnlyReaper   /\ Pool!Reap

MCSpec ==
    /\ MCInit /\ [][MCNext]_allVars
    /\ \A t \in Two : SF_allVars(Goes(t)) /\ SF_allVars(IsLetGo(t))
    /\ WF_allVars(Ticks)
-----------------------------------------------------------------------------
\* Spinlock::lock and drop: a spinlock that is taken alone, and not by
\* timer_handler, is eventually released.
FlatLocksReleased == part = "locks" => Locks!LockReleased

\* ping_pong_task: both tasks see the last handoff and exit.
PingPongEnds == part = "monitor" => Mon!PingPongEnds

\* gather_candidates, reap_to and reaper_main: pages of tasks above their share
\* come first, a round of sweeps that evicts nothing has met a full swap partition,
\* and the pool of free frames does not stay below its minimum while pages are
\* resident and slots are left.
PoolRefilled ==
    /\ [](Pool!TypeOK /\ Pool!AboveShareFirst)
    /\ Pool!RoundMakesProgress
    /\ Pool!PoolRefilled
=============================================================================
