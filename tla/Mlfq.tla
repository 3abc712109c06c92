-------------------------------- MODULE Mlfq --------------------------------
(***************************************************************************)
(* The multilevel feedback queue of src/kernel/src/scheduler/mlfq.rs, as   *)
(* operators on one scheduler value s.  The fields of s are those of       *)
(* struct MlfqScheduler, plus the two fields of struct Task that the       *)
(* scheduler reads and writes under the task lock (state and priority).    *)
(* The SCHEDULER spinlock is held around every method, so each operator is *)
(* one atomic change of s.                                                 *)
(*                                                                         *)
(* total_ticks is kept modulo BoostPeriod: the code only ever tests        *)
(* total_ticks % BOOST_PERIOD.                                             *)
(***************************************************************************)
EXTENDS Integers, Sequences

CONSTANTS Tid,          \* task identifiers
          NumQueues,    \* NUM_QUEUES, 8 in the code
          BoostPeriod,  \* BOOST_PERIOD, 100 in the code
          None          \* no task: Option::None of current

ASSUME MlfqAssumption ==
    /\ NumQueues \in 2..256
    /\ BoostPeriod \in Nat \ {0}
    /\ None \notin Tid

Level == 0..(NumQueues - 1)
TaskState == {"Running", "Ready", "Blocked", "Zombie"}
Priority == 0..255                      \* u8

\* TIME_SLICES[i] = (i + 1)^2
TimeSlice(i) == (i + 1) * (i + 1)

\* The values of the scheduler: struct MlfqScheduler.
SchedState ==
    [queues : [Level -> Seq(Tid)],
     current : Tid \cup {None},
     ticks_remaining : Nat,
     total_ticks : 0..(BoostPeriod - 1),
     needs_reschedule : BOOLEAN,
     state : [Tid -> TaskState],
     priority : [Tid -> Priority]]

\* Task t is somewhere in the sequence q.
Occurs(q, t) == \E i \in 1..Len(q) : q[i] = t

\* Task t is in some run queue of s.
Queued(s, t) == \E i \in Level : Occurs(s.queues[i], t)

\* Some run queue of s holds a task, so that pick_next finds one.
SomeQueued(s) == \E i \in Level : s.queues[i] # << >>
-----------------------------------------------------------------------------
\* push: the queue of the task's priority, the last one if there is none.
Push(s, t) ==
    LET p == IF s.priority[t] < NumQueues THEN s.priority[t] ELSE NumQueues - 1
    IN  [s EXCEPT !.queues[p] = Append(@, t)]

\* The queues after a boost: every queue but the first moves up one level,
\* behind what queue 0 already held.
Promoted(queues) ==
    [i \in Level |-> IF i = 0 THEN queues[0] \o queues[1]
                     ELSE IF i = NumQueues - 1 THEN << >>
                     ELSE queues[i + 1]]

\* Mutants of boost_priorities: nothing moves; the priorities are not updated;
\* the last queue is taken and not put back.
BoostNothing(s) == s

BoostQueuesOnly(s) == [s EXCEPT !.queues = Promoted(s.queues)]

BoostDropsLast(s) == [s EXCEPT !.queues[NumQueues - 1] = << >>]

\* boost_priorities: the queued tasks take the priority of their new level.
\* The running task is in no queue and keeps its own.
BoostPriorities(s) ==
    [s EXCEPT
       !.queues = Promoted(@),
       !.priority = [t \in Tid |->
                     IF \E i \in Level \ {0} : Occurs(s.queues[i], t)
                     THEN (CHOOSE i \in Level \ {0} :
                             /\ Occurs(s.queues[i], t)
                             /\ \A j \in Level : j > i => ~Occurs(s.queues[j], t)) - 1
                     ELSE s.priority[t]]]

\* Mutant: the slice is charged without the test for zero.
TickUnderflow(s) ==
    LET total == (s.total_ticks + 1) % BoostPeriod
        b     == IF total = 0 THEN BoostPriorities(s) ELSE s
    IN  IF s.current = None
        THEN [b EXCEPT !.total_ticks = total]
        ELSE [b EXCEPT !.total_ticks = total,
                       !.ticks_remaining = @ - 1,
                       !.needs_reschedule = (b.ticks_remaining = 1) \/ @]

\* tick, the timer's half of the scheduler: count, boost, charge the slice.
Tick(s) ==
    LET total == (s.total_ticks + 1) % BoostPeriod
        b     == IF total = 0 THEN BoostPriorities(s) ELSE s
        left  == IF b.ticks_remaining > 0 THEN b.ticks_remaining - 1 ELSE 0
    IN  IF s.current = None
        THEN [b EXCEPT !.total_ticks = total]
        ELSE [b EXCEPT !.total_ticks = total,
                       !.ticks_remaining = left,
                       !.needs_reschedule = (left = 0) \/ @]

\* should_reschedule: a current task that is Blocked or Zombie must go.
ShouldReschedule(s) ==
    IF s.current # None /\ s.state[s.current] \in {"Blocked", "Zombie"}
    THEN [s EXCEPT !.needs_reschedule = TRUE]
    ELSE s

\* Mutant: the queues are scanned from the last one.
LastLevel(s) ==
    CHOOSE i \in Level : /\ s.queues[i] # << >>
                         /\ \A j \in Level : j > i => s.queues[j] = << >>

\* pick_next looks for the first queue that is not empty ...
FirstLevel(s) ==
    CHOOSE i \in Level : /\ s.queues[i] # << >>
                         /\ \A j \in Level : j < i => s.queues[j] = << >>

\* ... and pops its head.
PickNext(s) == Head(s.queues[FirstLevel(s)])

\* prepare_switch returns Some pair exactly when this holds.
WillSwitch(s) == s.needs_reschedule /\ SomeQueued(s)

\* Mutants of the outgoing half of prepare_switch: only a Running task becomes
\* Ready; a Blocked task stays out of the queues.
RequeueKeepsState(s, out) ==
    LET p == IF s.priority[out] + 1 < NumQueues - 1
             THEN s.priority[out] + 1 ELSE NumQueues - 1
    IN  [s EXCEPT !.priority[out] = p,
                  !.state[out] = IF @ = "Running" THEN "Ready" ELSE @,
                  !.queues[p] = Append(@, out)]

RequeueUnlessBlocked(s, out) ==
    LET p == IF s.priority[out] + 1 < NumQueues - 1
             THEN s.priority[out] + 1 ELSE NumQueues - 1
    IN  IF s.state[out] = "Blocked"
        THEN s
        ELSE [s EXCEPT !.priority[out] = p,
                       !.state[out] = "Ready",
                       !.queues[p] = Append(@, out)]

\* The outgoing half of prepare_switch: whatever its state was, the current
\* task goes down one level and to the back of that queue, as Ready.
Requeue(s, out) ==
    LET p == IF s.priority[out] + 1 < NumQueues - 1
             THEN s.priority[out] + 1 ELSE NumQueues - 1
    IN  [s EXCEPT !.priority[out] = p,
                  !.state[out] = "Ready",
                  !.queues[p] = Append(@, out)]

\* prepare_switch: pop the incoming task, requeue the outgoing one, start the
\* slice of the incoming task's priority.
PrepareSwitch(s) ==
    IF ~WillSwitch(s)
    THEN [s EXCEPT !.needs_reschedule = FALSE]
    ELSE LET in     == PickNext(s)
             popped == [s EXCEPT !.queues[FirstLevel(s)] = Tail(@)]
             gone   == IF s.current = None THEN popped ELSE Requeue(popped, s.current)
         IN  [gone EXCEPT !.current = in,
                          !.state[in] = "Running",
                          !.ticks_remaining = TimeSlice(gone.priority[in]),
                          !.needs_reschedule = FALSE]

\* scheduler::schedule() up to the context switch itself, preempt_count = 0.
Schedule(s) == PrepareSwitch(ShouldReschedule(s))
Switches(s) == WillSwitch(ShouldReschedule(s))

\* Mutant: the exiting task does not ask for a switch.
RemoveCurrentQuietly(s) == [s EXCEPT !.current = None, !.ticks_remaining = 0]

\* remove_current: the exiting task leaves the CPU and enters no queue.
RemoveCurrent(s) ==
    IF s.current = None
    THEN s
    ELSE [s EXCEPT !.current = None,
                   !.ticks_remaining = 0,
                   !.needs_reschedule = TRUE]

\* scheduler::unblock_tid: only a Blocked task becomes Ready and is pushed.
Unblock(s, t) ==
    IF s.state[t] = "Blocked"
    THEN Push([s EXCEPT !.state[t] = "Ready"], t)
    ELSE s

\* A lifecycle or wait routine writes the state of task t.
SetState(s, t, st) == [s EXCEPT !.state[t] = st]
-----------------------------------------------------------------------------
\* What the run queues must satisfy for the scheduler to be a scheduler: each
\* task is queued at most once, in the queue of its own priority, as Ready,
\* and never while it is the current task.
RunQueuesWellFormed(s) ==
    /\ \A i, j \in Level : \A m \in 1..Len(s.queues[i]), n \in 1..Len(s.queues[j]) :
          s.queues[i][m] = s.queues[j][n] => i = j /\ m = n
    /\ \A i \in Level : \A m \in 1..Len(s.queues[i]) :
          /\ s.priority[s.queues[i][m]] = i
          /\ s.state[s.queues[i][m]] = "Ready"
          /\ s.queues[i][m] # s.current
=============================================================================
