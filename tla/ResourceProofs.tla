--------------------------- MODULE ResourceProofs ---------------------------
(***************************************************************************)
(* What threads wait for.  The mutex and condition variable for any number *)
(* of tasks and waiters: mutual exclusion, and run queues that blocking    *)
(* and waking keep well formed as long as nobody calls wait().  The reaper *)
(* for any tasks and pages: its order of victims, and progress.            *)
(***************************************************************************)
EXTENDS QueuedResource, ReaperPart, MlfqProofs, FiniteSetTheorems

\* What the operations on the run queues give is a scheduler value, whatever state
\* the queues are in.
LEMMA PushTyped ==
    ASSUME NEW x \in SchedState, NEW t \in Tid
    PROVE  /\ Push(x, t) \in SchedState /\ Push(x, t).current = x.current
<1> DEFINE p == IF x.priority[t] < NumQueues THEN x.priority[t] ELSE NumQueues - 1
           Q == [x.queues EXCEPT ![p] = Append(@, t)]
<1>1. p \in Level
  <2>1. \A k \in Priority : (IF k < NumQueues THEN k ELSE NumQueues - 1) \in Level
    BY MlfqAssumption, SMTT(60) DEF Priority, Level
  <2> QED
    BY <2>1, Zenon DEF SchedState
<1>2. Push(x, t) = [x EXCEPT !.queues = Q]
  BY Zenon DEF Push
<1> HIDE DEF p
<1>3. x.queues \in [Level -> Seq(Tid)]
  BY Zenon DEF SchedState
<1>4. Q \in [Level -> Seq(Tid)]
  BY <1>1, <1>3, AppendOne, Zenon
<1> HIDE DEF Q
<1> QED
  BY <1>2, <1>4, Zenon DEF SchedState

LEMMA SetStateTyped ==
    ASSUME NEW x \in SchedState, NEW t \in Tid, NEW st \in TaskState
    PROVE  /\ SetState(x, t, st) \in SchedState /\ SetState(x, t, st).current = x.current
  BY Zenon DEF SetState, SchedState

LEMMA UnblockTyped ==
    ASSUME NEW x \in SchedState, NEW t \in Tid
    PROVE  Unblock(x, t) \in SchedState /\ Unblock(x, t).current = x.current
<1>1. SetState(x, t, "Ready") \in SchedState /\ SetState(x, t, "Ready").current = x.current
  BY SetStateTyped, Zenon DEF TaskState
<1>2. Unblock(x, t) = IF x.state[t] = "Blocked" THEN Push(SetState(x, t, "Ready"), t) ELSE x
  BY Zenon DEF Unblock, SetState
<1> QED
  BY <1>1, <1>2, PushTyped, Zenon

LEMMA BoostTyped ==
    ASSUME NEW x \in SchedState
    PROVE  BoostPriorities(x) \in SchedState /\ BoostPriorities(x).current = x.current
<1> DEFINE Q == x.queues
           From(t, i) == /\ Occurs(Q[i], t)
                         /\ \A j \in Level : j > i => ~Occurs(Q[j], t)
           P == [t \in Tid |-> IF \E i \in Level \ {0} : Occurs(Q[i], t)
                               THEN (CHOOSE i \in Level \ {0} : From(t, i)) - 1
                               ELSE x.priority[t]]
<1>1. BoostPriorities(x) = [x EXCEPT !.queues = Promoted(Q), !.priority = P]
  BY Zenon DEF BoostPriorities
<1>2. Promoted(Q) \in [Level -> Seq(Tid)]
  <2>1. Q \in [Level -> Seq(Tid)]
    BY Zenon DEF SchedState
  <2> QED
    BY <2>1, BoostedQueues, Zenon DEF BoostedFrom
<1>3. ASSUME NEW t \in Tid, \E i \in Level \ {0} : Occurs(Q[i], t)
      PROVE  (CHOOSE i \in Level \ {0} : From(t, i)) \in Level \ {0}
  <2> DEFINE S == {n \in Nat : n < NumQueues /\ n # NumQueues - 1 /\ Occurs(Q[NumQueues - 1 - n], t)}
  <2>1. PICK i \in Level \ {0} : Occurs(Q[i], t)
    BY <1>3, Zenon
  <2>2. NumQueues \in Nat /\ i \in Nat /\ i # 0 /\ i <= NumQueues - 1
    BY <2>1, MlfqAssumption, SMTT(60) DEF Level
  <2>3. NumQueues - 1 - i \in S
    <3>1. NumQueues - 1 - i \in Nat /\ NumQueues - 1 - i < NumQueues /\ NumQueues - 1 - i # NumQueues - 1
          /\ NumQueues - 1 - (NumQueues - 1 - i) = i
      BY <2>2, SMTT(60)
    <3> QED
      BY <2>1, <3>1, Zenon
  <2>4. PICK n \in S : \A m \in S : n <= m
    <3>1. S \subseteq Nat /\ S # {}
      BY <2>3, Zenon
    <3> HIDE DEF S
    <3> QED
      BY <3>1, LeastNat, Zenon
  <2> DEFINE k == NumQueues - 1 - n
  <2>5. n \in Nat /\ n < NumQueues /\ n # NumQueues - 1 /\ k \in Level \ {0} /\ Occurs(Q[k], t)
    BY <2>2, <2>4, SMTT(60) DEF Level
  <2>6. ASSUME NEW j \in Level, j > k PROVE ~Occurs(Q[j], t)
    <3>1. j \in Nat /\ j <= NumQueues - 1
      BY <2>2, SMTT(60) DEF Level
    <3>2. NumQueues - 1 - j \in Nat /\ NumQueues - 1 - j < n /\ NumQueues - 1 - j # NumQueues - 1
          /\ NumQueues - 1 - j < NumQueues /\ NumQueues - 1 - (NumQueues - 1 - j) = j
      BY <2>2, <2>5, <2>6, <3>1, SMTT(60)
    <3>3. NumQueues - 1 - j \notin S
      BY <2>4, <2>5, <3>2, SMTT(60)
    <3> DEFINE m == NumQueues - 1 - j
    <3>4. m \in Nat /\ m < NumQueues /\ m # NumQueues - 1 /\ m \notin S /\ Q[NumQueues - 1 - m] = Q[j]
      BY <3>2, <3>3, Zenon
    <3> HIDE DEF m, Q
    <3>5. ~Occurs(Q[NumQueues - 1 - m], t)
      BY <3>4, Zenon
    <3> QED
      BY <3>4, <3>5, Zenon
  <2>7. From(t, k)
    BY <2>5, <2>6, Zenon
  <2> HIDE DEF From, k
  <2> QED
    BY <2>5, <2>7, Zenon
<1>4. P \in [Tid -> Priority]
  <2>1. \A i \in Level \ {0} : i - 1 \in Priority
    BY LevelFacts, Zenon
  <2>2. x.priority \in [Tid -> Priority]
    BY Zenon DEF SchedState
  <2> HIDE DEF From
  <2> QED
    BY <1>3, <2>1, <2>2, Zenon
<1> HIDE DEF P
<1> QED
  BY <1>1, <1>2, <1>4, Zenon DEF SchedState

LEMMA TickTyped ==
    ASSUME NEW x \in SchedState
    PROVE  Tick(x) \in SchedState /\ Tick(x).current = x.current
<1> DEFINE total == (x.total_ticks + 1) % BoostPeriod
           b == IF total = 0 THEN BoostPriorities(x) ELSE x
           left == IF b.ticks_remaining > 0 THEN b.ticks_remaining - 1 ELSE 0
<1>1. b \in SchedState /\ b.current = x.current
  BY BoostTyped, Zenon
<1>2. total \in 0..(BoostPeriod - 1)
  BY MlfqAssumption, SMTT(60) DEF SchedState
<1>3. Tick(x) = IF x.current = None
                THEN [b EXCEPT !.total_ticks = total]
                ELSE [b EXCEPT !.total_ticks = total, !.ticks_remaining = left,
                               !.needs_reschedule = (left = 0) \/ b.needs_reschedule]
  BY Zenon DEF Tick
<1> HIDE DEF b, total
<1>4. left \in Nat
  BY <1>1, SMTT(60) DEF SchedState
<1>5. ((left = 0) \/ b.needs_reschedule) \in BOOLEAN
  BY Zenon
<1> HIDE DEF left
<1>6. CASE x.current = None
  BY <1>1, <1>2, <1>3, <1>6, Zenon DEF SchedState
<1>7. CASE x.current # None
  BY <1>1, <1>2, <1>3, <1>4, <1>5, <1>7, ZenonT(60) DEF SchedState
<1> QED
  BY <1>6, <1>7, Zenon

LEMMA ScheduleTyped ==
    ASSUME NEW x \in SchedState
    PROVE  /\ Schedule(x) \in SchedState
           /\ x.current \in Tid => Schedule(x).current \in Tid
<1> DEFINE y == ShouldReschedule(x)
<1>1. y \in SchedState /\ y.current = x.current
  BY Zenon DEF ShouldReschedule, SchedState
<1>2. Schedule(x) = PrepareSwitch(y)
  BY Zenon DEF Schedule
<1> HIDE DEF y
<1>3. CASE ~WillSwitch(y)
  BY <1>1, <1>2, <1>3, Zenon DEF PrepareSwitch, SchedState
<1>4. CASE WillSwitch(y)
  <2> DEFINE l      == FirstLevel(y)
             in     == PickNext(y)
             Q      == [y.queues EXCEPT ![l] = Tail(@)]
             taken == [y EXCEPT !.queues = Q]
             gone   == IF y.current = None THEN taken ELSE Requeue(taken, y.current)
             slice  == TimeSlice(gone.priority[in])
  <2>1. l \in Level /\ y.queues[l] # << >> /\ y.queues \in [Level -> Seq(Tid)]
    BY <1>1, <1>4, FirstLevelFacts, Zenon DEF WillSwitch, SchedState
  <2>2. Q \in [Level -> Seq(Tid)]
    BY <2>1, TailOne, Zenon
  <2>3. in \in Tid
    <3>1. y.queues[l] \in Seq(Tid)
      BY <2>1, Zenon
    <3> HIDE DEF l
    <3> QED
      BY <2>1, <3>1, SMTT(60) DEF PickNext, l
  <2>4. Schedule(x) = [gone EXCEPT !.current = in, !.state[in] = "Running",
                                   !.ticks_remaining = slice, !.needs_reschedule = FALSE]
    BY <1>2, <1>4, Zenon DEF PrepareSwitch
  <2> HIDE DEF l, in, Q
  <2>5. taken \in SchedState /\ taken.current = y.current
    BY <1>1, <2>2, Zenon DEF SchedState
  <2> HIDE DEF taken
  <2>6. gone \in SchedState
    <3>1. CASE y.current = None
      BY <2>5, <3>1, Zenon
    <3>2. CASE y.current # None
      <4> DEFINE out == y.current
                 p == IF taken.priority[out] + 1 < NumQueues - 1
                      THEN taken.priority[out] + 1 ELSE NumQueues - 1
                 R == [taken.queues EXCEPT ![p] = Append(@, out)]
      <4>1. out \in Tid
        BY <1>1, <3>2, Zenon DEF SchedState
      <4>2. p \in Level /\ p \in Priority
        <5>1. \A k \in Priority : LET d == IF k + 1 < NumQueues - 1 THEN k + 1 ELSE NumQueues - 1
                                  IN  d \in Level /\ d \in Priority
          BY MlfqAssumption, SMTT(60) DEF Priority, Level
        <5>2. taken.priority[out] \in Priority
          BY <2>5, <4>1, Zenon DEF SchedState
        <5> QED
          BY <5>1, <5>2, Zenon
      <4>3. gone = [taken EXCEPT !.priority[out] = p, !.state[out] = "Ready", !.queues = R]
        BY <3>2, Zenon DEF Requeue
      <4> HIDE DEF out, p
      <4>4. R \in [Level -> Seq(Tid)]
        BY <2>5, <4>1, <4>2, AppendOne, Zenon DEF SchedState
      <4> HIDE DEF R, gone
      <4> QED
        BY <2>5, <4>1, <4>2, <4>3, <4>4, Zenon DEF SchedState, TaskState
    <3> QED
      BY <3>1, <3>2, Zenon
  <2> HIDE DEF gone
  <2>7. slice \in Nat
    <3>1. \A k \in Priority : TimeSlice(k) \in Nat
      BY SMTT(60) DEF Priority, TimeSlice
    <3>2. gone.priority[in] \in Priority
      BY <2>3, <2>6, Zenon DEF SchedState
    <3> QED
      BY <3>1, <3>2, Zenon
  <2> HIDE DEF slice
  <2> DEFINE st == [gone.state EXCEPT ![in] = "Running"]
  <2>8. st \in [Tid -> TaskState]
    BY <2>6, Zenon DEF SchedState, TaskState
  <2>9. Schedule(x) = [gone EXCEPT !.current = in, !.state = st,
                                   !.ticks_remaining = slice, !.needs_reschedule = FALSE]
    BY <2>4, Zenon
  <2> HIDE DEF st
  <2> QED
    BY <2>3, <2>6, <2>7, <2>8, <2>9, ZenonT(60) DEF SchedState
<1> QED
  BY <1>3, <1>4, Zenon
-----------------------------------------------------------------------------
\* Task t has the mutex: a call gave it the lock, or it is about to free it.
Owns(t) == holds[t] \/ pc[t] = "unlock"

\* At most one task has the mutex, and then its flag is set.  wait() starts with the
\* mutex, and who is about to free it has not been given it again.
Owned ==
    /\ \A t \in Tid : Owns(t) => locked
    /\ \A t, u \in Tid : Owns(t) /\ Owns(u) => t = u
    /\ \A t \in Tid : /\ pc[t] \in {"push", "mark"} => holds[t]
                      /\ pc[t] = "unlock" => ~holds[t]

\* Without wait() the run queues are sound, the idle task is there to switch to, and
\* the only Blocked task is the current one on its way from lock() to schedule().
Calm ==
    /\ Sound(s) /\ s.current \in Tid
    /\ Queued(s, Idle) \/ s.current = Idle
    /\ \A t \in Tid : s.state[t] = "Blocked" => t = s.current /\ pc[t] = "sched"
    /\ \A t \in Tid : pc[t] \notin {"push", "mark"}

\* The inductive invariant.
ResInv ==
    /\ QueuedResourceAssumption
    /\ TypeOK
    /\ Owned
    /\ pc[Idle] = "run"
    /\ "wait" \notin program => Calm

\* A user task runs, the others wait in the first queue, once each, and the idle task
\* in the last.
LEMMA ResInit == QueuedResourceAssumption /\ Init => ResInv
<1> SUFFICES ASSUME QueuedResourceAssumption, Init PROVE ResInv
  BY Zenon
<1> USE DEF User
<1> DEFINE n == Cardinality(User) - 1
<1>1. PICK first \in User, rest \in [1..n -> User] :
         /\ {rest[i] : i \in DOMAIN rest} = User \ {first}
         /\ s = [queues |-> [i \in Level |-> IF i = 0 THEN rest
                                              ELSE IF i = NumQueues - 1 THEN <<Idle>> ELSE << >>],
                  current |-> first,
                  ticks_remaining |-> TimeSlice(0),
                  total_ticks |-> 0,
                  needs_reschedule |-> FALSE,
                  state |-> [t \in Tid |-> IF t = first THEN "Running" ELSE "Ready"],
                  priority |-> [t \in Tid |-> IF t = Idle THEN NumQueues - 1 ELSE 0]]
  BY Zenon DEF Init, User
<1>2. n \in Nat /\ \A i, j \in 1..n : rest[i] = rest[j] => i = j
  <2>1. IsFiniteSet(User) /\ IsFiniteSet(User \ {first})
    BY FS_RemoveElement, Zenon DEF QueuedResourceAssumption
  <2>2. Cardinality(User) \in Nat /\ Cardinality(User \ {first}) = n /\ Cardinality(User \ {first}) \in Nat
    BY <2>1, FS_RemoveElement, FS_CardinalityType, Zenon
  <2>3. IsFiniteSet(1..n) /\ Cardinality(1..n) = n
    BY <2>2, FS_Interval, SMTT(60)
  <2>4. rest \in Surjection(1..n, User \ {first})
    BY <1>1, Zenon DEF Surjection
  <2>5. rest \in Injection(1..n, User \ {first})
    BY <2>1, <2>2, <2>3, <2>4, FS_SurjSameCardinalityImpliesInj, Zenon
  <2> QED
    BY <2>2, <2>5, Zenon DEF Injection, IsInjective
<1>3. \A i \in 1..n : rest[i] \in User \ {first}
  BY <1>1, Zenon
<1> HIDE DEF n
<1>4. 0 \in Level /\ NumQueues - 1 \in Level /\ 0 # NumQueues - 1
  BY LevelFacts, MlfqAssumption, SMTT(60)
<1>5. /\ s.queues = [i \in Level |-> IF i = 0 THEN rest ELSE IF i = NumQueues - 1 THEN <<Idle>> ELSE << >>]
      /\ s.current = first
      /\ s.state = [t \in Tid |-> IF t = first THEN "Running" ELSE "Ready"]
      /\ s.priority = [t \in Tid |-> IF t = Idle THEN NumQueues - 1 ELSE 0]
  BY <1>1, Zenon
<1>6. Idle \in Tid /\ first \in Tid /\ first # Idle
  BY Zenon DEF QueuedResourceAssumption
<1>7. /\ rest \in Seq(Tid) /\ Len(rest) = n
      /\ <<Idle>> \in Seq(Tid) /\ Len(<<Idle>>) = 1 /\ <<Idle>>[1] = Idle
  BY <1>2, <1>6, SMTT(60)
<1>8. s \in SchedState
  <2>1. TimeSlice(0) \in Nat /\ 0 \in 0..(BoostPeriod - 1)
    BY MlfqAssumption, SMTT(60) DEF TimeSlice
  <2>2. s.queues \in [Level -> Seq(Tid)]
    BY <1>5, <1>7, SMTT(60)
  <2>3. s.state \in [Tid -> TaskState] /\ s.priority \in [Tid -> Priority]
    BY <1>4, <1>5, LevelFacts, ZenonT(60) DEF TaskState
  <2> QED
    BY <1>1, <1>6, <2>1, <2>2, <2>3, Zenon DEF SchedState
<1>9. \A i \in Level : \A m \in 1..Len(s.queues[i]) :
         \/ i = 0 /\ m \in 1..n /\ s.queues[i][m] = rest[m]
         \/ i = NumQueues - 1 /\ m = 1 /\ s.queues[i][m] = Idle
  BY <1>4, <1>5, <1>7, SMTT(60)
<1>10. RunQueuesWellFormed(s)
  <2>1. \A i, j \in Level : \A a \in 1..Len(s.queues[i]), b \in 1..Len(s.queues[j]) :
           s.queues[i][a] = s.queues[j][b] => i = j /\ a = b
    BY <1>2, <1>3, <1>9, SMTT(60)
  <2>2. \A i \in Level : \A m \in 1..Len(s.queues[i]) :
           /\ s.priority[s.queues[i][m]] = i
           /\ s.state[s.queues[i][m]] = "Ready"
           /\ s.queues[i][m] # s.current
    BY <1>3, <1>5, <1>6, <1>9, SMTT(60)
  <2> QED
    BY <2>1, <2>2, Zenon DEF RunQueuesWellFormed
<1>11. Sound(s)
  BY <1>4, <1>5, <1>8, <1>10, Zenon DEF Sound
<1>12. Queued(s, Idle)
  <2>1. s.queues[NumQueues - 1] = <<Idle>>
    BY <1>4, <1>5, Zenon
  <2> QED
    <3>1. \E i \in 1..Len(<<Idle>>) : <<Idle>>[i] = Idle
      BY <1>7, SMTT(60)
    <3> QED
      BY <1>4, <2>1, <3>1, Zenon DEF Queued, Occurs
<1>13. /\ pc = [t \in Tid |-> "run"] /\ then = [t \in Tid |-> "run"] /\ popped = [t \in Tid |-> None]
       /\ holds = [t \in Tid |-> FALSE] /\ calls = [t \in Tid |-> 0]
       /\ made = FALSE /\ locked = FALSE /\ waiters = << >> /\ cond_waiters = << >> /\ program \in Programs
  BY Zenon DEF Init
<1>14. Calm
  BY <1>5, <1>6, <1>11, <1>12, <1>13, Zenon DEF Calm
<1>15. TypeOK
  <2>1. MaxCalls \in Nat /\ MaxWaiters \in Nat
    BY Zenon DEF QueuedResourceAssumption
  <2>2. /\ pc \in [Tid -> PC] /\ then \in [Tid -> {"run", "sched"}]
        /\ popped \in [Tid -> User \cup {None}] /\ holds \in [Tid -> BOOLEAN]
    BY <1>13, Zenon DEF PC
  <2>3. calls \in [Tid -> 0..MaxCalls]
    BY <1>13, <2>1, SMTT(60)
  <2>4. << >> \in Seq(User) /\ Len(<< >>) <= MaxWaiters
    BY <2>1, SMTT(60)
  <2> QED
    BY <1>8, <1>13, <2>2, <2>3, <2>4, Zenon DEF TypeOK
<1>16. Owned
  BY <1>13, Zenon DEF Owned, Owns
<1> QED
  BY <1>6, <1>13, <1>14, <1>15, <1>16, Zenon DEF ResInv

\* A step of a task that neither has the mutex to give up nor gets it.
LEMMA OwnedKept ==
    ASSUME Owned, TypeOK, NEW t \in Tid, NEW l,
           pc' = [pc EXCEPT ![t] = l], l \notin {"unlock", "push", "mark"},
           pc[t] # "unlock", UNCHANGED <<holds, locked>>
    PROVE  Owned'
<1>1. \A u \in Tid : pc'[u] = (IF u = t THEN l ELSE pc[u])
  BY Zenon DEF TypeOK
<1> QED
  BY <1>1, ZenonT(60) DEF Owned, Owns

\* Every step leaves at most one task with the mutex.
LEMMA OwnedStep ==
    ASSUME Owned, TypeOK, pc[Idle] = "run", Next
    PROVE  Owned'
<1>1. \A t \in Tid : \A l : pc' = [pc EXCEPT ![t] = l] => \A u \in Tid : pc'[u] = IF u = t THEN l ELSE pc[u]
  BY Zenon DEF TypeOK
<1>2. \A t \in Tid : \A b : holds' = [holds EXCEPT ![t] = b] => \A u \in Tid : holds'[u] = IF u = t THEN b ELSE holds[u]
  BY Zenon DEF TypeOK
<1>3. CASE UNCHANGED <<pc, holds, locked>>
  BY <1>3, Zenon DEF Owned, Owns
<1>4. ASSUME NEW t \in Tid, CallLock(t) \/ Sched(t) \/ CallBroadcast(t) \/ BroadcastNext(t)
      PROVE  Owned'
  <2>1. UNCHANGED <<holds, locked>> /\ pc[t] # "unlock"
    BY <1>4, Zenon DEF CallLock, Sched, CallBroadcast, BroadcastNext, Call, At, res
  <2>2. UNCHANGED pc \/ \E l \in {"run", "lock", "broadcast"} : pc' = [pc EXCEPT ![t] = l]
    BY <1>4, Zenon DEF CallLock, Sched, CallBroadcast, BroadcastNext, Goto
  <2> QED
    BY <1>3, <2>1, <2>2, OwnedKept, Zenon
<1>5. ASSUME NEW t \in Tid, Wake(t) PROVE Owned'
  <2>1. UNCHANGED <<holds, locked>> /\ pc[t] = "wake" /\ pc' = [pc EXCEPT ![t] = then[t]]
    BY <1>5, Zenon DEF Wake, At, Goto, res
  <2>2. then[t] \in {"run", "sched"}
    BY Zenon DEF TypeOK
  <2> QED
    BY <2>1, <2>2, OwnedKept, Zenon
<1>6. ASSUME NEW t \in Tid, LockSection(t) PROVE Owned'
  <2>1. CASE ~locked /\ locked' = TRUE /\ holds' = [holds EXCEPT ![t] = TRUE] /\ pc' = [pc EXCEPT ![t] = "run"]
    BY <1>1, <1>2, <2>1, SMTT(60) DEF Owned, Owns
  <2>2. CASE locked /\ UNCHANGED <<locked, holds>> /\ pc' = [pc EXCEPT ![t] = "sched"] /\ pc[t] = "lock"
    BY <2>2, OwnedKept, Zenon
  <2> QED
    BY <1>6, <2>1, <2>2, Zenon DEF LockSection, Holds, Goto, At
<1>7. ASSUME NEW t \in Tid, TryLock(t) PROVE Owned'
  <2>1. /\ locked' = TRUE /\ holds' = [holds EXCEPT ![t] = ~locked] /\ UNCHANGED pc
        /\ pc[t] = "run" /\ ~holds[t]
    BY <1>7, Zenon DEF TryLock, Holds, Call, At
  <2>2. CASE locked
    <3>1. \A u \in Tid : ~holds'[u] <=> ~holds[u]
      <4>1. ~holds'[t] /\ ~holds[t]
        BY <1>2, <2>1, <2>2, Zenon
      <4> QED
        BY <1>2, <2>1, <4>1, SMTT(60)
    <3> QED
      BY <2>1, <2>2, <3>1, Zenon DEF Owned, Owns
  <2>3. CASE ~locked
    BY <1>2, <2>1, <2>3, Zenon DEF Owned, Owns
  <2> QED
    BY <2>2, <2>3, Zenon
<1>8. ASSUME NEW t \in Tid, CallUnlock(t) \/ WaitMark(t) PROVE Owned'
  <2>1. /\ UNCHANGED locked /\ holds' = [holds EXCEPT ![t] = FALSE]
        /\ pc' = [pc EXCEPT ![t] = "unlock"] /\ holds[t]
    BY <1>8, Zenon DEF CallUnlock, WaitMark, Holds, Call, At, Goto, res, Owned
  <2>2. \A u \in Tid : u # t => (holds'[u] <=> holds[u]) /\ pc'[u] = pc[u]
    BY <1>1, <1>2, <2>1, SMTT(60)
  <2>3. holds'[t] = FALSE /\ pc'[t] = "unlock"
    BY <2>1, Zenon DEF TypeOK
  <2> QED
    BY <2>1, <2>2, <2>3, Zenon DEF Owned, Owns
<1>9. ASSUME NEW t \in Tid, UnlockSection(t) PROVE Owned'
  <2>1. UNCHANGED holds /\ locked' = FALSE /\ pc[t] = "unlock" /\ pc' = [pc EXCEPT ![t] = "wake"]
    BY <1>9, Zenon DEF UnlockSection, At, Goto
  <2>2. \A u \in Tid : u # t => pc'[u] = pc[u]
    BY <1>1, <2>1, Zenon
  <2>3. pc'[t] = "wake" /\ ~holds[t]
    BY <2>1, Zenon DEF Owned, TypeOK
  <2>4. \A u \in Tid : ~Owns(u)'
    BY <2>1, <2>2, <2>3, Zenon DEF Owned, Owns
  <2>5. \A u \in Tid : pc'[u] \in {"push", "mark"} => holds'[u]
    BY <2>1, <2>2, <2>3, Zenon DEF Owned
  <2> QED
    BY <2>4, <2>5, Zenon DEF Owned, Owns
<1>10. ASSUME NEW t \in Tid, CallWait(t) \/ WaitPush(t) PROVE Owned'
  <2>1. /\ UNCHANGED <<holds, locked>> /\ holds[t] /\ pc[t] # "unlock"
        /\ \E l \in {"push", "mark"} : pc' = [pc EXCEPT ![t] = l]
    BY <1>10, Zenon DEF CallWait, WaitPush, Call, At, Goto, res, Owned
  <2> QED
    BY <1>1, <2>1, SMTT(60) DEF Owned, Owns
<1>11. ASSUME NEW t \in Tid, GetResource(t) \/ BadHandle(t) \/ Signal(t) PROVE Owned'
  BY <1>3, <1>11, Zenon DEF GetResource, BadHandle, Signal, res
<1>12. CASE Timer
  BY <1>3, <1>12, Zenon DEF Timer, res
<1> QED
  BY <1>4, <1>5, <1>6, <1>7, <1>8, <1>9, <1>10, <1>11, <1>12, Zenon DEF Next, Begin, Continue

\* The wait queues stay bounded queues of user tasks.
LEMMA WaitQueues ==
    ASSUME QueuedResourceAssumption, NEW q \in Seq(User), Len(q) <= MaxWaiters
    PROVE  /\ \A t \in User : PushBack(q, t) \in Seq(User) /\ Len(PushBack(q, t)) <= MaxWaiters
           /\ q # << >> => Head(q) \in User /\ Tail(q) \in Seq(User) /\ Len(Tail(q)) <= MaxWaiters
<1>1. MaxWaiters \in Nat
  BY Zenon DEF QueuedResourceAssumption
<1>2. ASSUME NEW t \in User PROVE PushBack(q, t) \in Seq(User) /\ Len(PushBack(q, t)) <= MaxWaiters
  <2>1. Append(q, t) \in Seq(User) /\ Len(Append(q, t)) = Len(q) + 1 /\ Len(q) \in Nat
    BY SMTT(60)
  <2> QED
    BY <1>1, <2>1, SMTT(60) DEF PushBack
<1>3. ASSUME q # << >> PROVE Head(q) \in User /\ Tail(q) \in Seq(User) /\ Len(Tail(q)) <= MaxWaiters
  <2>1. Head(q) \in User /\ Tail(q) \in Seq(User) /\ Len(Tail(q)) = Len(q) - 1 /\ Len(q) \in Nat
    BY <1>3, SMTT(60)
  <2> QED
    BY <1>1, <2>1, SMTT(60)
<1> QED
  BY <1>2, <1>3, Zenon

\* Every step keeps the types, and the idle task out of the calls.
LEMMA ResTypeStep ==
    ASSUME QueuedResourceAssumption, TypeOK, pc[Idle] = "run", Next
    PROVE  TypeOK' /\ pc'[Idle] = "run"
<1> DEFINE Goes(t) == /\ t \in User
                      /\ pc' \in [Tid -> PC] /\ pc'[Idle] = "run"
<1>1. /\ s \in SchedState /\ Idle \in Tid /\ MaxCalls \in Nat
      /\ made \in BOOLEAN /\ locked \in BOOLEAN
      /\ waiters \in Seq(User) /\ cond_waiters \in Seq(User)
      /\ Len(waiters) <= MaxWaiters /\ Len(cond_waiters) <= MaxWaiters
      /\ pc \in [Tid -> PC] /\ then \in [Tid -> {"run", "sched"}]
      /\ popped \in [Tid -> User \cup {None}] /\ holds \in [Tid -> BOOLEAN]
      /\ calls \in [Tid -> 0..MaxCalls] /\ program' = program /\ program \in Programs
  BY Zenon DEF TypeOK, QueuedResourceAssumption, Next
<1>2. ASSUME
      /\ s' \in SchedState
      /\ made' \in BOOLEAN /\ locked' \in BOOLEAN
      /\ waiters' \in Seq(User) /\ cond_waiters' \in Seq(User)
      /\ Len(waiters') <= MaxWaiters /\ Len(cond_waiters') <= MaxWaiters
      /\ pc' \in [Tid -> PC] /\ then' \in [Tid -> {"run", "sched"}]
      /\ popped' \in [Tid -> User \cup {None}] /\ holds' \in [Tid -> BOOLEAN]
      /\ calls' \in [Tid -> 0..MaxCalls]
      /\ pc'[Idle] = "run"
      PROVE TypeOK' /\ pc'[Idle] = "run"
  BY <1>1, <1>2, Zenon DEF TypeOK, User, PC
<1>3. ASSUME NEW t \in Tid, NEW l \in PC, pc[t] # "run" \/ t # Idle, Goto(t, l)
      PROVE  Goes(t)
  <2>1. t # Idle
    BY <1>3, Zenon
  <2> QED
    BY <1>1, <1>3, <2>1, Zenon DEF Goto, User
<1>4. ASSUME NEW t \in Tid, NEW c, Call(t, c) PROVE calls' \in [Tid -> 0..MaxCalls] /\ t \in User
  <2>1. calls[t] \in 0..MaxCalls /\ (c # "unlock" => calls[t] < MaxCalls)
        /\ calls' = [calls EXCEPT ![t] = IF c = "unlock" THEN @ ELSE @ + 1] /\ t # Idle
    BY <1>1, <1>4, Zenon DEF Call
  <2>2. (IF c = "unlock" THEN calls[t] ELSE calls[t] + 1) \in 0..MaxCalls
    BY <1>1, <2>1, SMTT(60)
  <2> QED
    BY <1>1, <2>1, <2>2, Zenon DEF User
<1>5. ASSUME NEW t \in Tid, NEW b \in BOOLEAN, Holds(t, b) PROVE holds' \in [Tid -> BOOLEAN]
  BY <1>1, <1>5, Zenon DEF Holds
<1>6. \A u \in User : Unblock(s, u) \in SchedState
  BY <1>1, UnblockTyped, Zenon DEF User
<1>7. \A u \in User : SetState(s, u, "Blocked") \in SchedState
  BY <1>1, SetStateTyped, Zenon DEF User, TaskState
<1>8. /\ \A u \in User : PushBack(waiters, u) \in Seq(User) /\ Len(PushBack(waiters, u)) <= MaxWaiters
      /\ waiters # << >> => Head(waiters) \in User /\ Tail(waiters) \in Seq(User) /\ Len(Tail(waiters)) <= MaxWaiters
  BY <1>1, WaitQueues, Zenon
<1>9. /\ \A u \in User : PushBack(cond_waiters, u) \in Seq(User) /\ Len(PushBack(cond_waiters, u)) <= MaxWaiters
      /\ cond_waiters # << >> =>
            Head(cond_waiters) \in User /\ Tail(cond_waiters) \in Seq(User) /\ Len(Tail(cond_waiters)) <= MaxWaiters
  BY <1>1, WaitQueues, Zenon
<1>10. {"run", "lock", "sched", "unlock", "wake", "push", "mark", "broadcast"} \subseteq PC
  BY Zenon DEF PC
<1>11. ASSUME NEW t \in Tid, GetResource(t) \/ BadHandle(t) PROVE TypeOK' /\ pc'[Idle] = "run"
  BY <1>1, <1>2, <1>4, <1>11, Zenon DEF GetResource, BadHandle, res
<1>12. ASSUME NEW t \in Tid, CallLock(t) \/ CallBroadcast(t) \/ CallWait(t) PROVE TypeOK' /\ pc'[Idle] = "run"
  <2>1. calls' \in [Tid -> 0..MaxCalls] /\ t \in User
    BY <1>4, <1>12, Zenon DEF CallLock, CallBroadcast, CallWait
  <2>2. Goes(t)
    BY <1>3, <1>10, <1>12, <2>1, Zenon DEF CallLock, CallBroadcast, CallWait, User
  <2> QED
    BY <1>1, <1>2, <1>12, <2>1, <2>2, Zenon DEF CallLock, CallBroadcast, CallWait, res
<1>13. ASSUME NEW t \in Tid, TryLock(t) PROVE TypeOK' /\ pc'[Idle] = "run"
  <2>1. calls' \in [Tid -> 0..MaxCalls]
    BY <1>4, <1>13, Zenon DEF TryLock
  <2>2. holds' \in [Tid -> BOOLEAN]
    BY <1>5, <1>13, Zenon DEF TryLock
  <2> QED
    BY <1>1, <1>2, <1>13, <2>1, <2>2, Zenon DEF TryLock
<1>14. ASSUME NEW t \in Tid, CallUnlock(t) PROVE TypeOK' /\ pc'[Idle] = "run"
  <2>1. calls' \in [Tid -> 0..MaxCalls] /\ t \in User
    BY <1>4, <1>14, Zenon DEF CallUnlock
  <2>2. Goes(t)
    BY <1>3, <1>10, <1>14, <2>1, Zenon DEF CallUnlock, User
  <2>3. holds' \in [Tid -> BOOLEAN] /\ then' \in [Tid -> {"run", "sched"}]
    BY <1>1, <1>5, <1>14, Zenon DEF CallUnlock
  <2> QED
    BY <1>1, <1>2, <1>14, <2>1, <2>2, <2>3, Zenon DEF CallUnlock, res
<1>15. ASSUME NEW t \in Tid, Signal(t) PROVE TypeOK' /\ pc'[Idle] = "run"
  <2>1. calls' \in [Tid -> 0..MaxCalls]
    BY <1>4, <1>15, Zenon DEF Signal
  <2>2. s' \in SchedState /\ cond_waiters' \in Seq(User) /\ Len(cond_waiters') <= MaxWaiters
    BY <1>1, <1>6, <1>9, <1>15, Zenon DEF Signal
  <2> QED
    BY <1>1, <1>2, <1>15, <2>1, <2>2, Zenon DEF Signal
<1>16. ASSUME NEW t \in Tid, LockSection(t) PROVE TypeOK' /\ pc'[Idle] = "run"
  <2>1. Goes(t)
    BY <1>3, <1>10, <1>16, Zenon DEF LockSection, At
  <2>2. UNCHANGED <<made, cond_waiters, then, popped, calls>>
    BY <1>16, Zenon DEF LockSection
  <2>3. CASE UNCHANGED <<s, waiters>> /\ locked' = TRUE /\ Holds(t, TRUE)
    BY <1>1, <1>2, <1>5, <2>1, <2>2, <2>3, Zenon
  <2>4. CASE waiters' = PushBack(waiters, t) /\ s' = SetState(s, t, "Blocked") /\ UNCHANGED <<locked, holds>>
    BY <1>1, <1>2, <1>7, <1>8, <2>1, <2>2, <2>4, ZenonT(60)
  <2> QED
    BY <1>16, <2>3, <2>4, Zenon DEF LockSection
<1>17. ASSUME NEW t \in Tid, Sched(t) PROVE TypeOK' /\ pc'[Idle] = "run"
  <2>1. Goes(t)
    BY <1>3, <1>10, <1>17, Zenon DEF Sched, At
  <2>2. s' \in SchedState
    BY <1>1, <1>17, ScheduleTyped, Zenon DEF Sched
  <2> QED
    BY <1>1, <1>2, <1>17, <2>1, <2>2, Zenon DEF Sched, res
<1>18. ASSUME NEW t \in Tid, UnlockSection(t) PROVE TypeOK' /\ pc'[Idle] = "run"
  <2>1. Goes(t)
    BY <1>3, <1>10, <1>18, Zenon DEF UnlockSection, At
  <2>2. popped' \in [Tid -> User \cup {None}] /\ waiters' \in Seq(User) /\ Len(waiters') <= MaxWaiters
    BY <1>1, <1>8, <1>18, Zenon DEF UnlockSection
  <2> QED
    BY <1>1, <1>2, <1>18, <2>1, <2>2, Zenon DEF UnlockSection
<1>19. ASSUME NEW t \in Tid, Wake(t) PROVE TypeOK' /\ pc'[Idle] = "run"
  <2>1. Goes(t)
    BY <1>1, <1>3, <1>10, <1>19, Zenon DEF Wake, At
  <2>2. s' \in SchedState /\ popped' \in [Tid -> User \cup {None}]
    BY <1>1, <1>6, <1>19, Zenon DEF Wake
  <2> QED
    BY <1>1, <1>2, <1>19, <2>1, <2>2, Zenon DEF Wake, res
<1>20. ASSUME NEW t \in Tid, WaitPush(t) PROVE TypeOK' /\ pc'[Idle] = "run"
  <2>1. Goes(t)
    BY <1>3, <1>10, <1>20, Zenon DEF WaitPush, At
  <2> QED
    BY <1>1, <1>2, <1>9, <1>20, <2>1, Zenon DEF WaitPush
<1>21. ASSUME NEW t \in Tid, WaitMark(t) PROVE TypeOK' /\ pc'[Idle] = "run"
  <2>1. Goes(t)
    BY <1>3, <1>10, <1>21, Zenon DEF WaitMark, At
  <2>2. holds' \in [Tid -> BOOLEAN] /\ then' \in [Tid -> {"run", "sched"}]
    BY <1>1, <1>5, <1>21, Zenon DEF WaitMark
  <2>3. s' \in SchedState
    BY <1>7, <1>21, <2>1, Zenon DEF WaitMark
  <2> QED
    BY <1>1, <1>2, <1>21, <2>1, <2>2, <2>3, Zenon DEF WaitMark, res
<1>22. ASSUME NEW t \in Tid, BroadcastNext(t) PROVE TypeOK' /\ pc'[Idle] = "run"
  <2>1. pc' \in [Tid -> PC] /\ pc'[Idle] = "run"
    BY <1>1, <1>3, <1>10, <1>22, Zenon DEF BroadcastNext, At
  <2>2. s' \in SchedState /\ cond_waiters' \in Seq(User) /\ Len(cond_waiters') <= MaxWaiters
    BY <1>1, <1>6, <1>9, <1>22, Zenon DEF BroadcastNext
  <2> QED
    BY <1>1, <1>2, <1>22, <2>1, <2>2, Zenon DEF BroadcastNext
<1>23. CASE Timer
  <2>1. s' \in SchedState
    BY <1>1, <1>23, TickTyped, ScheduleTyped, Zenon DEF Timer
  <2> QED
    BY <1>1, <1>2, <1>23, <2>1, Zenon DEF Timer, res
<1> QED
  BY <1>11, <1>12, <1>13, <1>14, <1>15, <1>16, <1>17, <1>18, <1>19, <1>20, <1>21, <1>22, <1>23, Zenon DEF Next, Begin, Continue

\* schedule(), called with the current task Blocked or by the timer, leaves no task
\* Blocked if it switches, and changes nothing that Calm looks at if it does not.
LEMMA CalmSchedule ==
    ASSUME Calm, Idle \in Tid, NEW x, Sound(x), SameQueued(s, x),
           x.current = s.current, x.state = s.state, s' = Schedule(x)
    PROVE  /\ Sound(s') /\ s'.current \in Tid
           /\ Queued(s', Idle) \/ s'.current = Idle
           /\ \/ Switches(x) /\ \A t \in Tid : s'.state[t] # "Blocked"
              \/ ~Switches(x) /\ s'.state = s.state /\ s'.current = s.current
<1>1. ScheduleEffect(x, s')
  BY ScheduleSound, Zenon
<1>2. s.current # None /\ s.current \in Tid
  BY MlfqAssumption, Zenon DEF Calm
<1>3. CASE ~Switches(x)
  BY <1>1, <1>3, Zenon DEF ScheduleEffect, Calm, SameQueued
<1>4. CASE Switches(x)
  <2>1. /\ Sound(s') /\ s'.current \in Tid
        /\ \A u \in Tid : Queued(s', u) <=> (Queued(x, u) /\ u # s'.current) \/ u = s.current
        /\ s'.state[s'.current] = "Running" /\ s'.state[s.current] = "Ready"
        /\ \A u \in Tid \ {s.current, s'.current} : s'.state[u] = s.state[u]
    BY <1>1, <1>2, <1>4, Zenon DEF ScheduleEffect
  <2>2. Queued(s', Idle) \/ s'.current = Idle
    BY <2>1, Zenon DEF Calm, SameQueued
  <2>3. \A t \in Tid : s'.state[t] # "Blocked"
    BY <2>1, Zenon DEF Calm
  <2> QED
    BY <1>4, <2>1, <2>2, <2>3, Zenon
<1> QED
  BY <1>3, <1>4, Zenon

\* Without wait() nobody is Blocked while the current task is anywhere but on its way
\* to schedule(), so unlock(), signal and broadcast find no task to push.
LEMMA CalmStep ==
    ASSUME ResInv, "wait" \notin program, Next
    PROVE  Calm'
<1>1. Calm /\ Idle \in Tid /\ pc \in [Tid -> PC] /\ pc[Idle] = "run"
  BY Zenon DEF ResInv, TypeOK, QueuedResourceAssumption
<1>2. ASSUME NEW t \in Tid, NEW l, l # "sched", At(t, l)
      PROVE  t = s.current /\ \A u \in Tid : s.state[u] # "Blocked"
  BY <1>1, <1>2, Zenon DEF Calm, At
<1>3. ASSUME UNCHANGED <<s, pc>> PROVE Calm'
  BY <1>1, <1>3, Zenon DEF Calm
<1>4. ASSUME NEW t \in Tid, NEW l, l \notin {"push", "mark"}, pc' = [pc EXCEPT ![t] = l],
             UNCHANGED s, \A u \in Tid : s.state[u] # "Blocked"
      PROVE  Calm'
  <2>1. \A u \in Tid : pc'[u] \notin {"push", "mark"}
    BY <1>1, <1>4, Zenon DEF Calm
  <2> QED
    BY <1>1, <1>4, <2>1, Zenon DEF Calm
<1>5. ASSUME NEW u, u \in Tid, \A w \in Tid : s.state[w] # "Blocked" PROVE Unblock(s, u) = s
  BY <1>5, UnblockNothing, Zenon
<1>6. ASSUME NEW t \in Tid, GetResource(t) \/ BadHandle(t) \/ TryLock(t) PROVE Calm'
  BY <1>3, <1>6, Zenon DEF GetResource, BadHandle, TryLock
<1>7. ASSUME NEW t \in Tid, CallLock(t) \/ CallUnlock(t) \/ CallBroadcast(t) PROVE Calm'
  <2>1. UNCHANGED s /\ At(t, "run") /\ \E l \in {"lock", "unlock", "broadcast"} : pc' = [pc EXCEPT ![t] = l]
    BY <1>7, Zenon DEF CallLock, CallUnlock, CallBroadcast, Call, Goto
  <2> QED
    BY <1>2, <1>4, <2>1, Zenon
<1>8. ASSUME NEW t \in Tid, UnlockSection(t) PROVE Calm'
  <2>1. UNCHANGED s /\ At(t, "unlock") /\ pc' = [pc EXCEPT ![t] = "wake"]
    BY <1>8, Zenon DEF UnlockSection, Goto
  <2> QED
    BY <1>2, <1>4, <2>1, Zenon
<1>9. ASSUME NEW t \in Tid, Wake(t) PROVE Calm'
  <2>1. At(t, "wake") /\ pc' = [pc EXCEPT ![t] = then[t]]
        /\ s' = IF popped[t] = None THEN s ELSE Unblock(s, popped[t])
    BY <1>9, Zenon DEF Wake, Goto
  <2>2. then[t] \in {"run", "sched"} /\ popped[t] \in Tid \cup {None}
    BY Zenon DEF ResInv, TypeOK, User
  <2>3. \A u \in Tid : s.state[u] # "Blocked"
    BY <1>2, <2>1, Zenon
  <2>4. s' = s
    BY <1>5, <2>1, <2>2, <2>3, Zenon
  <2> QED
    BY <1>4, <2>1, <2>2, <2>3, <2>4, Zenon
<1>10. ASSUME NEW t \in Tid, Signal(t) \/ BroadcastNext(t) PROVE Calm'
  <2>1. At(t, "run") \/ At(t, "broadcast")
    BY <1>10, Zenon DEF Signal, BroadcastNext, Call
  <2>2. \A u \in Tid : s.state[u] # "Blocked"
    BY <1>2, <2>1, Zenon
  <2>3. cond_waiters # << >> => Head(cond_waiters) \in Tid
    <3>1. cond_waiters \in Seq(User)
      BY Zenon DEF ResInv, TypeOK
    <3> QED
      BY <3>1, SMTT(60) DEF User
  <2>4. s' = s
    BY <1>5, <1>10, <2>2, <2>3, Zenon DEF Signal, BroadcastNext
  <2>5. UNCHANGED pc \/ pc' = [pc EXCEPT ![t] = "run"]
    BY <1>10, Zenon DEF Signal, BroadcastNext, Goto
  <2> QED
    BY <1>3, <1>4, <2>2, <2>4, <2>5, Zenon
<1>11. ASSUME NEW t \in Tid, CallWait(t) \/ WaitPush(t) \/ WaitMark(t) PROVE FALSE
  BY <1>1, <1>11, Zenon DEF Calm, CallWait, WaitPush, WaitMark, Call, At
<1>12. ASSUME NEW t \in Tid, LockSection(t) PROVE Calm'
  <2>1. At(t, "lock") /\ t = s.current /\ \A u \in Tid : s.state[u] # "Blocked"
    BY <1>2, <1>12, Zenon DEF LockSection
  <2>2. CASE UNCHANGED s /\ pc' = [pc EXCEPT ![t] = "run"]
    BY <1>4, <2>1, <2>2, Zenon
  <2>3. CASE s' = SetState(s, t, "Blocked") /\ pc' = [pc EXCEPT ![t] = "sched"]
    <3>1. Sound(s) /\ s.state \in [Tid -> TaskState] /\ ~Queued(s, t)
      BY <1>1, <2>1, QueuedIsWaiting, Zenon DEF Calm, Sound, SchedState
    <3>2. /\ Sound(s') /\ SameQueued(s, s') /\ s'.current = s.current
          /\ s'.state = [s.state EXCEPT ![t] = "Blocked"]
      BY <2>3, <3>1, SetStateSound, Zenon DEF TaskState
    <3>3. \A u \in Tid : s'.state[u] = "Blocked" => u = t
      BY <2>1, <3>1, <3>2, Zenon
    <3>4. pc'[t] = "sched" /\ \A u \in Tid : pc'[u] \notin {"push", "mark"}
      BY <1>1, <2>3, Zenon DEF Calm
    <3> QED
      BY <1>1, <2>1, <3>2, <3>3, <3>4, Zenon DEF Calm, SameQueued
  <2> QED
    BY <1>12, <2>2, <2>3, Zenon DEF LockSection, Goto
<1>13. ASSUME NEW t \in Tid, Sched(t) PROVE Calm'
  <2>1. t = s.current /\ pc[t] = "sched" /\ s' = Schedule(s) /\ pc' = [pc EXCEPT ![t] = "lock"]
    BY <1>13, Zenon DEF Sched, At, Goto
  <2>2. /\ Sound(s') /\ s'.current \in Tid
        /\ Queued(s', Idle) \/ s'.current = Idle
        /\ \/ Switches(s) /\ \A u \in Tid : s'.state[u] # "Blocked"
           \/ ~Switches(s) /\ s'.state = s.state /\ s'.current = s.current
    BY <1>1, <2>1, CalmSchedule, Zenon DEF Calm, SameQueued
  <2>3. s.state[t] = "Blocked" => Switches(s)
    <3>1. t # None /\ Queued(s, Idle) /\ Sound(s)
      BY <1>1, <2>1, MlfqAssumption, Zenon DEF Calm
    <3> QED
      BY <1>1, <2>1, <3>1, SwitchesIfBlocked, Zenon
  <2>4. \A u \in Tid : s'.state[u] # "Blocked"
    BY <1>1, <2>1, <2>2, <2>3, Zenon DEF Calm
  <2>5. \A u \in Tid : pc'[u] \notin {"push", "mark"}
    BY <1>1, <2>1, Zenon DEF Calm
  <2> QED
    BY <2>2, <2>4, <2>5, Zenon DEF Calm
<1>14. CASE Timer
  <2>1. s' = Schedule(Tick(s)) /\ UNCHANGED pc
    BY <1>14, Zenon DEF Timer
  <2>2. Sound(Tick(s)) /\ SameQueued(s, Tick(s)) /\ Tick(s).current = s.current /\ Tick(s).state = s.state
    BY <1>1, TickSound, Zenon DEF Calm
  <2>3. /\ Sound(s') /\ s'.current \in Tid
        /\ Queued(s', Idle) \/ s'.current = Idle
        /\ \/ \A u \in Tid : s'.state[u] # "Blocked"
           \/ s'.state = s.state /\ s'.current = s.current
    BY <1>1, <2>1, <2>2, CalmSchedule, Zenon
  <2> QED
    BY <1>1, <2>1, <2>3, Zenon DEF Calm
<1> QED
  BY <1>6, <1>7, <1>8, <1>9, <1>10, <1>11, <1>12, <1>13, <1>14, ZenonT(60) DEF Next, Begin, Continue

\* Every step keeps the invariant.
LEMMA ResStep == ResInv /\ [Next]_(vars) => ResInv'
<1> SUFFICES ASSUME ResInv, [Next]_(vars) PROVE ResInv'
  BY Zenon
<1>1. CASE UNCHANGED vars
  <2>1. UNCHANGED <<s, made, locked, waiters, cond_waiters, pc, then, popped, holds, calls, program>>
    BY <1>1, Zenon DEF vars
  <2>2. TypeOK' /\ Owned' /\ (Calm => Calm')
    BY <2>1, Zenon DEF ResInv, TypeOK, Owned, Owns, Calm
  <2> QED
    BY <2>1, <2>2, Zenon DEF ResInv, QueuedResourceAssumption
<1>2. CASE Next
  <2>1. TypeOK' /\ pc'[Idle] = "run"
    BY <1>2, ResTypeStep, Zenon DEF ResInv
  <2>2. Owned'
    BY <1>2, OwnedStep, Zenon DEF ResInv
  <2>3. "wait" \notin program' => Calm'
    BY <1>2, CalmStep, Zenon DEF Next
  <2> QED
    BY <2>1, <2>2, <2>3, Zenon DEF ResInv, QueuedResourceAssumption
<1> QED
  BY <1>1, <1>2, Zenon

\* The mutex that user programs share has one holder at a time, whatever the tasks
\* call and wherever the timer comes; and as long as no program calls wait(), the run
\* queues stay well formed.
THEOREM ResourceStaysSound == QueuedResourceAssumption /\ Spec => []ResourceSound
<1>1. ResInv => ResourceSound
  <2> SUFFICES ASSUME ResInv PROVE ResourceSound
    BY Zenon
  <2>1. OneHolder
    BY Zenon DEF ResInv, Owned, Owns, OneHolder, User
  <2>2. "wait" \notin program => RunQueuesOK
    BY Zenon DEF ResInv, Calm, Sound, RunQueuesOK
  <2> QED
    BY <2>1, <2>2, Zenon DEF ResInv, ResourceSound
<1> QED
  BY ResInit, ResStep, <1>1, PTL DEF Spec
-----------------------------------------------------------------------------
\* The list of a round while its sweeps go on: sorted, and complete until a page is
\* evicted. Whatever sweep 2 has passed was evicted or met a full partition.
Busy == ppc \in {"look", "evict", "enough", "clear", "next"}

Ordered == \A i, j \in 1..Len(cands) : i < j => Pool!Before(cands[i], cands[j])

RoundInv ==
    /\ cands \in Seq(Pool!Page)
    /\ ppc = "gather" => found \subseteq resident
    /\ Busy => /\ sweep \in 0..2 /\ pos \in 1..Len(cands) /\ Len(cands) <= Cardinality(Pool!Page)
               /\ progress \/ \A i \in 1..Len(cands) : cands[i] \in resident
               /\ sweep = 2 /\ (pos > 1 \/ ppc = "next") => progress \/ full
    /\ ppc = "clear" => sweep = 1
    /\ ppc = "enough" => progress

ReapInv == Pool!ReaperAssumption /\ Pool!TypeOK /\ RoundInv /\ (Busy => Ordered)

LEMMA PoolCounts == \A S : Pool!Cardinality(S) = Cardinality(S)
    BY Zenon DEF Cardinality, Pool!Cardinality

\* The pages are finitely many pairs of a task and a number.
LEMMA PoolPages ==
    ASSUME Pool!ReaperAssumption
    PROVE  /\ IsFiniteSet(Pool!Page) /\ Cardinality(Pool!Page) \in Nat
           /\ \A g \in Pool!Page : g[1] \in 1..NumProc /\ g[2] \in Int /\ g = <<g[1], g[2]>>
<1> DEFINE f == [p \in 1..NumProc |-> {p} \X (1..VSize[p])]
           T == {{p} \X (1..VSize[p]) : p \in 1..NumProc}
<1>1. NumProc \in Int /\ \A p \in 1..NumProc : VSize[p] \in Int
    BY SMTT(60) DEF Pool!ReaperAssumption
<1>2. IsFiniteSet(1..NumProc)
    BY <1>1, FS_Interval, SMTT(60)
<1>3. f \in Surjection(1..NumProc, T)
    BY Zenon DEF Surjection
<1>4. IsFiniteSet(T)
    <2> HIDE DEF f, T
    <2> QED
        BY <1>2, <1>3, FS_Surjection, ZenonT(60)
<1>5. ASSUME NEW t \in T PROVE IsFiniteSet(t)
    <2>1. PICK p \in 1..NumProc : t = {p} \X (1..VSize[p])
        BY Zenon
    <2>2. IsFiniteSet({p})
        BY FS_Singleton, Zenon
    <2>3. 1 \in Int
        BY SMTT(60)
    <2>4. IsFiniteSet(1..VSize[p])
        BY <1>1, <2>3, FS_Interval, Zenon
    <2> QED
        BY <2>1, <2>2, <2>4, FS_Product, Zenon
<1>6. IsFiniteSet(Pool!Page)
    BY <1>4, <1>5, FS_UNION, Zenon DEF Pool!Page
<1>7. ASSUME NEW g \in Pool!Page
      PROVE  g[1] \in 1..NumProc /\ g[2] \in Int /\ g = <<g[1], g[2]>>
    <2>1. PICK p \in 1..NumProc : g \in {p} \X (1..VSize[p])
        BY Zenon DEF Pool!Page
    <2> QED
        BY <1>1, <2>1, SMTT(60)
<1> QED
    BY <1>6, <1>7, FS_CardinalityType, Zenon

\* How far a task is above its share is a number.
LEMMA ExcessTyped ==
    ASSUME Pool!ReaperAssumption, found \subseteq Pool!Page, NEW p \in 1..NumProc
    PROVE  Pool!Excess(p) \in Int
<1> DEFINE a == Cardinality(Pool!PagesOf(p))
           b == Cardinality(found)
           c == Cardinality(Pool!Page)
<1>1. IsFiniteSet(Pool!Page) /\ c \in Nat
    BY PoolPages, Zenon
<1>2. IsFiniteSet(found)
    BY <1>1, FS_Subset, Zenon
<1>3. IsFiniteSet(Pool!PagesOf(p))
    <2>1. Pool!PagesOf(p) \in SUBSET found
        BY Zenon DEF Pool!PagesOf
    <2> QED
        BY <1>2, <2>1, FS_Subset, Zenon
<1>4. a \in Nat /\ b \in Nat
    BY <1>2, <1>3, FS_CardinalityType, Zenon
<1>5. VSize[p] \in Nat \ {0}
    BY Zenon DEF Pool!ReaperAssumption
<1>6. <<p, 1>> \in Pool!Page
    <2>1. 1 \in 1..VSize[p]
        BY <1>5, SMTT(60)
    <2>2. <<p, 1>> \in {p} \X (1..VSize[p])
        BY <2>1, Zenon
    <2> QED
        BY <2>2, Zenon DEF Pool!Page
<1>7. c # 0
    BY <1>1, <1>6, FS_EmptySet, ZenonT(60)
<1>8. Pool!Excess(p) = a - (VSize[p] * b) \div c
    BY PoolCounts, Zenon DEF Pool!Excess
<1> HIDE DEF a, b, c
<1>9. VSize[p] * b \in Int
    BY <1>4, <1>5, SMTT(60)
<1>10. (VSize[p] * b) \div c \in Int
    BY <1>1, <1>7, <1>9, SMTT(60)
<1> QED
    BY <1>4, <1>8, <1>10, SMTT(60)

\* Before is a strict total order of the pages found.
LEMMA BeforeOrders ==
    ASSUME Pool!ReaperAssumption, found \subseteq Pool!Page
    PROVE  /\ \A g \in Pool!Page : ~Pool!Before(g, g)
           /\ \A g, h \in Pool!Page : g = h \/ Pool!Before(g, h) \/ Pool!Before(h, g)
           /\ \A g, h, k \in Pool!Page :
                 Pool!Before(g, h) /\ Pool!Before(h, k) => Pool!Before(g, k)
<1> DEFINE e == [p \in 1..NumProc |-> Pool!Excess(p)]
<1>1. e \in [1..NumProc -> Int]
    BY ExcessTyped, Zenon
<1>2. \A g \in Pool!Page : g[1] \in 1..NumProc /\ g[2] \in Int /\ g = <<g[1], g[2]>>
    BY PoolPages, Zenon
<1>3. \A g, h \in Pool!Page : Pool!Before(g, h) <=>
        \/ e[g[1]] > e[h[1]]
        \/ e[g[1]] = e[h[1]] /\ (g[1] < h[1] \/ (g[1] = h[1] /\ g[2] < h[2]))
    BY <1>2, Zenon DEF Pool!Before
<1>4. \A g \in Pool!Page : e[g[1]] \in Int /\ g[1] \in Int /\ g[2] \in Int
    <2>1. \A g \in Pool!Page : e[g[1]] \in Int
        BY <1>1, <1>2, Zenon
    <2>2. \A i \in 1..NumProc : i \in Int
        BY SMTT(60)
    <2> QED
        BY <1>2, <2>1, <2>2, Zenon
<1> HIDE DEF e
<1>5. \A g \in Pool!Page : ~Pool!Before(g, g)
    BY <1>3, <1>4, SMTT(60)
<1>6. ASSUME NEW g \in Pool!Page, NEW h \in Pool!Page
      PROVE  g = h \/ Pool!Before(g, h) \/ Pool!Before(h, g)
    <2>1. CASE g[1] = h[1] /\ g[2] = h[2]
        BY <1>2, <2>1, ZenonT(60)
    <2>2. CASE ~(g[1] = h[1] /\ g[2] = h[2])
        BY <1>3, <1>4, <2>2, SMTT(60)
    <2> QED
        BY <2>1, <2>2, Zenon
<1>7. ASSUME NEW g \in Pool!Page, NEW h \in Pool!Page, NEW k \in Pool!Page,
             Pool!Before(g, h), Pool!Before(h, k)
      PROVE  Pool!Before(g, k)
    BY <1>3, <1>4, <1>7, SMTT(60)
<1> QED
    BY <1>5, <1>6, <1>7, Zenon

\* The victim list of gather_candidates: every page found once, in the order of
\* Before.
LEMMA SortedPages ==
    ASSUME Pool!ReaperAssumption, found \subseteq Pool!Page
    PROVE  /\ Cardinality(found) \in Nat /\ Cardinality(found) <= Cardinality(Pool!Page)
           /\ found # {} => Cardinality(found) # 0
           /\ Pool!Sorted \in [1..Cardinality(found) -> found]
           /\ \A i, j \in 1..Cardinality(found) : i < j => Pool!Before(Pool!Sorted[i], Pool!Sorted[j])
<1> DEFINE n == Cardinality(found)
           down(v) == {w \in found : w = v \/ Pool!Before(w, v)}
           rank == [v \in found |-> Cardinality(down(v))]
<1>0. /\ IsFiniteSet(found) /\ n \in Nat /\ n <= Cardinality(Pool!Page)
      /\ found # {} => n # 0
    <2>1. IsFiniteSet(found) /\ n <= Cardinality(Pool!Page)
        BY PoolPages, FS_Subset, Zenon
    <2> QED
        BY <2>1, FS_CardinalityType, FS_EmptySet, ZenonT(60)
<1>1. /\ \A g \in found : ~Pool!Before(g, g)
      /\ \A g, h \in found : g = h \/ Pool!Before(g, h) \/ Pool!Before(h, g)
      /\ \A g, h, k \in found : Pool!Before(g, h) /\ Pool!Before(h, k) => Pool!Before(g, k)
    <2>1. \A g \in found : g \in Pool!Page
        BY Zenon
    <2> QED
        BY <2>1, BeforeOrders, ZenonT(60)
<1>2. ASSUME NEW v \in found
      PROVE  IsFiniteSet(down(v)) /\ Cardinality(down(v)) \in 1..n
    <2>1. IsFiniteSet(down(v)) /\ Cardinality(down(v)) <= n
        BY <1>0, FS_Subset, Zenon
    <2>2. Cardinality(down(v)) \in Nat
        BY <2>1, FS_CardinalityType, ZenonT(60)
    <2>3. v \in down(v)
        BY Zenon
    <2>4. Cardinality(down(v)) # 0
        BY <2>1, <2>3, FS_EmptySet, ZenonT(60)
    <2> HIDE DEF down, n
    <2> QED
        BY <1>0, <2>1, <2>2, <2>4, SMTT(60)
<1>3. ASSUME NEW v \in found, NEW w \in found, Pool!Before(v, w)
      PROVE  rank[v] < rank[w]
    <2>1. /\ \A u \in down(v) : u \in down(w)
          /\ w \in down(w) /\ w \notin down(v)
        BY <1>1, <1>3, ZenonT(60)
    <2>2. Cardinality(down(v)) <= Cardinality(down(w)) /\ Cardinality(down(w)) # Cardinality(down(v))
        BY <1>2, <2>1, FS_Subset, ZenonT(60)
    <2>3. rank[v] = Cardinality(down(v)) /\ rank[w] = Cardinality(down(w))
        BY Zenon
    <2>4. Cardinality(down(v)) \in 1..n /\ Cardinality(down(w)) \in 1..n
        BY <1>2, Zenon
    <2> HIDE DEF down, rank, n
    <2> QED
        BY <1>0, <2>2, <2>3, <2>4, SMTT(60)
<1>4. rank \in [found -> 1..n]
    BY <1>2, ZenonT(60)
<1> HIDE DEF rank, down
<1>5. ASSUME NEW v \in found, NEW w \in found, rank[v] = rank[w]
      PROVE  v = w
    <2>1. rank[v] \in Int
        BY <1>4, SMTT(60)
    <2>2. ~(rank[v] < rank[w]) /\ ~(rank[w] < rank[v])
        BY <1>5, <2>1, SMTT(60)
    <2> QED
        BY <1>1, <1>3, <2>2, Zenon
<1>6. rank \in Injection(found, 1..n)
    BY <1>4, <1>5, ZenonT(60) DEF Injection, IsInjective
<1>7. IsFiniteSet(1..n) /\ Cardinality(1..n) = n
    <2> HIDE DEF n
    <2> QED
        BY <1>0, FS_Interval, SMTT(60)
<1>8. rank \in Surjection(found, 1..n)
    BY <1>6, <1>7, FS_Injection, Zenon
<1>9. \A i \in 1..n : \E v \in found : rank[v] = i
    BY <1>8, Zenon DEF Surjection
<1> DEFINE e == [i \in 1..n |-> CHOOSE v \in found : rank[v] = i]
<1>10. e \in [1..n -> found] /\ \A i \in 1..n : rank[e[i]] = i
    BY <1>9, Zenon
<1>11. ASSUME NEW i \in 1..n, NEW j \in 1..n, i < j
       PROVE  Pool!Before(e[i], e[j])
    <2>1. e[i] \in found /\ e[j] \in found /\ rank[e[i]] = i /\ rank[e[j]] = j
        BY <1>10, ZenonT(60)
    <2> HIDE DEF e, n
    <2>2. ~(j < i) /\ i # j
        BY <1>0, <1>11, SMTT(60)
    <2>3. e[i] # e[j]
        BY <2>1, <2>2, Zenon
    <2>4. ~Pool!Before(e[j], e[i])
        BY <1>3, <2>1, <2>2, Zenon
    <2> QED
        BY <1>1, <2>1, <2>3, <2>4, Zenon
<1>12. Pool!Sorted \in [1..n -> found] /\ \A i, j \in 1..n : i < j => Pool!Before(Pool!Sorted[i], Pool!Sorted[j])
    BY <1>10, <1>11, PoolCounts, ZenonT(60) DEF Pool!Sorted
<1> QED
    BY <1>0, <1>12, Zenon

\* The type invariant in two halves: the pages, and the reaper.
PagesTyped ==
    /\ resident \subseteq Pool!Page /\ onDisk \subseteq Pool!Page /\ resident \cap onDisk = {}
    /\ accessed \subseteq Pool!Page /\ dirty \subseteq Pool!Page
    /\ Cardinality(resident) <= Frames /\ Cardinality(onDisk) <= Slots
    /\ touches \in 0..MaxTouches

ReaperTyped ==
    /\ ppc \in {"need", "gather", "look", "evict", "enough", "clear", "next", "again"}
    /\ todo \in 0..(NumProc + 1)
    /\ found \subseteq Pool!Page
    /\ sweep \in 0..3 /\ pos \in 1..(Cardinality(Pool!Page) + 1)
    /\ progress \in BOOLEAN /\ full \in BOOLEAN

LEMMA PoolTypes ==
    ASSUME Pool!ReaperAssumption, NEW r \in SUBSET Pool!Page
    PROVE  /\ IsFiniteSet(r) /\ Cardinality(r) \in Nat
           /\ Frames - Pool!Cardinality(r) >= 0 <=> Cardinality(r) <= Frames
<1>1. IsFiniteSet(r)
    BY PoolPages, FS_Subset, Zenon
<1>2. Cardinality(r) \in Nat
    BY <1>1, FS_CardinalityType, Zenon
<1>3. Pool!Cardinality(r) = Cardinality(r) /\ Frames \in Nat
    BY PoolCounts, Zenon DEF Pool!ReaperAssumption
<1> QED
    BY <1>1, <1>2, <1>3, SMTT(60)

LEMMA PoolTypeSplits ==
    ASSUME Pool!ReaperAssumption
    PROVE  /\ Pool!TypeOK <=> PagesTyped /\ ReaperTyped
           /\ Pool!TypeOK' <=> PagesTyped' /\ ReaperTyped'
<1>1. resident \subseteq Pool!Page => (Pool!Free >= 0 <=> Cardinality(resident) <= Frames)
    BY PoolTypes, Zenon DEF Pool!Free
<1>2. resident' \subseteq Pool!Page => (Pool!Free' >= 0 <=> Cardinality(resident') <= Frames)
    BY PoolTypes, Zenon DEF Pool!Free
<1>3. Pool!TypeOK <=> PagesTyped /\ ReaperTyped
    BY <1>1, PoolCounts, ZenonT(60) DEF Pool!TypeOK, PagesTyped, ReaperTyped
<1>4. Pool!TypeOK' <=> PagesTyped' /\ ReaperTyped'
    BY <1>2, PoolCounts, ZenonT(60) DEF Pool!TypeOK, PagesTyped, ReaperTyped
<1> QED
    BY <1>3, <1>4, Zenon

\* The order of the list depends on the pages found only.
LEMMA OrderKept ==
    ASSUME Ordered, found' = found, cands' = cands
    PROVE  Ordered'
<1>1. \A g, h : Pool!Before(g, h)' <=> Pool!Before(g, h)
    BY Zenon DEF Pool!Before, Pool!Excess, Pool!PagesOf
<1>2. Ordered' <=> \A i, j \in 1..Len(cands) : i < j => Pool!Before(cands[i], cands[j])'
    BY Zenon DEF Ordered
<1> QED
    BY <1>1, <1>2, Zenon DEF Ordered

LEMMA ReaperStarts ==
    ASSUME Pool!ReaperAssumption, Pool!Init
    PROVE  ReapInv
<1>1. PagesTyped
    <2>1. Cardinality({}) = 0
        BY FS_EmptySet, Zenon
    <2>2. Frames \in Nat /\ Slots \in Nat /\ MaxTouches \in Nat
        BY Zenon DEF Pool!ReaperAssumption
    <2>3. 0 <= Frames /\ 0 <= Slots /\ 0 \in 0..MaxTouches
        BY <2>2, SMTT(60)
    <2> QED
        BY <2>1, <2>3, ZenonT(60) DEF PagesTyped, Pool!Init
<1>2. ReaperTyped
    <2>1. Cardinality(Pool!Page) \in Nat /\ NumProc \in Nat
        BY PoolPages, Zenon DEF Pool!ReaperAssumption
    <2>2. 1 \in 0..(NumProc + 1) /\ 0 \in 0..3 /\ 1 \in 1..(Cardinality(Pool!Page) + 1)
        BY <2>1, SMTT(60)
    <2> QED
        BY <2>2, ZenonT(60) DEF ReaperTyped, Pool!Init
<1>3. RoundInv /\ ~Busy
    <2>1. << >> \in Seq(Pool!Page)
        BY SMTT(60)
    <2> QED
        BY <2>1, ZenonT(60) DEF RoundInv, Busy, Pool!Init
<1> QED
    BY <1>1, <1>2, <1>3, PoolTypeSplits, Zenon DEF ReapInv

\* A user task touches a page: one more is resident, and none less.
LEMMA TouchKeeps ==
    ASSUME ReapInv, NEW g \in Pool!Page, NEW write \in BOOLEAN, Pool!Touch(g, write)
    PROVE  ReapInv'
<1>0. Pool!ReaperAssumption /\ PagesTyped /\ ReaperTyped /\ RoundInv /\ (Busy => Ordered)
    BY PoolTypeSplits, Zenon DEF ReapInv
<1>1. /\ touches < MaxTouches /\ touches' = touches + 1
      /\ g \in resident \/ Pool!Free > 0
      /\ resident' = resident \cup {g} /\ onDisk' = onDisk \ {g}
      /\ accessed' = accessed \cup {g}
      /\ dirty' \in {dirty, dirty \cup {g}, dirty \ {g}}
    BY Zenon DEF Pool!Touch
<1>2. /\ ppc' = ppc /\ todo' = todo /\ found' = found /\ cands' = cands /\ sweep' = sweep
      /\ pos' = pos /\ progress' = progress /\ full' = full
    BY Zenon DEF Pool!Touch, Pool!reaper
<1>3. PagesTyped'
    <2>1. /\ IsFiniteSet(resident) /\ Cardinality(resident) \in Nat
          /\ IsFiniteSet(onDisk) /\ Cardinality(onDisk) \in Nat
        BY <1>0, PoolTypes, Zenon DEF PagesTyped
    <2>2. Frames \in Nat /\ Slots \in Nat /\ MaxTouches \in Nat
        BY <1>0, Zenon DEF Pool!ReaperAssumption
    <2>3. Cardinality(resident') <= Frames
        <3>1. CASE g \in resident
            <4>1. resident' = resident
                BY <1>1, <3>1, Zenon
            <4> QED
                BY <1>0, <4>1, Zenon DEF PagesTyped
        <3>2. CASE g \notin resident
            <4>1. Frames - Cardinality(resident) > 0
                BY <1>1, <3>2, PoolCounts, Zenon DEF Pool!Free
            <4>2. Cardinality(resident') = Cardinality(resident) + 1
                BY <1>1, <2>1, <3>2, FS_AddElement, Zenon
            <4> QED
                BY <2>1, <2>2, <4>1, <4>2, SMTT(60)
        <3> QED
            BY <3>1, <3>2, Zenon
    <2>4. Cardinality(onDisk') <= Slots
        <3>1. Cardinality(onDisk') <= Cardinality(onDisk) /\ Cardinality(onDisk') \in Nat
            BY <1>1, <2>1, FS_Subset, FS_CardinalityType, ZenonT(60)
        <3> QED
            BY <1>0, <2>1, <2>2, <3>1, SMTT(60) DEF PagesTyped
    <2>5. touches' \in 0..MaxTouches
        BY <1>0, <1>1, <2>2, SMTT(60) DEF PagesTyped
    <2>6. /\ resident' \subseteq Pool!Page /\ onDisk' \subseteq Pool!Page /\ resident' \cap onDisk' = {}
          /\ accessed' \subseteq Pool!Page /\ dirty' \subseteq Pool!Page
        BY <1>0, <1>1, ZenonT(60) DEF PagesTyped
    <2> QED
        BY <2>3, <2>4, <2>5, <2>6, Zenon DEF PagesTyped
<1>4. ReaperTyped' /\ (Busy' => Ordered')
    BY <1>0, <1>2, OrderKept, ZenonT(60) DEF ReaperTyped, Busy
<1>5. RoundInv'
    <2>1. \A h \in resident : h \in resident'
        BY <1>1, Zenon
    <2> QED
        BY <1>0, <1>2, <2>1, ZenonT(60) DEF RoundInv, Busy
<1> QED
    BY <1>3, <1>4, <1>5, PoolTypeSplits, Zenon DEF ReapInv

LEMMA PagesKept ==
    ASSUME PagesTyped, UNCHANGED Pool!user
    PROVE  PagesTyped' /\ resident' = resident
    BY Zenon DEF PagesTyped, Pool!user

\* reap_if_needed and gather_candidates: the pages found are resident, and the list
\* has each of them once, in the order of the excess of their tasks.
LEMMA ListMade ==
    ASSUME ReapInv, Pool!Need \/ Pool!Gather \/ Pool!Sort \/ Pool!Again
    PROVE  ReapInv'
<1>0. Pool!ReaperAssumption /\ PagesTyped /\ ReaperTyped /\ RoundInv /\ (Busy => Ordered)
    BY PoolTypeSplits, Zenon DEF ReapInv
<1>1. PagesTyped' /\ resident' = resident
    <2>1. UNCHANGED Pool!user
        BY Zenon DEF Pool!Need, Pool!Gather, Pool!Sort, Pool!Again
    <2> QED
        BY <1>0, <2>1, PagesKept, Zenon
<1>2. NumProc \in Nat /\ 1 \in 0..(NumProc + 1) /\ 0 \in 0..3 /\ 0 \in 0..2
    BY <1>0, SMTT(60) DEF Pool!ReaperAssumption
<1>3. CASE Pool!Need \/ Pool!Again
    <2>1. /\ cands' = cands /\ sweep' = sweep /\ pos' = pos /\ progress' = progress /\ full' = full
          /\ \/ ppc' = "gather" /\ todo' = 1 /\ found' = {}
             \/ ppc' = "need" /\ todo' = todo /\ found' = found
        BY <1>3, ZenonT(60) DEF Pool!Need, Pool!Again
    <2>2. ReaperTyped'
        BY <1>0, <1>2, <2>1, ZenonT(60) DEF ReaperTyped
    <2>3. RoundInv' /\ ~Busy'
        BY <1>0, <2>1, ZenonT(60) DEF RoundInv, Busy
    <2> QED
        BY <1>1, <2>2, <2>3, PoolTypeSplits, Zenon DEF ReapInv
<1>4. CASE Pool!Gather
    <2>1. /\ ppc = "gather" /\ todo <= NumProc
          /\ found' = found \cup {g \in resident : g[1] = todo}
          /\ todo' = todo + 1
          /\ ppc' = ppc /\ cands' = cands /\ sweep' = sweep /\ pos' = pos
          /\ progress' = progress /\ full' = full
        BY <1>4, Zenon DEF Pool!Gather
    <2>2. todo' \in 0..(NumProc + 1)
        BY <1>0, <1>2, <2>1, SMTT(60) DEF ReaperTyped
    <2>3. found' \subseteq Pool!Page /\ found' \subseteq resident
        BY <1>0, <2>1, ZenonT(60) DEF PagesTyped, ReaperTyped, RoundInv
    <2>4. ReaperTyped'
        BY <1>0, <2>1, <2>2, <2>3, ZenonT(60) DEF ReaperTyped
    <2>5. RoundInv' /\ ~Busy'
        BY <1>0, <1>1, <2>1, <2>3, ZenonT(60) DEF RoundInv, Busy
    <2> QED
        BY <1>1, <2>4, <2>5, PoolTypeSplits, Zenon DEF ReapInv
<1>5. CASE Pool!Sort
    <2> DEFINE n == Cardinality(found)
    <2>1. /\ ppc = "gather" /\ cands' = Pool!Sorted
          /\ ppc' = (IF found = {} THEN "need" ELSE "look")
          /\ sweep' = 0 /\ pos' = 1 /\ progress' = FALSE /\ full' = FALSE
          /\ todo' = todo /\ found' = found
        BY <1>5, Zenon DEF Pool!Sort
    <2>2. /\ n \in Nat /\ n <= Cardinality(Pool!Page) /\ (found # {} => n # 0)
          /\ cands' \in [1..n -> found]
          /\ \A i, j \in 1..n : i < j => Pool!Before(cands'[i], cands'[j])
        BY <1>0, <2>1, SortedPages, Zenon DEF ReaperTyped
    <2>3. Cardinality(Pool!Page) \in Nat
        BY <1>0, PoolPages, Zenon
    <2>4. found \subseteq Pool!Page /\ found \subseteq resident
        BY <1>0, <2>1, Zenon DEF ReaperTyped, RoundInv
    <2>5. cands' \in [1..n -> Pool!Page] /\ \A i \in 1..n : cands'[i] \in resident
        BY <2>2, <2>4, ZenonT(60)
    <2> HIDE DEF n
    <2>6. cands' \in Seq(Pool!Page) /\ Len(cands') = n
        BY <2>2, <2>5, SMTT(60)
    <2>7. ReaperTyped'
        <3>1. 1 \in 1..(Cardinality(Pool!Page) + 1)
            BY <2>3, SMTT(60)
        <3> QED
            BY <1>0, <1>2, <2>1, <3>1, ZenonT(60) DEF ReaperTyped
    <2>8. RoundInv'
        <3>1. ppc' # "need" => 1 \in 1..Len(cands')
            BY <2>1, <2>2, <2>6, SMTT(60)
        <3>2. sweep' # 2
            BY <2>1, SMTT(60)
        <3> QED
            BY <1>1, <1>2, <2>1, <2>2, <2>5, <2>6, <3>1, <3>2, ZenonT(60) DEF RoundInv, Busy
    <2>9. Ordered'
        <3>1. \A g, h : Pool!Before(g, h)' <=> Pool!Before(g, h)
            BY <2>1, Zenon DEF Pool!Before, Pool!Excess, Pool!PagesOf
        <3> QED
            BY <2>2, <2>6, <3>1, Zenon DEF Ordered
    <2> QED
        BY <1>1, <2>7, <2>8, <2>9, PoolTypeSplits, Zenon DEF ReapInv
<1> QED
    BY <1>3, <1>4, <1>5, Zenon

\* reap_to decides about a candidate, and goes on to the next one: in sweep 2 it
\* evicts each page that is still resident.
LEMMA SweepGoesOn ==
    ASSUME ReapInv, Pool!Look \/ Pool!Enough \/ Pool!Advance
    PROVE  ReapInv'
<1>0. Pool!ReaperAssumption /\ PagesTyped /\ ReaperTyped /\ RoundInv /\ (Busy => Ordered)
    BY PoolTypeSplits, Zenon DEF ReapInv
<1>1. /\ UNCHANGED Pool!user
      /\ todo' = todo /\ found' = found /\ cands' = cands /\ progress' = progress /\ full' = full
    BY Zenon DEF Pool!Look, Pool!Enough, Pool!Advance
<1>2. PagesTyped' /\ resident' = resident
    BY <1>0, <1>1, PagesKept, Zenon
<1>3. Busy
    BY Zenon DEF Busy, Pool!Look, Pool!Enough, Pool!Advance
<1>4. Ordered'
    BY <1>0, <1>1, <1>3, OrderKept, Zenon
<1>5. /\ sweep \in 0..2 /\ pos \in 1..Len(cands) /\ Len(cands) <= Cardinality(Pool!Page)
      /\ progress \/ \A i \in 1..Len(cands) : cands[i] \in resident
      /\ sweep = 2 /\ (pos > 1 \/ ppc = "next") => progress \/ full
      /\ cands \in Seq(Pool!Page)
    BY <1>0, <1>3, Zenon DEF RoundInv
<1>6. CASE Pool!Look
    <2>1. /\ ppc = "look" /\ sweep' = sweep /\ pos' = pos
          /\ ppc' = (IF Pool!Cand \notin resident THEN "next"
                     ELSE IF Pool!Takes(Pool!Cand) THEN "evict"
                     ELSE IF Pool!Cand \in accessed /\ sweep >= 1 THEN "clear" ELSE "next")
        BY <1>6, Zenon DEF Pool!Look
    <2>2. sweep = 2 => Pool!Takes(Pool!Cand)
        BY SMTT(60) DEF Pool!Takes
    <2>3. ppc' = "clear" => sweep = 1
        <3>1. ppc' = "clear" => sweep >= 1 /\ sweep # 2
            BY <2>1, <2>2, ZenonT(60)
        <3> QED
            BY <1>5, <3>1, SMTT(60)
    <2>4. sweep = 2 /\ ppc' = "next" => progress
        <3>1. sweep = 2 /\ ppc' = "next" => cands[pos] \notin resident
            BY <2>1, <2>2, ZenonT(60) DEF Pool!Cand
        <3> QED
            BY <1>5, <3>1, Zenon
    <2>5. ppc' \in {"next", "evict", "clear"}
        BY <2>1, ZenonT(60)
    <2>6. ReaperTyped'
        BY <1>0, <1>1, <2>1, <2>5, ZenonT(60) DEF ReaperTyped
    <2>7. RoundInv'
        BY <1>1, <1>2, <1>5, <2>1, <2>3, <2>4, <2>5, ZenonT(60) DEF RoundInv, Busy
    <2> QED
        BY <1>2, <1>4, <2>6, <2>7, PoolTypeSplits, Zenon DEF ReapInv
<1>7. CASE Pool!Enough
    <2>1. ppc = "enough" /\ sweep' = sweep /\ pos' = pos /\ ppc' \in {"again", "next"}
        BY <1>7, Zenon DEF Pool!Enough
    <2>2. progress
        BY <1>0, <2>1, Zenon DEF RoundInv
    <2>3. ReaperTyped'
        BY <1>0, <1>1, <2>1, ZenonT(60) DEF ReaperTyped
    <2>4. RoundInv'
        BY <1>1, <1>5, <2>1, <2>2, ZenonT(60) DEF RoundInv, Busy
    <2> QED
        BY <1>2, <1>4, <2>3, <2>4, PoolTypeSplits, Zenon DEF ReapInv
<1>8. CASE Pool!Advance
    <2>1. /\ ppc = "next"
          /\ \/ pos < Len(cands) /\ pos' = pos + 1 /\ ppc' = "look" /\ sweep' = sweep
             \/ /\ pos' = 1 /\ sweep' = sweep + 1
                /\ \/ sweep < 2 /\ ppc' = "look"
                   \/ ppc' \in {"again", "need"}
        BY <1>8, ZenonT(60) DEF Pool!Advance
    <2>2. Cardinality(Pool!Page) \in Nat /\ Len(cands) \in Nat
        BY <1>0, <1>5, PoolPages, SMTT(60)
    <2>3. /\ sweep' \in 0..3 /\ pos' \in 1..(Cardinality(Pool!Page) + 1)
          /\ ppc' = "look" => sweep' \in 0..2 /\ pos' \in 1..Len(cands)
          /\ ppc' = "look" /\ sweep' = 2 /\ pos' > 1 => sweep = 2
        BY <1>5, <2>1, <2>2, SMTT(60)
    <2>4. ppc' \in {"look", "again", "need"}
        BY <2>1, ZenonT(60)
    <2>5. ReaperTyped'
        BY <1>0, <1>1, <2>3, <2>4, ZenonT(60) DEF ReaperTyped
    <2>6. RoundInv'
        BY <1>1, <1>2, <1>5, <2>1, <2>3, <2>4, ZenonT(60) DEF RoundInv, Busy
    <2> QED
        BY <1>2, <1>4, <2>5, <2>6, PoolTypeSplits, Zenon DEF ReapInv
<1> QED
    BY <1>6, <1>7, <1>8, Zenon

\* evict_addr and clear_accessed: an eviction is progress, and one that fails although
\* the page is there has met a full partition.
LEMMA CandidateDone ==
    ASSUME ReapInv, Pool!Evict \/ Pool!ClearAccessed
    PROVE  ReapInv'
<1>0. Pool!ReaperAssumption /\ PagesTyped /\ ReaperTyped /\ RoundInv /\ (Busy => Ordered)
    BY PoolTypeSplits, Zenon DEF ReapInv
<1>1. /\ todo' = todo /\ found' = found /\ cands' = cands /\ sweep' = sweep /\ pos' = pos
      /\ touches' = touches
    BY Zenon DEF Pool!Evict, Pool!ClearAccessed
<1>2. Busy
    BY Zenon DEF Busy, Pool!Evict, Pool!ClearAccessed
<1>3. Ordered'
    BY <1>0, <1>1, <1>2, OrderKept, Zenon
<1>4. /\ sweep \in 0..2 /\ pos \in 1..Len(cands) /\ Len(cands) <= Cardinality(Pool!Page)
      /\ progress \/ \A i \in 1..Len(cands) : cands[i] \in resident
      /\ cands \in Seq(Pool!Page)
    BY <1>0, <1>2, Zenon DEF RoundInv
<1>5. Pool!Cand \in Pool!Page
    BY <1>4, SMTT(60) DEF Pool!Cand
<1>6. CASE Pool!ClearAccessed
    <2>1. /\ ppc = "clear" /\ ppc' = "next" /\ accessed' = accessed \ {Pool!Cand}
          /\ resident' = resident /\ onDisk' = onDisk /\ dirty' = dirty
          /\ progress' = progress /\ full' = full
        BY <1>6, Zenon DEF Pool!ClearAccessed
    <2>2. PagesTyped' /\ ReaperTyped'
        BY <1>0, <1>1, <2>1, ZenonT(60) DEF PagesTyped, ReaperTyped
    <2>3. sweep # 2
        <3>1. sweep = 1
            BY <1>0, <2>1, Zenon DEF RoundInv
        <3> QED
            BY <3>1, SMTT(60)
    <2>4. RoundInv'
        BY <1>1, <1>4, <2>1, <2>3, ZenonT(60) DEF RoundInv, Busy
    <2> QED
        BY <1>3, <2>2, <2>4, PoolTypeSplits, Zenon DEF ReapInv
<1>7. CASE Pool!Evict /\ Pool!Cand \in resident /\ Cardinality(onDisk) < Slots
    <2>1. /\ ppc = "evict" /\ ppc' = "enough" /\ progress' = TRUE /\ full' = full
          /\ resident' = resident \ {Pool!Cand} /\ onDisk' = onDisk \cup {Pool!Cand}
          /\ accessed' = accessed \ {Pool!Cand} /\ dirty' = dirty \ {Pool!Cand}
        BY <1>7, PoolCounts, ZenonT(60) DEF Pool!Evict
    <2>2. /\ IsFiniteSet(resident) /\ Cardinality(resident) \in Nat
          /\ IsFiniteSet(onDisk) /\ Cardinality(onDisk) \in Nat
        BY <1>0, PoolTypes, Zenon DEF PagesTyped
    <2>3. Frames \in Nat /\ Slots \in Nat
        BY <1>0, Zenon DEF Pool!ReaperAssumption
    <2>4. Pool!Cand \notin onDisk
        BY <1>0, <1>7, Zenon DEF PagesTyped
    <2>5. Cardinality(resident') = Cardinality(resident) - 1 /\ Cardinality(onDisk') = Cardinality(onDisk) + 1
        BY <1>7, <2>1, <2>2, <2>4, FS_AddElement, FS_RemoveElement, ZenonT(60)
    <2>6. Cardinality(resident') <= Frames /\ Cardinality(onDisk') <= Slots
        BY <1>0, <1>7, <2>2, <2>3, <2>5, SMTT(60) DEF PagesTyped
    <2>7. /\ resident' \subseteq Pool!Page /\ onDisk' \subseteq Pool!Page /\ resident' \cap onDisk' = {}
          /\ accessed' \subseteq Pool!Page /\ dirty' \subseteq Pool!Page
        BY <1>0, <1>5, <2>1, ZenonT(60) DEF PagesTyped
    <2>8. PagesTyped' /\ ReaperTyped'
        BY <1>0, <1>1, <2>1, <2>6, <2>7, ZenonT(60) DEF PagesTyped, ReaperTyped
    <2>9. RoundInv'
        BY <1>1, <1>4, <2>1, ZenonT(60) DEF RoundInv, Busy
    <2> QED
        BY <1>3, <2>8, <2>9, PoolTypeSplits, Zenon DEF ReapInv
<1>8. CASE Pool!Evict /\ ~(Pool!Cand \in resident /\ Cardinality(onDisk) < Slots)
    <2>1. /\ ppc = "evict" /\ ppc' = "next" /\ full' = TRUE /\ progress' = progress
          /\ resident' = resident /\ onDisk' = onDisk /\ accessed' = accessed /\ dirty' = dirty
        BY <1>8, PoolCounts, ZenonT(60) DEF Pool!Evict
    <2>2. PagesTyped' /\ ReaperTyped'
        BY <1>0, <1>1, <2>1, ZenonT(60) DEF PagesTyped, ReaperTyped
    <2>3. RoundInv'
        BY <1>1, <1>4, <2>1, ZenonT(60) DEF RoundInv, Busy
    <2> QED
        BY <1>3, <2>2, <2>3, PoolTypeSplits, Zenon DEF ReapInv
<1> QED
    BY <1>6, <1>7, <1>8, Zenon

LEMMA ReapStep ==
    ASSUME ReapInv, [Pool!Next]_(Pool!vars)
    PROVE  ReapInv'
<1>1. CASE UNCHANGED Pool!vars
    <2>1. /\ UNCHANGED Pool!user
          /\ ppc' = ppc /\ todo' = todo /\ found' = found /\ cands' = cands /\ sweep' = sweep
          /\ pos' = pos /\ progress' = progress /\ full' = full
        BY <1>1, Zenon DEF Pool!vars, Pool!reaper
    <2>2. PagesTyped /\ ReaperTyped /\ RoundInv /\ (Busy => Ordered)
        BY PoolTypeSplits, Zenon DEF ReapInv
    <2>3. PagesTyped' /\ resident' = resident
        BY <2>1, <2>2, PagesKept, Zenon
    <2>4. ReaperTyped' /\ RoundInv' /\ (Busy' => Ordered')
        BY <2>1, <2>2, <2>3, OrderKept, ZenonT(60) DEF ReaperTyped, RoundInv, Busy
    <2> QED
        BY <2>3, <2>4, PoolTypeSplits, Zenon DEF ReapInv
<1>2. CASE Pool!Rest
    BY <1>1, <1>2, Zenon DEF Pool!Rest
<1>3. CASE Pool!Reap
    BY <1>3, ListMade, SweepGoesOn, CandidateDone, Zenon DEF Pool!Reap
<1>4. CASE \E g \in Pool!Page, write \in BOOLEAN : Pool!Touch(g, write)
    BY <1>4, TouchKeeps, Zenon
<1> QED
    BY <1>1, <1>2, <1>3, <1>4, Zenon DEF Pool!Next

\* What a sorted list says of tasks above their share.
LEMMA SortedFavours == ReapInv => Pool!AboveShareFirst
<1> SUFFICES ASSUME ReapInv, ppc = "look",
                    NEW i \in 1..Len(cands), NEW j \in 1..Len(cands),
                    Pool!Excess(cands[i][1]) <= 0, Pool!Excess(cands[j][1]) > 0
             PROVE  j < i
    BY Zenon DEF Pool!AboveShareFirst
<1>1. Pool!ReaperAssumption /\ ReaperTyped /\ RoundInv /\ Ordered
    BY PoolTypeSplits, ZenonT(60) DEF ReapInv, Busy
<1>2. cands[i] \in Pool!Page /\ cands[j] \in Pool!Page /\ i \in Int /\ j \in Int
    BY <1>1, SMTT(60) DEF RoundInv
<1>3. cands[i][1] \in 1..NumProc /\ cands[j][1] \in 1..NumProc
    BY <1>1, <1>2, PoolPages, Zenon
<1>4. Pool!Excess(cands[i][1]) \in Int /\ Pool!Excess(cands[j][1]) \in Int
    BY <1>1, <1>3, ExcessTyped, Zenon DEF ReaperTyped
<1>5. i # j
    <2>1. ASSUME i = j PROVE Pool!Excess(cands[i][1]) = Pool!Excess(cands[j][1])
        BY <2>1, Zenon
    <2> QED
        BY <1>4, <2>1, SMTT(60)
<1>6. ~Pool!Before(cands[i], cands[j])
    BY <1>4, SMTT(60) DEF Pool!Before
<1>7. ~(i < j)
    BY <1>1, <1>6, Zenon DEF Ordered
<1> QED
    BY <1>2, <1>5, <1>7, SMTT(60)

\* gather_candidates and reap_to, for any tasks, areas, frames and slots and any
\* touches between two looks of the reaper: frames and slots are not overdrawn, pages
\* of tasks above their share come first in the victim list, and a round of sweeps
\* that evicts nothing has met a full swap partition.
THEOREM ReaperStaysSafe ==
    Pool!ReaperAssumption /\ Pool!Spec
        => [](Pool!TypeOK /\ Pool!AboveShareFirst) /\ Pool!RoundMakesProgress
<1>1. Pool!ReaperAssumption /\ Pool!Init => ReapInv
    BY ReaperStarts, Zenon
<1>2. ReapInv /\ [Pool!Next]_(Pool!vars) => ReapInv'
    BY ReapStep, Zenon
<1>3. ReapInv => Pool!TypeOK /\ Pool!AboveShareFirst
    BY SortedFavours, Zenon DEF ReapInv
<1>4. ReapInv /\ [Pool!Next]_(Pool!vars)
        => [ppc = "next" /\ ppc' = "need" => full]_(Pool!vars)
    <2> SUFFICES ASSUME ReapInv, Pool!Next, ppc = "next", ppc' = "need"
                 PROVE  full
        BY ZenonT(60)
    <2>1. ppc' # ppc
        OBVIOUS
    <2>2. Pool!Advance
        BY <2>1, ZenonT(60) DEF Pool!Next, Pool!Reap, Pool!Rest, Pool!Need, Pool!Gather, Pool!Sort, Pool!Look,
           Pool!Evict, Pool!Enough, Pool!ClearAccessed, Pool!Again, Pool!Touch, Pool!vars, Pool!reaper
    <2>3. ~(sweep < 2) /\ ~progress
        BY <2>2, ZenonT(60) DEF Pool!Advance
    <2>4. RoundInv /\ Busy
        BY Zenon DEF ReapInv, Busy
    <2>5. sweep = 2
        BY <2>3, <2>4, SMTT(60) DEF RoundInv
    <2> QED
        BY <2>3, <2>4, <2>5, Zenon DEF RoundInv
<1> QED
    BY <1>1, <1>2, <1>3, <1>4, PTL DEF Pool!Spec, Pool!RoundMakesProgress
=============================================================================
