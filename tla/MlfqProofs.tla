----------------------------- MODULE MlfqProofs -----------------------------
(***************************************************************************)
(* What each operation of the multilevel feedback queue preserves, for     *)
(* any number of tasks, queues and ticks.  The facts about a scheduler     *)
(* value that every lemma carries are in Sound.                            *)
(***************************************************************************)
EXTENDS Mlfq, SequenceTheorems, WellFoundedInduction, TLAPS

\* A scheduler value the code can hold: typed, its run queues well formed, and
\* every task's priority the index of a queue.
Sound(s) ==
    /\ s \in SchedState
    /\ RunQueuesWellFormed(s)
    /\ \A t \in Tid : s.priority[t] \in Level

\* s and r hold the same tasks in their queues.
SameQueued(s, r) == \A u \in Tid : Queued(s, u) <=> Queued(r, u)

\* Level is a nonempty prefix of the naturals, within the range of a u8.
LEMMA LevelFacts ==
    /\ NumQueues \in Nat
    /\ 0 \in Level /\ 1 \in Level /\ NumQueues - 1 \in Level
    /\ Level \subseteq Nat /\ Level \subseteq Priority
    /\ \A i \in Level : i < NumQueues - 1 => i + 1 \in Level
    /\ \A i \in Level \ {0} : i - 1 \in Level
BY MlfqAssumption, SMTT(60) DEF Level, Priority

\* Appending to one queue: what ends up where.
LEMMA AppendOne ==
    ASSUME NEW Q \in [Level -> Seq(Tid)], NEW p \in Level, NEW t \in Tid,
           NEW R, R = [Q EXCEPT ![p] = Append(@, t)]
    PROVE  /\ R \in [Level -> Seq(Tid)]
           /\ \A i \in Level \ {p} : R[i] = Q[i]
           /\ Len(R[p]) = Len(Q[p]) + 1
           /\ \A m \in 1..Len(Q[p]) : R[p][m] = Q[p][m]
           /\ R[p][Len(Q[p]) + 1] = t
<1>1. Q[p] \in Seq(Tid)
  BY Zenon
<1>2. /\ Append(Q[p], t) \in Seq(Tid)
      /\ Len(Append(Q[p], t)) = Len(Q[p]) + 1
      /\ \A m \in 1..Len(Q[p]) : Append(Q[p], t)[m] = Q[p][m]
      /\ Append(Q[p], t)[Len(Q[p]) + 1] = t
  BY <1>1, AppendProperties, SMTT(60)
<1>3. R[p] = Append(Q[p], t)
  BY Zenon
<1>. QED
  BY <1>2, <1>3, Zenon

\* Every occurrence in a well-formed set of queues is told by Queued.
LEMMA QueuedAt ==
    ASSUME NEW s \in SchedState, NEW i \in Level, NEW m \in 1..Len(s.queues[i])
    PROVE  /\ s.queues[i] \in Seq(Tid)
           /\ s.queues[i][m] \in Tid
           /\ Queued(s, s.queues[i][m])
<1>1. s.queues \in [Level -> Seq(Tid)]
  BY Zenon DEF SchedState
<1>2. s.queues[i] \in Seq(Tid)
  BY <1>1, Zenon
<1>3. s.queues[i][m] \in Tid
  BY <1>2, ElementOfSeq, Zenon
<1>. QED
  BY <1>2, <1>3, Zenon DEF Queued, Occurs

\* A task in a well-formed set of queues is Ready and does not run.
LEMMA QueuedIsWaiting ==
    ASSUME NEW s, RunQueuesWellFormed(s), NEW u, Queued(s, u)
    PROVE  s.state[u] = "Ready" /\ u # s.current
<1>1. PICK i \in Level : \E m \in 1..Len(s.queues[i]) : s.queues[i][m] = u
  BY Zenon DEF Queued, Occurs
<1>2. PICK m \in 1..Len(s.queues[i]) : s.queues[i][m] = u
  BY <1>1, Zenon
<1>3. s.state[s.queues[i][m]] = "Ready" /\ s.queues[i][m] # s.current
  BY Zenon DEF RunQueuesWellFormed
<1>. QED
  BY <1>2, <1>3, Zenon

\* r is s with task t at the back of queue p; slice and flag may differ.
EnqueuedAt(s, r, p, t) ==
    /\ r \in SchedState
    /\ r.queues = [s.queues EXCEPT ![p] = Append(@, t)]
    /\ r.current = s.current
    /\ r.state = s.state
    /\ r.priority = s.priority

\* Putting a Ready task that is neither queued nor current at the back of the
\* queue of its priority keeps the queues well formed.
LEMMA EnqueueSound ==
    ASSUME NEW s, Sound(s), NEW t \in Tid, NEW p \in Level,
           ~Queued(s, t), t # s.current, s.state[t] = "Ready", s.priority[t] = p,
           NEW r, EnqueuedAt(s, r, p, t)
    PROVE  /\ Sound(r)
           /\ \A u \in Tid : Queued(r, u) <=> Queued(s, u) \/ u = t
<1>. DEFINE Q == s.queues
            R == r.queues
<1>1. s \in SchedState /\ Q \in [Level -> Seq(Tid)]
  BY Zenon DEF Sound, SchedState
<1>2. /\ r.current = s.current /\ r.state = s.state /\ r.priority = s.priority
      /\ R = [Q EXCEPT ![p] = Append(@, t)]
  BY Zenon DEF EnqueuedAt
<1>3. /\ R \in [Level -> Seq(Tid)]
      /\ \A i \in Level \ {p} : R[i] = Q[i]
      /\ Len(R[p]) = Len(Q[p]) + 1
      /\ \A m \in 1..Len(Q[p]) : R[p][m] = Q[p][m]
      /\ R[p][Len(Q[p]) + 1] = t
  BY <1>1, <1>2, AppendOne, SMTT(60)
<1>4. r \in SchedState
  BY Zenon DEF EnqueuedAt
<1>5. \A i \in Level : Len(Q[i]) \in Nat /\ Len(R[i]) \in Nat
  BY <1>1, <1>3, LenProperties, Zenon
<1>6. \A i \in Level : \A m \in 1..Len(R[i]) :
         \/ m \in 1..Len(Q[i]) /\ R[i][m] = Q[i][m]
         \/ i = p /\ m = Len(Q[p]) + 1 /\ R[i][m] = t
  BY <1>3, <1>5, SMTT(60)
<1>7. \A i \in Level : \A m \in 1..Len(Q[i]) : m \in 1..Len(R[i]) /\ R[i][m] = Q[i][m]
  BY <1>3, <1>5, SMTT(60)
<1>8. \A i \in Level : \A m \in 1..Len(Q[i]) : Q[i][m] # t
  BY Zenon DEF Queued, Occurs
<1>q. \A u : Queued(s, u) <=> \E i \in Level : \E m \in 1..Len(Q[i]) : Q[i][m] = u
  BY Zenon DEF Queued, Occurs
<1>r. \A u : Queued(r, u) <=> \E i \in Level : \E m \in 1..Len(R[i]) : R[i][m] = u
  BY Zenon DEF Queued, Occurs
<1>u. \A i, j \in Level : \A m \in 1..Len(Q[i]), n \in 1..Len(Q[j]) :
         Q[i][m] = Q[j][n] => i = j /\ m = n
  BY Zenon DEF Sound, RunQueuesWellFormed
<1>w. \A i \in Level : \A m \in 1..Len(Q[i]) :
         s.priority[Q[i][m]] = i /\ s.state[Q[i][m]] = "Ready" /\ Q[i][m] # s.current
  BY ZenonT(60) DEF Sound, RunQueuesWellFormed
<1>. HIDE DEF Q, R
<1>9. \A u \in Tid : Queued(r, u) <=> Queued(s, u) \/ u = t
  <2>1. Len(Q[p]) + 1 \in 1..Len(R[p])
    BY <1>3, <1>5, SMTT(60)
  <2>2. ASSUME NEW u \in Tid, Queued(r, u)
        PROVE  Queued(s, u) \/ u = t
    <3>1. PICK i \in Level : \E m \in 1..Len(R[i]) : R[i][m] = u
      BY <1>r, <2>2, Zenon
    <3>. QED
      BY <1>q, <1>6, <3>1, SMTT(60)
  <2>3. ASSUME NEW u \in Tid, Queued(s, u)
        PROVE  Queued(r, u)
    BY <1>q, <1>r, <1>7, <2>3, SMTT(60)
  <2>4. Queued(r, t)
    BY <1>r, <1>3, <2>1, Zenon
  <2>. QED
    BY <2>2, <2>3, <2>4, Zenon
<1>10. RunQueuesWellFormed(r)
  <2>0. ASSUME NEW i \in Level, NEW m \in 1..Len(R[i]), R[i][m] = t
        PROVE  i = p /\ m = Len(Q[p]) + 1
    BY <1>6, <1>8, <2>0, Zenon
  <2>1. ASSUME NEW i \in Level, NEW j \in Level,
               NEW m \in 1..Len(R[i]), NEW n \in 1..Len(R[j]), R[i][m] = R[j][n]
        PROVE  i = j /\ m = n
    <3>1. CASE R[i][m] = t
      <4>1. i = p /\ m = Len(Q[p]) + 1
        BY <2>0, <3>1, Zenon
      <4>2. j = p /\ n = Len(Q[p]) + 1
        <5>1. R[j][n] = t
          BY <2>1, <3>1, Zenon
        <5>. QED
          BY <2>0, <5>1, Zenon
      <4>. QED
        BY <4>1, <4>2, Zenon
    <3>2. CASE R[i][m] # t
      <4>1. /\ m \in 1..Len(Q[i]) /\ n \in 1..Len(Q[j])
            /\ Q[i][m] = Q[j][n]
        <5>1. m \in 1..Len(Q[i]) /\ R[i][m] = Q[i][m]
          BY <1>6, <3>2, Zenon
        <5>2. n \in 1..Len(Q[j]) /\ R[j][n] = Q[j][n]
          BY <1>6, <2>1, <3>2, Zenon
        <5>. QED
          BY <2>1, <5>1, <5>2, Zenon
      <4>. QED
        BY <1>u, <4>1, SMTT(60)
    <3>. QED
      BY <3>1, <3>2, Zenon
  <2>2. ASSUME NEW i \in Level, NEW m \in 1..Len(R[i])
        PROVE  /\ r.priority[R[i][m]] = i
               /\ r.state[R[i][m]] = "Ready"
               /\ R[i][m] # r.current
    BY <1>2, <1>6, <1>w, SMTT(60)
  <2>. QED
    BY <2>1, <2>2, Zenon DEF RunQueuesWellFormed, R
<1>. QED
  BY <1>2, <1>4, <1>9, <1>10, Zenon DEF Sound

\* push keeps the queues well formed and adds exactly the task it is given.
LEMMA PushSound ==
    ASSUME NEW s, Sound(s), NEW t \in Tid,
           ~Queued(s, t), t # s.current, s.state[t] = "Ready"
    PROVE  /\ Sound(Push(s, t))
           /\ \A u \in Tid : Queued(Push(s, t), u) <=> Queued(s, u) \/ u = t
           /\ Push(s, t).current = s.current /\ Push(s, t).state = s.state
           /\ Push(s, t).priority = s.priority
           /\ Push(s, t).needs_reschedule = s.needs_reschedule
<1>. DEFINE p == s.priority[t]
<1>1. p \in Level /\ p < NumQueues
  BY MlfqAssumption, SMTT(60) DEF Sound, Level
<1>. DEFINE Q == [s.queues EXCEPT ![p] = Append(@, t)]
            r == Push(s, t)
<1>2. r = [s EXCEPT !.queues = Q]
  BY <1>1, Zenon DEF Push
<1>3. s \in SchedState /\ Q \in [Level -> Seq(Tid)]
  BY <1>1, AppendOne, Zenon DEF Sound, SchedState
<1>. HIDE DEF p, Q, r
<1>4. /\ r \in SchedState /\ r.queues = Q
      /\ r.current = s.current /\ r.state = s.state /\ r.priority = s.priority
      /\ r.needs_reschedule = s.needs_reschedule
  BY <1>2, <1>3, Zenon DEF SchedState
<1>5. EnqueuedAt(s, r, p, t)
  BY <1>4, Zenon DEF EnqueuedAt, Q
<1>6. /\ Sound(r)
      /\ \A u \in Tid : Queued(r, u) <=> Queued(s, u) \/ u = t
  BY <1>1, <1>5, EnqueueSound, Zenon DEF p
<1>. QED
  BY <1>4, <1>6, Zenon DEF r

\* A nonempty set of naturals has a least element.
LEMMA LeastNat ==
    ASSUME NEW S, S \subseteq Nat, S # {}
    PROVE  \E i \in S : \A j \in S : i <= j
<1>1. PICK i \in S : \A j \in S : <<j, i>> \notin OpToRel(<, Nat)
  BY WFMin, NatLessThanWellFounded, Zenon
<1>2. \A j \in S : ~(j < i)
  <2>1. \A j \in S : <<j, i>> \in Nat \X Nat
    BY Zenon
  <2> QED
    BY <1>1, <2>1, Zenon DEF OpToRel
<1> QED
  BY <1>2, SMTT(60)

\* pick_next: the level it finds is the first that is not empty.
LEMMA FirstLevelFacts ==
    ASSUME NEW s \in SchedState, SomeQueued(s)
    PROVE  /\ FirstLevel(s) \in Level
           /\ s.queues[FirstLevel(s)] # << >>
           /\ \A j \in Level : j < FirstLevel(s) => s.queues[j] = << >>
<1>. DEFINE NonEmpty == {i \in Level : s.queues[i] # << >>}
<1>1. NonEmpty \subseteq Nat /\ NonEmpty # {}
  BY LevelFacts, Zenon DEF SomeQueued
<1>2. PICK i \in NonEmpty : \A j \in NonEmpty : i <= j
  BY <1>1, LeastNat, Zenon
<1>3. /\ i \in Level /\ s.queues[i] # << >>
      /\ \A j \in Level : j < i => s.queues[j] = << >>
  BY <1>2, LevelFacts, SMTT(60)
<1>. QED
  BY <1>3, Zenon DEF FirstLevel

\* Popping the head of one queue: what is left, and where it was.
LEMMA TailOne ==
    ASSUME NEW Q \in [Level -> Seq(Tid)], NEW p \in Level, Q[p] # << >>,
           NEW R, R = [Q EXCEPT ![p] = Tail(@)]
    PROVE  /\ R \in [Level -> Seq(Tid)]
           /\ \A i \in Level \ {p} : R[i] = Q[i]
           /\ Len(Q[p]) \in Nat \ {0} /\ Len(R[p]) = Len(Q[p]) - 1
           /\ \A m \in 1..Len(R[p]) : m + 1 \in 2..Len(Q[p]) /\ R[p][m] = Q[p][m + 1]
           /\ \A m \in 2..Len(Q[p]) : m - 1 \in 1..Len(R[p]) /\ Q[p][m] = R[p][m - 1]
           /\ Head(Q[p]) = Q[p][1] /\ Head(Q[p]) \in Tid
<1>1. Q[p] \in Seq(Tid)
  BY Zenon
<1>2. PICK q : q = Q[p]
  BY Zenon
<1>3. PICK w : w = Tail(q)
  BY Zenon
<1>4. /\ q \in Seq(Tid) /\ Head(q) \in Tid /\ Head(q) = q[1]
      /\ w \in Seq(Tid) /\ Len(w) = Len(q) - 1
      /\ \A m \in 1..Len(w) : w[m] = q[m + 1]
      /\ Len(q) \in Nat \ {0}
  <2>1. Head(q) = q[1]
    BY SMTT(60)
  <2>. QED
    BY <1>1, <1>2, <1>3, <2>1, HeadTailProperties, EmptySeq, Zenon
<1>5. R = [Q EXCEPT ![p] = w]
  BY <1>2, <1>3, Zenon
<1>6. R \in [Level -> Seq(Tid)] /\ R[p] = w /\ \A i \in Level \ {p} : R[i] = Q[i]
  BY <1>4, <1>5, Zenon
<1>7. \A m \in 1..Len(w) : m + 1 \in 2..Len(q)
  BY <1>4, SMTT(60)
<1>8. \A m \in 2..Len(q) : m - 1 \in 1..Len(w) /\ (m - 1) + 1 = m
  BY <1>4, SMTT(60)
<1>9. \A m \in 2..Len(q) : q[m] = w[m - 1]
  BY <1>4, <1>8, Zenon
<1>. QED
  BY <1>2, <1>4, <1>6, <1>7, <1>8, <1>9, Zenon

\* pick_next removes one queued task, which then is in no queue.
LEMMA DequeueSound ==
    ASSUME NEW s, Sound(s), SomeQueued(s),
           NEW r, r = [s EXCEPT !.queues[FirstLevel(s)] = Tail(@)]
    PROVE  /\ PickNext(s) \in Tid /\ Queued(s, PickNext(s)) /\ ~Queued(r, PickNext(s))
           /\ PickNext(s) # s.current
           /\ Sound(r)
           /\ \A u \in Tid : Queued(r, u) <=> Queued(s, u) /\ u # PickNext(s)
           /\ r.current = s.current /\ r.state = s.state
           /\ r.priority = s.priority
<1>. DEFINE Q == s.queues
            R == r.queues
            p == FirstLevel(s)
            in == PickNext(s)
<1>1. /\ s \in SchedState /\ RunQueuesWellFormed(s)
      /\ Q \in [Level -> Seq(Tid)]
  BY Zenon DEF Sound, SchedState
<1>2. p \in Level /\ Q[p] \in Seq(Tid) /\ Q[p] # << >>
  BY <1>1, FirstLevelFacts, Zenon
<1>3. /\ R = [Q EXCEPT ![p] = Tail(@)]
      /\ r.current = s.current /\ r.state = s.state /\ r.priority = s.priority
      /\ r.ticks_remaining = s.ticks_remaining /\ r.total_ticks = s.total_ticks
      /\ r.needs_reschedule = s.needs_reschedule
      /\ r = [s EXCEPT !.queues = [Q EXCEPT ![p] = Tail(@)]]
  BY <1>1, Zenon DEF SchedState
<1>4. in = Head(Q[p])
  BY Zenon DEF PickNext
<1>q. \A u : Queued(s, u) <=> \E i \in Level : \E m \in 1..Len(Q[i]) : Q[i][m] = u
  BY Zenon DEF Queued, Occurs
<1>r. \A u : Queued(r, u) <=> \E i \in Level : \E m \in 1..Len(R[i]) : R[i][m] = u
  BY Zenon DEF Queued, Occurs
<1>u. \A i, j \in Level : \A m \in 1..Len(Q[i]), n \in 1..Len(Q[j]) :
         Q[i][m] = Q[j][n] => i = j /\ m = n
  BY <1>1, Zenon DEF RunQueuesWellFormed
<1>. HIDE DEF p, in, Q, R
<1>5. /\ R \in [Level -> Seq(Tid)]
      /\ \A i \in Level \ {p} : R[i] = Q[i]
      /\ Len(Q[p]) \in Nat \ {0} /\ Len(R[p]) = Len(Q[p]) - 1
      /\ \A m \in 1..Len(R[p]) : m + 1 \in 2..Len(Q[p]) /\ R[p][m] = Q[p][m + 1]
      /\ \A m \in 2..Len(Q[p]) : m - 1 \in 1..Len(R[p]) /\ Q[p][m] = R[p][m - 1]
      /\ in = Q[p][1] /\ in \in Tid
  BY <1>1, <1>2, <1>3, <1>4, TailOne, SMTT(60)
<1>6. \A i \in Level : Len(Q[i]) \in Nat /\ Len(R[i]) \in Nat
  BY <1>1, <1>5, LenProperties, Zenon
<1>7. r \in SchedState
  BY <1>1, <1>3, <1>5, Zenon DEF SchedState, R
<1>8. \A i \in Level : \A m \in 1..Len(R[i]) :
         \/ i # p /\ m \in 1..Len(Q[i]) /\ R[i][m] = Q[i][m]
         \/ i = p /\ m + 1 \in 2..Len(Q[i]) /\ R[i][m] = Q[i][m + 1]
  BY <1>2, <1>5, Zenon
<1>9. \A i \in Level : \A m \in 1..Len(Q[i]) :
         \/ i = p /\ m = 1 /\ Q[i][m] = in
         \/ \E n \in 1..Len(R[i]) : R[i][n] = Q[i][m]
  <2>1. ASSUME NEW m \in 1..Len(Q[p]), m # 1
        PROVE  \E n \in 1..Len(R[p]) : R[p][n] = Q[p][m]
    <3>1. m \in 2..Len(Q[p])
      BY <1>5, <2>1, SMTT(60)
    <3>. QED
      BY <1>5, <3>1, Zenon
  <2>. QED
    BY <1>2, <1>5, <2>1, ZenonT(60)
<1>10. 1 \in 1..Len(Q[p])
  BY <1>5, SMTT(60)
<1>11. Queued(s, in) /\ in # s.current
  <2>1. Queued(s, in)
    BY <1>q, <1>2, <1>5, <1>10, Zenon
  <2>. QED
    BY <1>1, <2>1, QueuedIsWaiting, Zenon
<1>12. \A i \in Level : \A m \in 1..Len(R[i]) : R[i][m] # in
  <2>1. ASSUME NEW i \in Level, NEW m \in 1..Len(R[i]), R[i][m] = in
        PROVE  FALSE
    <3>1. CASE i # p
      BY <1>2, <1>u, <1>5, <1>8, <1>10, <2>1, <3>1, SMTT(60)
    <3>2. CASE i = p
      <4>1. m + 1 \in 1..Len(Q[p]) /\ m + 1 # 1 /\ Q[p][m + 1] = Q[p][1]
        BY <1>5, <1>6, <1>8, <2>1, <3>2, SMTT(60)
      <4>. QED
        BY <1>2, <1>u, <1>10, <4>1, ZenonT(60)
    <3>. QED
      BY <3>1, <3>2, Zenon
  <2>. QED
    BY <2>1, Zenon
<1>13. \A u \in Tid : Queued(r, u) <=> Queued(s, u) /\ u # in
  <2>1. \A i \in Level : \A m \in 1..Len(R[i]) : \E n \in 1..Len(Q[i]) : Q[i][n] = R[i][m]
    BY <1>6, <1>8, SMTT(60)
  <2>2. ASSUME NEW u \in Tid, Queued(r, u)
        PROVE  Queued(s, u) /\ u # in
    BY <1>q, <1>r, <1>12, <2>1, <2>2, SMTT(60)
  <2>3. ASSUME NEW u \in Tid, Queued(s, u), u # in
        PROVE  Queued(r, u)
    BY <1>q, <1>r, <1>9, <2>3, ZenonT(60)
  <2>. QED
    BY <2>2, <2>3, Zenon
<1>14. RunQueuesWellFormed(r)
  <2>1. ASSUME NEW i \in Level, NEW j \in Level,
               NEW m \in 1..Len(R[i]), NEW n \in 1..Len(R[j]), R[i][m] = R[j][n]
        PROVE  i = j /\ m = n
    <3>1. PICK mm \in 1..Len(Q[i]) : R[i][m] = Q[i][mm] /\ mm = IF i = p THEN m + 1 ELSE m
      BY <1>6, <1>8, SMTT(60)
    <3>2. PICK nn \in 1..Len(Q[j]) : R[j][n] = Q[j][nn] /\ nn = IF j = p THEN n + 1 ELSE n
      BY <1>6, <1>8, SMTT(60)
    <3>3. Q[i][mm] = Q[j][nn]
      BY <2>1, <3>1, <3>2, Zenon
    <3>4. i = j /\ mm = nn
      BY <1>u, <3>3, ZenonT(60)
    <3>. QED
      BY <1>6, <3>1, <3>2, <3>4, SMTT(60)
  <2>2. ASSUME NEW i \in Level, NEW m \in 1..Len(R[i])
        PROVE  /\ r.priority[R[i][m]] = i
               /\ r.state[R[i][m]] = "Ready"
               /\ R[i][m] # r.current
    <3>1. PICK k \in 1..Len(Q[i]) : R[i][m] = Q[i][k]
      BY <1>6, <1>8, SMTT(60)
    <3>. QED
      BY <1>1, <1>3, <3>1, SMTT(60) DEF RunQueuesWellFormed, Q
  <2>. QED
    BY <2>1, <2>2, Zenon DEF RunQueuesWellFormed, R
<1>. QED
  BY <1>3, <1>5, <1>7, <1>11, <1>13, <1>14, Zenon DEF Sound, in

\* A change that leaves the queues and the queued tasks alone keeps the
\* scheduler sound, if the task it makes current is not a queued one.
LEMMA OutsideQueuesSound ==
    ASSUME NEW s, Sound(s), NEW r \in SchedState,
           r.queues = s.queues,
           \A u \in Tid : Queued(s, u) =>
              r.state[u] = s.state[u] /\ r.priority[u] = s.priority[u] /\ u # r.current,
           \A u \in Tid : r.priority[u] \in Level
    PROVE  Sound(r) /\ SameQueued(s, r)
<1>. DEFINE Q == s.queues
<1>1. s \in SchedState /\ RunQueuesWellFormed(s)
  BY Zenon DEF Sound
<1>2. SameQueued(s, r)
  BY Zenon DEF SameQueued, Queued
<1>3. \A i \in Level : \A m \in 1..Len(Q[i]) : Q[i][m] \in Tid /\ Queued(s, Q[i][m])
  BY <1>1, QueuedAt, Zenon
<1>4. RunQueuesWellFormed(r)
  <2>1. \A i, j \in Level : \A m \in 1..Len(Q[i]), n \in 1..Len(Q[j]) :
           Q[i][m] = Q[j][n] => i = j /\ m = n
    BY <1>1, Zenon DEF RunQueuesWellFormed
  <2>2. \A i \in Level : \A m \in 1..Len(Q[i]) :
           /\ r.priority[Q[i][m]] = i
           /\ r.state[Q[i][m]] = "Ready"
           /\ Q[i][m] # r.current
    BY <1>1, <1>3, SMTT(60) DEF RunQueuesWellFormed
  <2>. QED
    BY <2>1, <2>2, SMTT(60) DEF RunQueuesWellFormed
<1>. QED
  BY <1>2, <1>4, Zenon DEF Sound

\* Marking the current task, or one that has left, changes no queue.
LEMMA SetStateSound ==
    ASSUME NEW s, Sound(s), NEW t \in Tid, NEW st \in TaskState, ~Queued(s, t)
    PROVE  /\ Sound(SetState(s, t, st)) /\ SameQueued(s, SetState(s, t, st))
           /\ SetState(s, t, st).current = s.current
           /\ SetState(s, t, st).state = [s.state EXCEPT ![t] = st]
           /\ SetState(s, t, st).priority = s.priority
<1>. DEFINE r == SetState(s, t, st)
<1>1. s \in SchedState /\ \A u \in Tid : Queued(s, u) => u # s.current
  BY SMTT(60) DEF Sound, RunQueuesWellFormed, Queued, Occurs
<1>2. /\ r \in SchedState /\ r.queues = s.queues /\ r.current = s.current
      /\ r.state = [s.state EXCEPT ![t] = st] /\ r.priority = s.priority
  BY <1>1, Zenon DEF SetState, SchedState
<1>. HIDE DEF r
<1>3. \A u \in Tid : Queued(s, u) =>
         r.state[u] = s.state[u] /\ r.priority[u] = s.priority[u] /\ u # r.current
  BY <1>1, <1>2, Zenon DEF SchedState
<1>4. Sound(r) /\ SameQueued(s, r)
  BY <1>2, <1>3, OutsideQueuesSound, Zenon DEF Sound
<1>. QED
  BY <1>2, <1>4, Zenon DEF r

\* remove_current empties the CPU, asks for a switch, and changes no queue.
LEMMA RemoveCurrentSound ==
    ASSUME NEW s, Sound(s)
    PROVE  /\ Sound(RemoveCurrent(s)) /\ SameQueued(s, RemoveCurrent(s))
           /\ RemoveCurrent(s).current = None
           /\ RemoveCurrent(s).state = s.state
           /\ RemoveCurrent(s).priority = s.priority
           /\ s.current # None => RemoveCurrent(s).needs_reschedule
<1>. DEFINE r == RemoveCurrent(s)
<1>1. s \in SchedState
  BY Zenon DEF Sound
<1>2. /\ r \in SchedState /\ r.queues = s.queues /\ r.current = None
      /\ r.state = s.state /\ r.priority = s.priority
      /\ s.current # None => r.needs_reschedule
  BY <1>1, Zenon DEF RemoveCurrent, SchedState
<1>. HIDE DEF r
<1>3. \A u \in Tid : u # r.current
  BY <1>2, MlfqAssumption, Zenon
<1>4. Sound(r) /\ SameQueued(s, r)
  BY <1>2, <1>3, OutsideQueuesSound, Zenon DEF Sound
<1>. QED
  BY <1>2, <1>4, Zenon DEF r

\* R holds what Q holds, entry by entry, one level up.
BoostedFrom(Q, R) ==
    /\ R \in [Level -> Seq(Tid)]
    /\ \A i \in Level : \A m \in 1..Len(R[i]) :
          \/ i = 0 /\ m \in 1..Len(Q[0]) /\ R[i][m] = Q[0][m]
          \/ i = 0 /\ m - Len(Q[0]) \in 1..Len(Q[1]) /\ R[i][m] = Q[1][m - Len(Q[0])]
          \/ i # 0 /\ i + 1 \in Level /\ m \in 1..Len(Q[i + 1]) /\ R[i][m] = Q[i + 1][m]
    /\ \A i \in Level : \A m \in 1..Len(Q[i]) :
          \E j \in Level : \E n \in 1..Len(R[j]) : R[j][n] = Q[i][m]

\* The queues after boost_priorities.
LEMMA BoostedQueues ==
    ASSUME NEW Q \in [Level -> Seq(Tid)],
           NEW R, R = Promoted(Q)
    PROVE  BoostedFrom(Q, R)
<1>1. /\ 0 \in Level /\ 1 \in Level /\ NumQueues - 1 \in Level /\ NumQueues - 1 # 0
      /\ Q[0] \in Seq(Tid) /\ Q[1] \in Seq(Tid)
      /\ Len(Q[0]) \in Nat /\ Len(Q[1]) \in Nat
  BY LevelFacts, MlfqAssumption, LenProperties, SMTT(60)
<1>2. PICK c : c = Q[0] \o Q[1]
  BY Zenon
<1>3. /\ c \in Seq(Tid) /\ Len(c) = Len(Q[0]) + Len(Q[1])
      /\ \A m \in 1..(Len(Q[0]) + Len(Q[1])) :
            c[m] = IF m <= Len(Q[0]) THEN Q[0][m] ELSE Q[1][m - Len(Q[0])]
  BY <1>1, <1>2, ConcatProperties, Zenon
<1>4. \A i \in Level \ {0, NumQueues - 1} : i + 1 \in Level
  BY LevelFacts, MlfqAssumption, SMTT(60) DEF Level
<1>5. /\ R[0] = c
      /\ R[NumQueues - 1] = << >>
      /\ \A i \in Level \ {0, NumQueues - 1} : R[i] = Q[i + 1]
  BY <1>1, <1>2, <1>4, Zenon DEF Promoted
<1>6. Len(R[NumQueues - 1]) = 0 /\ R[NumQueues - 1] \in Seq(Tid)
  BY <1>5, EmptySeq, Zenon
<1>7. R \in [Level -> Seq(Tid)]
  <2>1. \A i \in Level : R[i] \in Seq(Tid)
    BY <1>3, <1>4, <1>5, <1>6, Zenon
  <2>. QED
    BY <2>1, Zenon DEF Promoted
<1>8. ASSUME NEW m \in 1..Len(R[0])
      PROVE  \/ m \in 1..Len(Q[0]) /\ R[0][m] = Q[0][m]
             \/ m - Len(Q[0]) \in 1..Len(Q[1]) /\ R[0][m] = Q[1][m - Len(Q[0])]
  BY <1>1, <1>3, <1>5, SMTT(60)
<1>9. ASSUME NEW i \in Level, NEW m \in 1..Len(R[i])
      PROVE  \/ i = 0 /\ m \in 1..Len(Q[0]) /\ R[i][m] = Q[0][m]
             \/ i = 0 /\ m - Len(Q[0]) \in 1..Len(Q[1]) /\ R[i][m] = Q[1][m - Len(Q[0])]
             \/ i # 0 /\ i + 1 \in Level /\ m \in 1..Len(Q[i + 1]) /\ R[i][m] = Q[i + 1][m]
  <2>1. CASE i = 0
    BY <1>8, <2>1, Zenon
  <2>2. CASE i = NumQueues - 1
    <3>1. Len(R[i]) = 0
      BY <1>6, <2>2, Zenon
    <3>2. m \in 1..0
      BY <3>1, Zenon
    <3>. QED
      BY <3>2, SMTT(60)
  <2>3. CASE i \notin {0, NumQueues - 1}
    BY <1>4, <1>5, <2>3, Zenon
  <2>. QED
    BY <2>1, <2>2, <2>3, Zenon
<1>10. ASSUME NEW i \in Level, NEW m \in 1..Len(Q[i])
       PROVE  \E j \in Level : \E n \in 1..Len(R[j]) : R[j][n] = Q[i][m]
  <2>1. CASE i = 0
    <3>1. m \in 1..Len(R[0]) /\ R[0][m] = Q[0][m]
      BY <1>1, <1>3, <1>5, <2>1, SMTT(60)
    <3>. QED
      BY <1>1, <2>1, <3>1, Zenon
  <2>2. CASE i = 1
    <3>1. PICK n : n = m + Len(Q[0])
      BY Zenon
    <3>2. /\ n \in 1..(Len(Q[0]) + Len(Q[1]))
          /\ ~(n <= Len(Q[0])) /\ n - Len(Q[0]) = m
      BY <1>1, <2>2, <3>1, SMTT(60)
    <3>3. n \in 1..Len(R[0]) /\ R[0][n] = Q[1][m]
      BY <1>3, <1>5, <3>2, Zenon
    <3>. QED
      BY <1>1, <2>2, <3>3, Zenon
  <2>3. CASE i \notin {0, 1}
    <3>1. i - 1 \in Level \ {0, NumQueues - 1} /\ (i - 1) + 1 = i
      BY <2>3, MlfqAssumption, SMTT(60) DEF Level
    <3>. QED
      BY <1>5, <3>1, Zenon
  <2>. QED
    BY <2>1, <2>2, <2>3, Zenon
<1>. QED
  BY <1>7, <1>9, <1>10, Zenon DEF BoostedFrom

\* boost_priorities keeps the queues well formed and the set of queued tasks.
LEMMA BoostSound ==
    ASSUME NEW s, Sound(s)
    PROVE  /\ Sound(BoostPriorities(s)) /\ SameQueued(s, BoostPriorities(s))
           /\ BoostPriorities(s).current = s.current
           /\ BoostPriorities(s).state = s.state
           /\ BoostPriorities(s).ticks_remaining = s.ticks_remaining
           /\ BoostPriorities(s).needs_reschedule = s.needs_reschedule
<1>. DEFINE r == BoostPriorities(s)
            Q == s.queues
            R == r.queues
            From(t, i) == /\ Occurs(Q[i], t)
                          /\ \A j \in Level : j > i => ~Occurs(Q[j], t)
            P == [t \in Tid |-> IF \E i \in Level \ {0} : Occurs(Q[i], t)
                                THEN (CHOOSE i \in Level \ {0} : From(t, i)) - 1
                                ELSE s.priority[t]]
<1>1. /\ s \in SchedState /\ RunQueuesWellFormed(s)
      /\ Q \in [Level -> Seq(Tid)]
      /\ \A t \in Tid : s.priority[t] \in Level
  BY Zenon DEF Sound, SchedState
<1>2. R = Promoted(Q)
  BY <1>1, Zenon DEF BoostPriorities, SchedState
<1>p. /\ r.priority = P
      /\ r.current = s.current /\ r.state = s.state
      /\ r.ticks_remaining = s.ticks_remaining /\ r.total_ticks = s.total_ticks
      /\ r.needs_reschedule = s.needs_reschedule
      /\ r = [s EXCEPT !.queues = R, !.priority = P]
  BY <1>1, Zenon DEF BoostPriorities, SchedState
<1>q. \A u : Queued(s, u) <=> \E i \in Level : \E m \in 1..Len(Q[i]) : Q[i][m] = u
  BY Zenon DEF Queued, Occurs
<1>r. \A u : Queued(r, u) <=> \E i \in Level : \E m \in 1..Len(R[i]) : R[i][m] = u
  BY Zenon DEF Queued, Occurs
<1>u. \A i, j \in Level : \A m \in 1..Len(Q[i]), n \in 1..Len(Q[j]) :
         Q[i][m] = Q[j][n] => i = j /\ m = n
  BY <1>1, Zenon DEF RunQueuesWellFormed
<1>w. \A i \in Level : \A m \in 1..Len(Q[i]) :
         /\ Q[i][m] \in Tid
         /\ s.priority[Q[i][m]] = i
         /\ s.state[Q[i][m]] = "Ready"
         /\ Q[i][m] # s.current
  BY <1>1, QueuedAt, ZenonT(60) DEF RunQueuesWellFormed
<1>o. \A i \in Level, t \in Tid : Occurs(Q[i], t) <=> \E m \in 1..Len(Q[i]) : Q[i][m] = t
  BY Zenon DEF Occurs
<1>. HIDE DEF r, Q, R
<1>c. Q \in [Level -> Seq(Tid)]
  BY <1>1, Zenon
<1>x. BoostedFrom(Q, R)
  BY <1>c, <1>2, BoostedQueues, Zenon
<1>3. R \in [Level -> Seq(Tid)]
  BY <1>x, Zenon DEF BoostedFrom
<1>a. \A i \in Level : \A m \in 1..Len(R[i]) :
         \/ i = 0 /\ m \in 1..Len(Q[0]) /\ R[i][m] = Q[0][m]
         \/ i = 0 /\ m - Len(Q[0]) \in 1..Len(Q[1]) /\ R[i][m] = Q[1][m - Len(Q[0])]
         \/ i # 0 /\ i + 1 \in Level /\ m \in 1..Len(Q[i + 1]) /\ R[i][m] = Q[i + 1][m]
  BY <1>x, Zenon DEF BoostedFrom
<1>b. \A i \in Level : \A m \in 1..Len(Q[i]) :
         \E j \in Level : \E n \in 1..Len(R[j]) : R[j][n] = Q[i][m]
  BY <1>x, Zenon DEF BoostedFrom
<1>4. 0 \in Level /\ 1 \in Level /\ Level \subseteq Nat
  BY LevelFacts, Zenon
<1>5. \A i \in Level : Len(Q[i]) \in Nat
  BY <1>1, LenProperties, Zenon
<1>6. SameQueued(s, r)
  <2>1. \A i \in Level : \A m \in 1..Len(R[i]) :
           \E j \in Level : \E n \in 1..Len(Q[j]) : R[i][m] = Q[j][n]
    BY <1>a, <1>4, Zenon
  <2>2. ASSUME NEW u \in Tid, Queued(r, u)
        PROVE  Queued(s, u)
    <3>1. PICK i \in Level : \E m \in 1..Len(R[i]) : R[i][m] = u
      BY <1>r, <2>2, Zenon
    <3>. QED
      BY <1>q, <2>1, <3>1, ZenonT(60)
  <2>3. \A u \in Tid : Queued(s, u) => Queued(r, u)
    BY <1>q, <1>r, <1>b, ZenonT(60)
  <2>. QED
    BY <2>2, <2>3, Zenon DEF SameQueued
<1>7. \A i \in Level, t \in Tid : Occurs(Q[i], t) => s.priority[t] = i
  BY <1>o, <1>w, SMTT(60)
<1>8. ASSUME NEW i \in Level \ {0}, NEW t \in Tid, Occurs(Q[i], t)
      PROVE  P[t] = i - 1
  <2>1. \A j \in Level : Occurs(Q[j], t) => j = i
    BY <1>7, <1>8, Zenon
  <2>2. From(t, i)
    BY <1>4, <1>8, <2>1, SMTT(60)
  <2>3. \A j \in Level \ {0} : From(t, j) => j = i
    BY <2>1, Zenon
  <2>4. (CHOOSE j \in Level \ {0} : From(t, j)) = i
    BY <2>2, <2>3, Zenon
  <2>. QED
    BY <1>8, <2>4, Zenon
<1>9. ASSUME NEW t \in Tid, \A i \in Level \ {0} : ~Occurs(Q[i], t)
      PROVE  P[t] = s.priority[t]
  BY <1>9, Zenon
<1>. HIDE DEF P
<1>10. \A t \in Tid : P[t] \in Level
  BY <1>1, <1>8, <1>9, LevelFacts, Zenon
<1>11. P \in [Tid -> Priority]
  <2>1. DOMAIN P = Tid /\ P = [t \in Tid |-> P[t]]
    BY SMTT(60) DEF P
  <2>. QED
    BY <1>10, <2>1, LevelFacts, Zenon
<1>12. r \in SchedState
  BY <1>1, <1>p, <1>3, <1>11, Zenon DEF SchedState
<1>13. \A i \in Level : \A m \in 1..Len(R[i]) :
          \/ i = 0 /\ Occurs(Q[0], R[i][m])
          \/ i + 1 \in Level \ {0} /\ Occurs(Q[i + 1], R[i][m])
  <2>1. \A j \in Level : \A k \in 1..Len(Q[j]) : Occurs(Q[j], Q[j][k])
    BY <1>o, <1>w, Zenon
  <2>2. 0 + 1 = 1 /\ 1 \in Level \ {0} /\ \A i \in Level : i # 0 => i + 1 # 0
    BY <1>4, SMTT(60)
  <2>. TAKE i \in Level
  <2>. TAKE m \in 1..Len(R[i])
  <2>3. CASE i = 0 /\ m \in 1..Len(Q[0]) /\ R[i][m] = Q[0][m]
    BY <1>4, <2>1, <2>3, Zenon
  <2>4. CASE i = 0 /\ m - Len(Q[0]) \in 1..Len(Q[1]) /\ R[i][m] = Q[1][m - Len(Q[0])]
    <3>1. Occurs(Q[1], R[i][m])
      BY <1>4, <2>1, <2>4, Zenon
    <3>2. i + 1 = 1
      BY <2>4, SMTT(60)
    <3>. QED
      BY <2>2, <3>1, <3>2, Zenon
  <2>5. CASE i # 0 /\ i + 1 \in Level /\ m \in 1..Len(Q[i + 1]) /\ R[i][m] = Q[i + 1][m]
    BY <2>1, <2>2, <2>5, Zenon
  <2>. QED
    BY <1>a, <2>3, <2>4, <2>5, Zenon
<1>14. \A i \in Level : \A m \in 1..Len(R[i]) :
          /\ R[i][m] \in Tid
          /\ R[i][m] # s.current
          /\ s.state[R[i][m]] = "Ready"
  <2>. TAKE i \in Level
  <2>. TAKE m \in 1..Len(R[i])
  <2>1. PICK j \in Level : \E n \in 1..Len(Q[j]) : R[i][m] = Q[j][n]
    BY <1>a, <1>4, Zenon
  <2>. QED
    BY <1>w, <2>1, SMTT(60)
<1>15. \A i \in Level : \A m \in 1..Len(R[i]) : P[R[i][m]] = i
  <2>. TAKE i \in Level
  <2>. TAKE m \in 1..Len(R[i])
  <2>1. CASE i = 0 /\ Occurs(Q[0], R[i][m])
    <3>1. \A j \in Level \ {0} : ~Occurs(Q[j], R[i][m])
      BY <1>7, <1>14, <2>1, <1>4, SMTT(60)
    <3>. QED
      BY <1>4, <1>7, <1>9, <1>14, <2>1, <3>1, Zenon
  <2>2. CASE i + 1 \in Level \ {0} /\ Occurs(Q[i + 1], R[i][m])
    <3>1. P[R[i][m]] = (i + 1) - 1
      BY <1>8, <1>14, <2>2, Zenon
    <3>. QED
      BY <1>4, <3>1, SMTT(60)
  <2>. QED
    BY <1>13, <2>1, <2>2, Zenon
<1>16. ASSUME NEW i \in Level, NEW j \in Level,
              NEW m \in 1..Len(R[i]), NEW n \in 1..Len(R[j]), R[i][m] = R[j][n]
       PROVE  i = j /\ m = n
  <2>1. i = j
    BY <1>15, <1>16, SMTT(60)
  <2>2. CASE i = 0
    <3>1. PICK a \in {0, 1} : \E k \in 1..Len(Q[a]) :
             R[i][m] = Q[a][k] /\ m = IF a = 0 THEN k ELSE k + Len(Q[0])
      <4>1. CASE m \in 1..Len(Q[0]) /\ R[i][m] = Q[0][m]
        BY <4>1, Zenon
      <4>2. CASE m - Len(Q[0]) \in 1..Len(Q[1]) /\ R[i][m] = Q[1][m - Len(Q[0])]
        <5>1. m = (m - Len(Q[0])) + Len(Q[0])
          BY <1>3, <1>4, <1>5, LenProperties, SMTT(60)
        <5>. QED
          BY <4>2, <5>1, SMTT(60)
      <4>. QED
        BY <1>a, <2>2, <4>1, <4>2, Zenon
    <3>2. PICK k \in 1..Len(Q[a]) :
             R[i][m] = Q[a][k] /\ m = IF a = 0 THEN k ELSE k + Len(Q[0])
      BY <3>1, Zenon
    <3>3. PICK b \in {0, 1} : \E l \in 1..Len(Q[b]) :
             R[j][n] = Q[b][l] /\ n = IF b = 0 THEN l ELSE l + Len(Q[0])
      <4>1. CASE n \in 1..Len(Q[0]) /\ R[j][n] = Q[0][n]
        BY <4>1, Zenon
      <4>2. CASE n - Len(Q[0]) \in 1..Len(Q[1]) /\ R[j][n] = Q[1][n - Len(Q[0])]
        <5>1. n = (n - Len(Q[0])) + Len(Q[0])
          BY <1>3, <1>4, <1>5, LenProperties, SMTT(60)
        <5>. QED
          BY <4>2, <5>1, SMTT(60)
      <4>. QED
        BY <1>a, <2>1, <2>2, <4>1, <4>2, Zenon
    <3>4. PICK l \in 1..Len(Q[b]) :
             R[j][n] = Q[b][l] /\ n = IF b = 0 THEN l ELSE l + Len(Q[0])
      BY <3>3, Zenon
    <3>5. Q[a][k] = Q[b][l]
      BY <1>16, <3>2, <3>4, Zenon
    <3>6. a = b /\ k = l
      BY <1>u, <1>4, <3>5, SMTT(60)
    <3>. QED
      BY <2>1, <3>2, <3>4, <3>6, Zenon
  <2>3. CASE i # 0
    <3>1. /\ i + 1 \in Level /\ m \in 1..Len(Q[i + 1]) /\ n \in 1..Len(Q[i + 1])
          /\ Q[i + 1][m] = Q[i + 1][n]
      BY <1>a, <1>16, <2>1, <2>3, Zenon
    <3>. QED
      BY <1>u, <2>1, <3>1, SMTT(60)
  <2>. QED
    BY <2>2, <2>3, Zenon
<1>17. RunQueuesWellFormed(r)
  <2>1. \A i \in Level : \A m \in 1..Len(R[i]) :
           /\ r.priority[R[i][m]] = i
           /\ r.state[R[i][m]] = "Ready"
           /\ R[i][m] # r.current
    BY <1>p, <1>14, <1>15, SMTT(60)
  <2>. QED
    BY <1>16, <2>1, Zenon DEF RunQueuesWellFormed, R
<1>. QED
  BY <1>p, <1>6, <1>10, <1>12, <1>17, Zenon DEF Sound, r

\* tick moves tasks between queues at most, and adds or loses none.
LEMMA TickSound ==
    ASSUME NEW s, Sound(s)
    PROVE  /\ Sound(Tick(s)) /\ SameQueued(s, Tick(s))
           /\ Tick(s).current = s.current
           /\ Tick(s).state = s.state
           /\ s.needs_reschedule => Tick(s).needs_reschedule
<1>. DEFINE total == (s.total_ticks + 1) % BoostPeriod
            b == IF total = 0 THEN BoostPriorities(s) ELSE s
            left == IF b.ticks_remaining > 0 THEN b.ticks_remaining - 1 ELSE 0
            r == Tick(s)
<1>1. /\ Sound(b) /\ SameQueued(s, b) /\ b.current = s.current /\ b.state = s.state
      /\ b.needs_reschedule = s.needs_reschedule
  BY BoostSound, Zenon DEF SameQueued
<1>2. total \in 0..(BoostPeriod - 1)
  BY MlfqAssumption, SMTT(60) DEF Sound, SchedState
<1>3. r = IF s.current = None
          THEN [b EXCEPT !.total_ticks = total]
          ELSE [b EXCEPT !.total_ticks = total, !.ticks_remaining = left,
                         !.needs_reschedule = (left = 0) \/ @]
  BY Zenon DEF Tick
<1>. HIDE DEF r, b, total
<1>4. b \in SchedState /\ left \in Nat
  BY <1>1, SMTT(60) DEF Sound, SchedState
<1>. HIDE DEF left
<1>5. /\ r \in SchedState
      /\ r.queues = b.queues /\ r.current = b.current /\ r.state = b.state
      /\ r.priority = b.priority
      /\ b.needs_reschedule => r.needs_reschedule
  <2>1. ((left = 0) \/ b.needs_reschedule) \in BOOLEAN
    BY Zenon
  <2>2. CASE s.current = None
    BY <1>2, <1>3, <1>4, <2>2, Zenon DEF SchedState
  <2>3. CASE s.current # None
    <3>1. r = [b EXCEPT !.total_ticks = total, !.ticks_remaining = left,
                        !.needs_reschedule = (left = 0) \/ @]
      BY <1>3, <2>3, Zenon
    <3>. QED
      BY <1>2, <1>4, <2>1, <3>1, Zenon DEF SchedState
  <2>. QED
    BY <2>2, <2>3, Zenon
<1>6. \A u \in Tid : Queued(b, u) => u # b.current
  BY <1>1, SMTT(60) DEF Sound, RunQueuesWellFormed, Queued, Occurs
<1>7. Sound(r) /\ SameQueued(b, r)
  BY <1>1, <1>5, <1>6, OutsideQueuesSound, Zenon DEF Sound
<1>. QED
  BY <1>1, <1>5, <1>7, Zenon DEF SameQueued, r

\* Unblocking a task that is not Blocked is no step at all.
LEMMA UnblockNothing ==
    ASSUME NEW s, NEW t, s.state[t] # "Blocked"
    PROVE  Unblock(s, t) = s
BY Zenon DEF Unblock

\* should_reschedule sets the flag and nothing else.
LEMMA ShouldRescheduleSound ==
    ASSUME NEW s, Sound(s)
    PROVE  /\ Sound(ShouldReschedule(s)) /\ SameQueued(s, ShouldReschedule(s))
           /\ ShouldReschedule(s).queues = s.queues
           /\ ShouldReschedule(s).current = s.current
           /\ ShouldReschedule(s).state = s.state
           /\ ShouldReschedule(s).priority = s.priority
           /\ s.needs_reschedule => ShouldReschedule(s).needs_reschedule
<1>. DEFINE r == ShouldReschedule(s)
<1>1. s \in SchedState
  BY Zenon DEF Sound
<1>2. /\ r \in SchedState /\ r.queues = s.queues /\ r.current = s.current
      /\ r.state = s.state /\ r.priority = s.priority
      /\ s.needs_reschedule => r.needs_reschedule
  BY <1>1, Zenon DEF ShouldReschedule, SchedState
<1>. HIDE DEF r
<1>3. \A u \in Tid : Queued(s, u) => u # s.current
  BY SMTT(60) DEF Sound, RunQueuesWellFormed, Queued, Occurs
<1>4. Sound(r) /\ SameQueued(s, r)
  BY <1>2, <1>3, OutsideQueuesSound, Zenon DEF Sound
<1>. QED
  BY <1>2, <1>4, Zenon DEF r

\* prepare_switch that switches: the first task of the first queue that is not
\* empty becomes current and Running, the outgoing one Ready and queued.
LEMMA PrepareSwitchSwitches ==
    ASSUME NEW s, Sound(s), WillSwitch(s),
           NEW r, r = PrepareSwitch(s)
    PROVE  /\ Sound(r)
           /\ r.current \in Tid /\ Queued(s, r.current) /\ r.current # s.current
           /\ \A u \in Tid : Queued(r, u) <=> (Queued(s, u) /\ u # r.current) \/ u = s.current
           /\ r.state[r.current] = "Running"
           /\ s.current # None => r.state[s.current] = "Ready"
           /\ \A u \in Tid \ {s.current, r.current} : r.state[u] = s.state[u]
<1>. DEFINE in     == PickNext(s)
            popped == [s EXCEPT !.queues[FirstLevel(s)] = Tail(@)]
            gone   == IF s.current = None THEN popped ELSE Requeue(popped, s.current)
            slice  == TimeSlice(gone.priority[in])
<1>1. r = [gone EXCEPT !.current = in, !.state[in] = "Running",
                       !.ticks_remaining = slice, !.needs_reschedule = FALSE]
  BY Zenon DEF PrepareSwitch
<1>2. /\ in \in Tid /\ Queued(s, in) /\ ~Queued(popped, in) /\ in # s.current
      /\ Sound(popped)
      /\ \A u \in Tid : Queued(popped, u) <=> Queued(s, u) /\ u # in
      /\ popped.current = s.current /\ popped.state = s.state
      /\ popped.priority = s.priority
  BY DequeueSound, SMTT(60) DEF WillSwitch
<1>3. s.current \in Tid \cup {None} /\ popped \in SchedState
  BY <1>2, Zenon DEF Sound, SchedState
<1>s. \A i \in Level : TimeSlice(i) \in Nat
  BY LevelFacts, SMTT(60) DEF TimeSlice
<1>c. \A u \in Tid : Queued(popped, u) => u # popped.current
  BY <1>2, QueuedIsWaiting, Zenon DEF Sound
<1>4. CASE s.current = None
  <2>1. gone = popped
    BY <1>4, Zenon
  <2>. HIDE DEF popped, in
  <2>2. slice \in Nat
    BY <1>2, <1>s, <2>1, Zenon DEF Sound
  <2>. HIDE DEF gone, slice
  <2>3. /\ r \in SchedState /\ r.queues = popped.queues /\ r.current = in
        /\ r.state = [s.state EXCEPT ![in] = "Running"] /\ r.priority = s.priority
    <3>1. PICK st : st = [popped.state EXCEPT ![in] = "Running"]
      BY Zenon
    <3>2. r = [popped EXCEPT !.current = in, !.state = st,
                             !.ticks_remaining = slice, !.needs_reschedule = FALSE]
      BY <1>1, <2>1, <3>1, ZenonT(60)
    <3>3. st \in [Tid -> TaskState]
      BY <1>3, <3>1, Zenon DEF SchedState, TaskState
    <3>4. r \in SchedState /\ r.queues = popped.queues /\ r.current = in
      BY <1>2, <1>3, <2>2, <3>2, <3>3, ZenonT(60) DEF SchedState
    <3>5. r.state = st /\ r.priority = popped.priority
      BY <1>3, <3>2, Zenon DEF SchedState
    <3>. QED
      BY <1>2, <3>1, <3>4, <3>5, Zenon
  <2>4. \A u \in Tid \ {in} : r.state[u] = s.state[u]
    BY <2>3, SMTT(60)
  <2>5. r.state[in] = "Running"
    BY <1>2, <1>3, <2>3, Zenon DEF SchedState
  <2>6. \A u \in Tid : Queued(popped, u) =>
           r.state[u] = popped.state[u] /\ r.priority[u] = popped.priority[u] /\ u # r.current
    BY <1>2, <2>3, <2>4, Zenon
  <2>7. Sound(r) /\ SameQueued(popped, r)
    BY <1>2, <2>3, <2>6, OutsideQueuesSound, Zenon DEF Sound
  <2>. QED
    BY <1>2, <1>4, <2>3, <2>4, <2>5, <2>7, MlfqAssumption, ZenonT(60) DEF SameQueued
<1>5. CASE s.current # None
  <2>. DEFINE out == s.current
              p == IF s.priority[out] + 1 < NumQueues - 1
                   THEN s.priority[out] + 1 ELSE NumQueues - 1
              mid == [popped EXCEPT !.current = in,
                                    !.state = [s.state EXCEPT ![out] = "Ready", ![in] = "Running"],
                                    !.priority = [s.priority EXCEPT ![out] = p],
                                    !.ticks_remaining = slice,
                                    !.needs_reschedule = FALSE]
  <2>1. out \in Tid /\ out # in
    BY <1>2, <1>3, <1>5, Zenon
  <2>2. s \in SchedState /\ s.priority[out] \in Level
    BY <2>1, Zenon DEF Sound
  <2>3. p \in Level /\ p \in Priority
    <3>1. \A k \in Level : LET d == IF k + 1 < NumQueues - 1 THEN k + 1 ELSE NumQueues - 1
                           IN  d \in Level /\ d \in Priority
      BY MlfqAssumption, SMTT(60) DEF Level, Priority
    <3>. QED
      BY <2>2, <3>1, Zenon
  <2>4. gone = [popped EXCEPT !.priority[out] = p, !.state[out] = "Ready",
                              !.queues[p] = Append(@, out)]
    BY <1>2, <1>5, SMTT(60) DEF Requeue
  <2>. HIDE DEF popped, in, gone, out, p
  <2>5. /\ gone.priority = [s.priority EXCEPT ![out] = p]
        /\ gone.state = [s.state EXCEPT ![out] = "Ready"]
        /\ gone.queues = [popped.queues EXCEPT ![p] = Append(@, out)]
    BY <1>2, <1>3, <2>4, Zenon DEF SchedState
  <2>6. slice \in Nat
    <3>1. s.priority[in] \in Level
      BY <1>2, Zenon DEF Sound
    <3>2. gone.priority[in] \in Level
      BY <1>2, <2>1, <2>5, <3>1, SMTT(60)
    <3>. QED
      BY <1>s, <3>2, Zenon
  <2>. HIDE DEF slice
  <2>7. /\ mid \in SchedState /\ mid.queues = popped.queues /\ mid.current = in
        /\ mid.state = [s.state EXCEPT ![out] = "Ready", ![in] = "Running"]
        /\ mid.priority = [s.priority EXCEPT ![out] = p]
    BY <1>2, <1>3, <2>2, <2>3, <2>6, Zenon DEF SchedState, TaskState
  <2>8. /\ \A u \in Tid \ {in, out} : mid.state[u] = s.state[u] /\ mid.priority[u] = s.priority[u]
        /\ mid.state[in] = "Running" /\ mid.state[out] = "Ready" /\ mid.priority[out] = p
        /\ mid.priority[in] = s.priority[in]
    BY <1>2, <2>1, <2>2, <2>7, ZenonT(60) DEF SchedState
  <2>. DEFINE q == [popped.queues EXCEPT ![p] = Append(@, out)]
              st == [s.state EXCEPT ![out] = "Ready", ![in] = "Running"]
              pr == [s.priority EXCEPT ![out] = p]
  <2>a. /\ q \in [Level -> Seq(Tid)] /\ st \in [Tid -> TaskState]
        /\ pr \in [Tid -> Priority]
    <3>1. q \in [Level -> Seq(Tid)]
      BY <1>3, <2>1, <2>3, AppendOne, Zenon DEF SchedState
    <3>. QED
      BY <2>2, <2>3, <3>1, Zenon DEF SchedState, TaskState
  <2>b. gone = [popped EXCEPT !.priority = pr, !.state = [s.state EXCEPT ![out] = "Ready"],
                              !.queues = q]
    BY <1>2, <2>4, Zenon
  <2>c. r = [popped EXCEPT !.priority = pr, !.state = st, !.queues = q, !.current = in,
                           !.ticks_remaining = slice, !.needs_reschedule = FALSE]
    BY <1>1, <1>3, <2>b, Zenon DEF SchedState
  <2>. HIDE DEF mid, q, st, pr
  <2>9. EnqueuedAt(mid, r, p, out)
    <3>1. mid.state = st /\ mid.priority = pr /\ q = [mid.queues EXCEPT ![p] = Append(@, out)]
      BY <2>7, Zenon DEF st, pr, q
    <3>2. /\ r \in SchedState
          /\ r.queues = q /\ r.current = in /\ r.state = st /\ r.priority = pr
      BY <1>2, <1>3, <2>6, <2>a, <2>c, ZenonT(60) DEF SchedState
    <3>. QED
      BY <2>7, <3>1, <3>2, Zenon DEF EnqueuedAt
  <2>10. ~Queued(popped, out)
    BY <1>2, <1>c, <2>1, Zenon DEF out
  <2>11. \A u \in Tid : Queued(popped, u) =>
            /\ mid.state[u] = popped.state[u] /\ mid.priority[u] = popped.priority[u]
            /\ u # mid.current
    BY <1>2, <2>7, <2>8, <2>10, ZenonT(60)
  <2>12. \A u \in Tid : mid.priority[u] \in Level
    BY <1>2, <2>3, <2>8, Zenon DEF Sound
  <2>13. Sound(mid) /\ SameQueued(popped, mid)
    BY <1>2, <2>7, <2>11, <2>12, OutsideQueuesSound, Zenon
  <2>14. ~Queued(mid, out) /\ out # mid.current
    BY <2>1, <2>7, <2>10, <2>13, Zenon DEF SameQueued
  <2>15. /\ Sound(r)
         /\ \A u \in Tid : Queued(r, u) <=> Queued(mid, u) \/ u = out
    BY <2>1, <2>3, <2>8, <2>9, <2>13, <2>14, EnqueueSound, ZenonT(60)
  <2>16. \A u \in Tid : Queued(mid, u) <=> Queued(s, u) /\ u # in
    BY <1>2, <2>13, Zenon DEF SameQueued
  <2>. QED
    <3>1. r.current = in /\ r.state = mid.state
      BY <2>7, <2>9, Zenon DEF EnqueuedAt
    <3>. QED
      BY <1>2, <2>1, <2>8, <2>15, <2>16, <3>1, ZenonT(60) DEF out
<1>. QED
  BY <1>4, <1>5, Zenon

\* What schedule() does to a sound scheduler: nothing to see, or one switch.
ScheduleEffect(s, r) ==
    /\ Sound(r)
    /\ \/ /\ ~Switches(s)
          /\ SameQueued(s, r) /\ r.current = s.current /\ r.state = s.state
       \/ /\ Switches(s)
          /\ r.current \in Tid /\ Queued(s, r.current) /\ r.current # s.current
          /\ \A u \in Tid : Queued(r, u) <=> (Queued(s, u) /\ u # r.current) \/ u = s.current
          /\ r.state[r.current] = "Running"
          /\ s.current # None => r.state[s.current] = "Ready"
          /\ \A u \in Tid \ {s.current, r.current} : r.state[u] = s.state[u]

\* schedule() keeps the scheduler sound and dispatches at most one queued task.
THEOREM ScheduleSound ==
    ASSUME NEW s, Sound(s)
    PROVE  ScheduleEffect(s, Schedule(s))
<1>. DEFINE x == ShouldReschedule(s)
            r == Schedule(s)
<1>1. /\ Sound(x) /\ SameQueued(s, x)
      /\ x.current = s.current /\ x.state = s.state
  BY ShouldRescheduleSound, Zenon
<1>2. r = PrepareSwitch(x) /\ (Switches(s) <=> WillSwitch(x))
  BY Zenon DEF Schedule, Switches
<1>. HIDE DEF x, r
<1>3. CASE WillSwitch(x)
  <2>1. /\ Sound(r)
        /\ r.current \in Tid /\ Queued(x, r.current) /\ r.current # x.current
        /\ \A u \in Tid : Queued(r, u) <=> (Queued(x, u) /\ u # r.current) \/ u = x.current
        /\ r.state[r.current] = "Running"
        /\ x.current # None => r.state[x.current] = "Ready"
        /\ \A u \in Tid \ {x.current, r.current} : r.state[u] = x.state[u]
    BY <1>1, <1>2, <1>3, PrepareSwitchSwitches, SMTT(60)
  <2>. QED
    BY <1>1, <1>2, <1>3, <2>1, Zenon DEF ScheduleEffect, SameQueued, r
<1>4. CASE ~WillSwitch(x)
  <2>1. r = [x EXCEPT !.needs_reschedule = FALSE]
    BY <1>2, <1>4, Zenon DEF PrepareSwitch
  <2>2. x \in SchedState
    BY <1>1, Zenon DEF Sound
  <2>3. /\ r \in SchedState /\ r.queues = x.queues /\ r.current = x.current
        /\ r.state = x.state /\ r.priority = x.priority
    BY <2>1, <2>2, Zenon DEF SchedState
  <2>4. \A u \in Tid : Queued(x, u) => u # x.current
    BY <1>1, SMTT(60) DEF Sound, RunQueuesWellFormed, Queued, Occurs
  <2>5. Sound(r) /\ SameQueued(x, r)
    BY <1>1, <2>3, <2>4, OutsideQueuesSound, Zenon DEF Sound
  <2>. QED
    BY <1>1, <1>2, <1>4, <2>3, <2>5, Zenon DEF ScheduleEffect, SameQueued, r
<1>. QED
  BY <1>3, <1>4, Zenon

\* A switch happens whenever one was asked for and some task is queued.
LEMMA SwitchesIfAsked ==
    ASSUME NEW s, Sound(s), s.needs_reschedule, NEW t \in Tid, Queued(s, t)
    PROVE  Switches(s)
<1>1. /\ ShouldReschedule(s).needs_reschedule
      /\ ShouldReschedule(s).queues = s.queues
  BY ShouldRescheduleSound, Zenon
<1>2. PICK i \in Level : \E m \in 1..Len(s.queues[i]) : s.queues[i][m] = t
  BY Zenon DEF Queued, Occurs
<1>3. s.queues[i] \in Seq(Tid) /\ s.queues[i] # << >>
  <2>1. s.queues[i] \in Seq(Tid)
    BY Zenon DEF Sound, SchedState
  <2>2. s.queues[i] # << >>
    <3>1. Len(s.queues[i]) # 0
      BY <1>2, <2>1, LenProperties, SMTT(60)
    <3>. QED
      BY <3>1, EmptySeq, Zenon
  <2>. QED
    BY <2>1, <2>2, Zenon
<1>. QED
  BY <1>1, <1>3, Zenon DEF Switches, WillSwitch, SomeQueued

\* A Blocked current task always switches, given a task to switch to.
LEMMA SwitchesIfBlocked ==
    ASSUME NEW x, Sound(x), x.current # None, x.state[x.current] = "Blocked",
           NEW t \in Tid, Queued(x, t)
    PROVE  Switches(x)
<1> DEFINE y == ShouldReschedule(x)
<1>1. /\ y.queues = x.queues /\ x \in SchedState
      /\ y.needs_reschedule
  BY ShouldRescheduleSound, Zenon DEF ShouldReschedule, Sound, SchedState
<1>2. PICK i \in Level : \E m \in 1..Len(x.queues[i]) : x.queues[i][m] = t
  BY Zenon DEF Queued, Occurs
<1>3. x.queues[i] # << >>
  BY <1>2, SMTT(60)
<1> QED
  BY <1>1, <1>3, Zenon DEF Switches, WillSwitch, SomeQueued

\* A task in a well-formed set of queues is in that of its priority.
LEMMA QueuedAtPriority ==
    ASSUME NEW s, RunQueuesWellFormed(s), NEW u, Queued(s, u)
    PROVE  s.priority[u] \in Level /\ s.queues[s.priority[u]] # << >>
<1>1. PICK i \in Level : \E m \in 1..Len(s.queues[i]) : s.queues[i][m] = u
  BY Zenon DEF Queued, Occurs
<1>2. PICK m \in 1..Len(s.queues[i]) : s.queues[i][m] = u
  BY <1>1, Zenon
<1>3. s.priority[s.queues[i][m]] = i
  BY Zenon DEF RunQueuesWellFormed
<1>4. s.queues[i] # << >>
  BY <1>2, SMTT(60)
<1>. QED
  BY <1>2, <1>3, <1>4, Zenon

\* Requeueing the outgoing task changes no other priority.
LEMMA RequeueOthers ==
    ASSUME NEW s \in SchedState, NEW o \in Tid, NEW u \in Tid \ {o}
    PROVE  Requeue(s, o).priority[u] = s.priority[u]
<1>. DEFINE p == IF s.priority[o] + 1 < NumQueues - 1 THEN s.priority[o] + 1 ELSE NumQueues - 1
<1>1. Requeue(s, o).priority = [s.priority EXCEPT ![o] = p]
  BY Zenon DEF Requeue, SchedState
<1>2. s.priority \in [Tid -> Priority]
  BY Zenon DEF SchedState
<1>. HIDE DEF p
<1>. QED
  BY <1>1, <1>2, Zenon

\* schedule() switches to a task of the highest level that held one.
LEMMA ScheduleHighest ==
    ASSUME NEW s, Sound(s), NEW r, r = Schedule(s), r.current # s.current,
           NEW u \in Tid, Queued(s, u)
    PROVE  r.priority[r.current] <= r.priority[u]
<1>. DEFINE x      == ShouldReschedule(s)
            in     == PickNext(x)
            popped == [x EXCEPT !.queues[FirstLevel(x)] = Tail(@)]
            gone   == IF x.current = None THEN popped ELSE Requeue(popped, x.current)
            slice  == TimeSlice(gone.priority[in])
<1>1. Sound(x) /\ SameQueued(s, x) /\ x.current = s.current
  BY ShouldRescheduleSound, Zenon
<1>2. r = PrepareSwitch(x)
  BY Zenon DEF Schedule
<1>3. x \in SchedState /\ RunQueuesWellFormed(x) /\ Queued(x, u)
  BY <1>1, Zenon DEF Sound, SameQueued
<1>. HIDE DEF x
<1>4. WillSwitch(x)
  <2>1. ASSUME ~WillSwitch(x) PROVE r.current = x.current
    BY <1>2, <1>3, <2>1, Zenon DEF PrepareSwitch, SchedState
  <2>. QED
    BY <1>1, <2>1, Zenon
<1>5. r = [gone EXCEPT !.current = in, !.state[in] = "Running",
                       !.ticks_remaining = slice, !.needs_reschedule = FALSE]
  BY <1>2, <1>4, Zenon DEF PrepareSwitch
<1>6. /\ in \in Tid /\ Queued(x, in) /\ Sound(popped)
      /\ popped.current = x.current /\ popped.priority = x.priority
  BY <1>1, <1>4, DequeueSound, SMTT(60) DEF WillSwitch
<1>7. in # x.current /\ u # x.current
  BY <1>3, <1>6, QueuedIsWaiting, Zenon
<1>8. r.current = in /\ r.priority = gone.priority
  <2>1. gone \in SchedState \/ gone = Requeue(popped, x.current)
    BY <1>6, Zenon DEF Sound
  <2>. HIDE DEF in, slice, popped
  <2>2. CASE x.current = None
    <3>1. gone \in SchedState
      BY <1>6, <2>2, Zenon DEF Sound
    <3>. HIDE DEF gone
    <3>. QED
      BY <1>5, <3>1, Zenon DEF SchedState
  <2>3. CASE x.current # None
    <3>1. gone = Requeue(popped, x.current) /\ popped \in SchedState
      BY <1>6, <2>3, Zenon DEF Sound
    <3>. QED
      BY <1>5, <3>1, Zenon DEF Requeue, SchedState
  <2>. QED
    BY <2>2, <2>3, Zenon
<1>9. \A v \in Tid : v # x.current => r.priority[v] = x.priority[v]
  <2>. HIDE DEF in, slice, popped
  <2>1. CASE x.current = None
    <3>1. gone = popped
      BY <2>1, Zenon
    <3>. QED
      BY <1>6, <1>8, <3>1, Zenon
  <2>2. CASE x.current # None
    <3>1. gone = Requeue(popped, x.current) /\ popped \in SchedState
      BY <1>6, <2>2, Zenon DEF Sound
    <3>2. x.current \in Tid
      BY <1>3, <2>2, Zenon DEF SchedState
    <3>3. \A v \in Tid \ {x.current} : Requeue(popped, x.current).priority[v] = popped.priority[v]
      BY <3>1, <3>2, RequeueOthers, Zenon
    <3>. HIDE DEF gone
    <3>. QED
      BY <1>6, <1>8, <3>1, <3>3, Zenon
  <2>. QED
    BY <2>1, <2>2, Zenon
<1>10. x.priority[u] \in Level /\ x.queues[x.priority[u]] # << >>
  BY <1>3, QueuedAtPriority, Zenon
<1>11. /\ FirstLevel(x) \in Level /\ x.queues[FirstLevel(x)] # << >>
       /\ \A j \in Level : j < FirstLevel(x) => x.queues[j] = << >>
  BY <1>3, <1>4, FirstLevelFacts, Zenon DEF WillSwitch
<1>12. x.priority[in] = FirstLevel(x)
  <2>1. x.queues[FirstLevel(x)] \in Seq(Tid)
    BY <1>3, <1>11, Zenon DEF SchedState
  <2>2. 1 \in 1..Len(x.queues[FirstLevel(x)]) /\ in = x.queues[FirstLevel(x)][1]
    BY <1>11, <2>1, SMTT(60) DEF PickNext
  <2>3. x.priority[x.queues[FirstLevel(x)][1]] = FirstLevel(x)
    <3>. HIDE DEF in
    <3>. QED
      BY <1>3, <1>11, <2>2, Zenon DEF RunQueuesWellFormed
  <2>. HIDE DEF in
  <2>. QED
    BY <2>2, <2>3, Zenon
<1>. HIDE DEF in, slice, popped, gone
<1>13. FirstLevel(x) <= x.priority[u]
  <2>1. FirstLevel(x) \in Nat /\ x.priority[u] \in Nat
    BY <1>10, <1>11, LevelFacts, Zenon
  <2>2. ~(x.priority[u] < FirstLevel(x))
    BY <1>10, <1>11, Zenon
  <2>. QED
    BY <2>1, <2>2, SMTT(60)
<1>14. r.priority[in] = x.priority[in] /\ r.priority[u] = x.priority[u]
  BY <1>6, <1>7, <1>9, Zenon
<1>. QED
  BY <1>8, <1>12, <1>13, <1>14, Zenon
=============================================================================
