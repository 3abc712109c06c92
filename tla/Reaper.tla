------------------------------- MODULE Reaper -------------------------------
(***************************************************************************)
(* The reaper thread of memory/swap.rs: when the pool of free frames is    *)
(* low it lists the resident pages of all user tasks and evicts some, in   *)
(* three sweeps (enhanced second chance).  It is a kernel thread with      *)
(* interrupts on, and it drops every lock between two looks at a task, so  *)
(* user tasks run between its steps: they touch pages, which sets the      *)
(* accessed and dirty bits, and fault pages in.  What eviction does to     *)
(* contents and page tables is in Vmm.                                     *)
(***************************************************************************)
EXTENDS Integers, Sequences, FiniteSets

CONSTANTS NumProc,     \* user tasks, in the order of their tids
          VSize,       \* pages in the areas of each task
          Frames,      \* number of frames
          Slots,       \* number of swap slots
          PoolMin,     \* POOL_MIN, 64 in the code
          PoolMax,     \* POOL_MAX, 256 in the code
          MaxTouches   \* bound on the accesses of user tasks

Page == UNION {{p} \X (1..VSize[p]) : p \in 1..NumProc}

ReaperAssumption ==
    /\ NumProc \in Nat /\ VSize \in [1..NumProc -> Nat \ {0}]
    /\ Frames \in Nat /\ Slots \in Nat /\ MaxTouches \in Nat
    /\ PoolMin \in Nat /\ PoolMax \in Nat /\ PoolMin <= PoolMax

VARIABLES resident,   \* pages that are mapped
          onDisk,     \* pages that are swapped out
          accessed, dirty,  \* bits of the page table entries
          touches,    \* accesses made so far
          pc,         \* control point of the reaper
          todo,       \* tasks gather_candidates has still to look at
          found,      \* the resident pages it found in the others
          cands,      \* the victim list
          sweep, pos, \* where the sweeps are in it
          progress,   \* a page was evicted in this round
          full        \* history: an eviction of this round met a full partition

user   == <<resident, onDisk, accessed, dirty, touches>>
reaper == <<pc, todo, found, cands, sweep, pos, progress, full>>
vars   == <<user, reaper>>

Free == Frames - Cardinality(resident)

TypeOK ==
    /\ resident \subseteq Page /\ onDisk \subseteq Page /\ resident \cap onDisk = {}
    /\ accessed \subseteq Page /\ dirty \subseteq Page
    /\ Free >= 0 /\ Cardinality(onDisk) <= Slots
    /\ touches \in 0..MaxTouches
    /\ pc \in {"need", "gather", "look", "evict", "enough", "clear", "next", "again"}
    /\ todo \in 0..(NumProc + 1)
    /\ found \subseteq Page
    /\ sweep \in 0..3 /\ pos \in 1..(Cardinality(Page) + 1)
    /\ progress \in BOOLEAN /\ full \in BOOLEAN

Init ==
    /\ resident = {} /\ onDisk = {} /\ accessed = {} /\ dirty = {}
    /\ touches = 0
    /\ pc = "need" /\ todo = 1 /\ found = {} /\ cands = << >>
    /\ sweep = 0 /\ pos = 1 /\ progress = FALSE /\ full = FALSE
-----------------------------------------------------------------------------
\* A user task reads or writes a page: the CPU sets the bits, after a fault if
\* the page is not there and a frame is left.
Touch(g, write) ==
    /\ touches < MaxTouches
    /\ g \in resident \/ Free > 0
    /\ touches' = touches + 1
    /\ resident' = resident \cup {g}
    /\ onDisk' = onDisk \ {g}
    /\ accessed' = accessed \cup {g}
    /\ dirty' = (IF write THEN dirty \cup {g} ELSE IF g \in resident THEN dirty ELSE dirty \ {g})
    /\ UNCHANGED reaper

\* reap_if_needed: nothing to do, and reaper_main calls schedule().
Rest ==
    /\ pc = "need" /\ Free >= PoolMin
    /\ UNCHANGED vars

\* reap_if_needed, and the head of the loop of reap_to: a round begins.
Need ==
    /\ pc = "need" /\ Free < PoolMin
    /\ pc' = "gather" /\ todo' = 1 /\ found' = {}
    /\ UNCHANGED <<user, cands, sweep, pos, progress, full>>

\* Mutant: the last task is left out.
GatherMissesLast ==
    /\ pc = "gather" /\ todo <= NumProc
    /\ found' = found \cup {g \in resident : g[1] = todo /\ todo < NumProc}
    /\ todo' = todo + 1
    /\ UNCHANGED <<user, pc, cands, sweep, pos, progress, full>>

\* gather_candidates looks at the next task, under its lock.
Gather ==
    /\ pc = "gather" /\ todo <= NumProc
    /\ found' = found \cup {g \in resident : g[1] = todo}
    /\ todo' = todo + 1
    /\ UNCHANGED <<user, pc, cands, sweep, pos, progress, full>>

PagesOf(p) == {g \in found : g[1] = p}

\* How far task p is above its share of the resident pages, by virtual size: the
\* areas of all tasks have Cardinality(Page) pages.
Excess(p) ==
    Cardinality(PagesOf(p)) - (VSize[p] * Cardinality(found)) \div Cardinality(Page)

\* Mutant: the tasks below their share come first.
BeforeReversed(g, h) ==
    \/ Excess(g[1]) < Excess(h[1])
    \/ Excess(g[1]) = Excess(h[1]) /\ (g[1] < h[1] \/ (g[1] = h[1] /\ g[2] < h[2]))

\* The order of the victim list: a stable sort by excess.
Before(g, h) ==
    \/ Excess(g[1]) > Excess(h[1])
    \/ Excess(g[1]) = Excess(h[1]) /\ (g[1] < h[1] \/ (g[1] = h[1] /\ g[2] < h[2]))

Sorted == CHOOSE q \in [1..Cardinality(found) -> found] :
            \A i, j \in 1..Cardinality(found) : i < j => Before(q[i], q[j])

\* The victim list is made; reap_to returns if there is none.
Sort ==
    /\ pc = "gather" /\ todo > NumProc
    /\ cands' = Sorted
    /\ pc' = (IF found = {} THEN "need" ELSE "look")
    /\ sweep' = 0 /\ pos' = 1 /\ progress' = FALSE /\ full' = FALSE
    /\ UNCHANGED <<user, todo, found>>

Cand == cands[pos]

\* Mutant: the last sweep respects the accessed bit.
TakesUnreferenced(g) ==
    CASE sweep = 0 -> g \notin accessed /\ g \notin dirty
      [] sweep # 0 -> g \notin accessed

\* Which pages a sweep takes.
Takes(g) ==
    CASE sweep = 0 -> g \notin accessed /\ g \notin dirty
      [] sweep = 1 -> g \notin accessed
      [] OTHER     -> TRUE

\* read_bits, without a lock, decides what happens to the candidate.
Look ==
    /\ pc = "look" /\ sweep < 3
    /\ pc' = (IF Cand \notin resident THEN "next"
              ELSE IF Takes(Cand) THEN "evict"
              ELSE IF Cand \in accessed /\ sweep >= 1 THEN "clear" ELSE "next")
    /\ UNCHANGED <<user, todo, found, cands, sweep, pos, progress, full>>

\* Mutant: a full partition is not noticed.
EvictOverflows ==
    /\ pc = "evict"
    /\ resident' = resident \ {Cand}
    /\ onDisk' = onDisk \cup {Cand}
    /\ accessed' = accessed \ {Cand} /\ dirty' = dirty \ {Cand}
    /\ progress' = TRUE
    /\ pc' = "enough"
    /\ UNCHANGED <<touches, todo, found, cands, sweep, pos, full>>

\* evict_addr under the lock of the task; false if the swap partition is full.
Evict ==
    /\ pc = "evict"
    /\ IF Cand \in resident /\ Cardinality(onDisk) < Slots
       THEN /\ resident' = resident \ {Cand}
            /\ onDisk' = onDisk \cup {Cand}
            /\ accessed' = accessed \ {Cand} /\ dirty' = dirty \ {Cand}
            /\ progress' = TRUE
            /\ pc' = "enough"
            /\ UNCHANGED full
       ELSE /\ pc' = "next"
            /\ full' = TRUE
            /\ UNCHANGED <<resident, onDisk, accessed, dirty, progress>>
    /\ UNCHANGED <<touches, todo, found, cands, sweep, pos>>

\* The target is reached: reap_to ends, or goes on if a task was faster.
Enough ==
    /\ pc = "enough"
    /\ pc' = (IF Free >= PoolMax THEN "again" ELSE "next")
    /\ UNCHANGED <<user, todo, found, cands, sweep, pos, progress, full>>

ClearAccessed ==
    /\ pc = "clear"
    /\ accessed' = accessed \ {Cand}
    /\ pc' = "next"
    /\ UNCHANGED <<resident, onDisk, dirty, touches, todo, found, cands, sweep, pos, progress, full>>

\* The next candidate, the next sweep, or the end of the round.
Advance ==
    /\ pc = "next"
    /\ IF pos < Len(cands)
       THEN pos' = pos + 1 /\ pc' = "look" /\ UNCHANGED sweep
       ELSE /\ pos' = 1 /\ sweep' = sweep + 1
            /\ pc' = (IF sweep < 2 THEN "look" ELSE IF progress THEN "again" ELSE "need")
    /\ UNCHANGED <<user, todo, found, cands, progress, full>>

\* The head of the loop of reap_to.
Again ==
    /\ pc = "again"
    /\ IF Free >= PoolMax
       THEN pc' = "need" /\ UNCHANGED <<todo, found>>
       ELSE pc' = "gather" /\ todo' = 1 /\ found' = {}
    /\ UNCHANGED <<user, cands, sweep, pos, progress, full>>
-----------------------------------------------------------------------------
Reap == Need \/ Gather \/ Sort \/ Look \/ Evict \/ Enough \/ ClearAccessed \/ Advance \/ Again

Next == Rest \/ Reap \/ \E g \in Page, write \in BOOLEAN : Touch(g, write)

Spec == Init /\ [][Next]_vars

\* The scheduler starves no task (NoStarvation of Scheduler), the reaper neither.
FairSpec == Spec /\ WF_vars(Reap)
-----------------------------------------------------------------------------
\* A round that evicts nothing has met a full swap partition: "sweep 2 takes
\* anything to guarantee progress", whatever tasks touch between the sweeps.
RoundMakesProgress ==
    [][pc = "next" /\ pc' = "need" => full]_vars

\* The victim list begins with the tasks that hold more than their share: as
\* long as one is in it, no page of a task at or below its share comes earlier.
AboveShareFirst ==
    pc = "look" => \A i, j \in 1..Len(cands) :
                      Excess(cands[i][1]) <= 0 /\ Excess(cands[j][1]) > 0 => j < i

\* The pool is filled again: it does not stay below its minimum while pages
\* are resident and slots are left.
PoolRefilled ==
    Free < PoolMin ~> Free >= PoolMin \/ Cardinality(onDisk) = Slots \/ resident = {}

\* "Sweep 0 takes clean unreferenced pages": what it evicts is neither accessed
\* nor dirty at that moment.
SweepZeroTakesClean ==
    [][sweep = 0 /\ pc = "evict" /\ Cand \in resident /\ Cand \notin resident'
          => Cand \notin accessed /\ Cand \notin dirty]_vars
=============================================================================
