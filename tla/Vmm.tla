-------------------------------- MODULE Vmm --------------------------------
(***************************************************************************)
(* Virtual memory: the areas, page tables and swapped pages of processes,  *)
(* the pool of frames and the swap partition (memory/vmm.rs, the eviction  *)
(* half of memory/swap.rs, arch/paging.rs), with the page fault handler of *)
(* arch/idt.rs, SYS_BRK, SYS_MPROTECT, SYS_FORK and the program loader.    *)
(*                                                                         *)
(* Each handler holds FRAME_ALLOCATOR or the lock of the task from its     *)
(* first look at this state to its last change, so it is one step.         *)
(* Addresses are page numbers, the heap begins at page 0.  Code pages are  *)
(* in no area: no fault, call or eviction touches them, they are left out, *)
(* as are the frames of page tables.  The bits that choose a victim are in *)
(* Reaper; here any page the reaper may look at may be evicted.            *)
(***************************************************************************)
EXTENDS Integers, Sequences, FiniteSets, Functions

CONSTANTS Proc, Value, NumPages, StackBottom,   \* see AddressSpaces
          Frame,       \* physical frames
          Slot,        \* slots of the swap partition
          OpSets,      \* what may happen in one behaviour: subsets of AllOps
          None, Junk   \* no entry; the link the free list leaves in a frame

AllOps == {"brk", "shrink", "mprotect", "fork", "evict", "clone"}

\* A leaf entry of a page table, and what is kept of a page that is swapped out.
Entry     == [frame : Frame, write : BOOLEAN]
SwapEntry == [slot : Slot, write : BOOLEAN]

VmmAssumption ==
    /\ 0 \in Value /\ Junk \notin Value
    /\ NumPages \in Nat /\ StackBottom \in 1..(NumPages - 1)
    /\ IsFiniteSet(Frame)
    /\ \A o \in OpSets : o \subseteq AllOps
    /\ None \notin Value \cup {Junk} \cup Entry \cup SwapEntry

VPage == 0..(NumPages - 1)

VARIABLES live,      \* processes in the task table
          loaded,    \* those the loader made: user_entry is not 0
          areas,     \* Vmm::areas
          swapped,   \* Vmm::swapped
          pt,        \* leaf entries of the page table: frame and WRITABLE
          brk,       \* Task::brk
          content,   \* contents of the frames
          free,      \* the free list, its head first
          slots,     \* contents of the slots in use
          panic,     \* the access for which the kernel has panicked
          ops        \* what happens in this behaviour

vars == <<live, loaded, areas, swapped, pt, brk, content, free, slots, panic, ops>>

Area == [start : VPage, end : 0..NumPages, write : BOOLEAN]

TypeOK ==
    /\ loaded \subseteq live /\ live \subseteq Proc
    /\ areas \in [Proc -> Seq(Area)]
    /\ swapped \in [Proc -> [VPage -> SwapEntry \cup {None}]]
    /\ pt \in [Proc -> [VPage -> Entry \cup {None}]]
    /\ brk \in [Proc -> 0..(StackBottom - 1)]
    /\ content \in [Frame -> Value \cup {Junk}]
    /\ free \in Seq(Frame)
    /\ slots \in [Slot -> Value \cup {None, Junk}]
    /\ panic \in {None} \cup (Proc \X VPage \X BOOLEAN)

NoEntries == [v \in VPage |-> None]

\* Lists of frames: one with every frame once, and whether a frame is in one.
Listing(S) == CHOOSE q \in [1..Cardinality(S) -> S] : IsInjective(q)
Contains(list, f) == \E i \in 1..Len(list) : list[i] = f

Init ==
    /\ live = {} /\ loaded = {}
    /\ areas = [p \in Proc |-> << >>]
    /\ swapped = [p \in Proc |-> NoEntries]
    /\ pt = [p \in Proc |-> NoEntries]
    /\ brk = [p \in Proc |-> 0]
    /\ content = [f \in Frame |-> Junk]
    /\ free = Listing(Frame)
    /\ slots = [s \in Slot |-> None]
    /\ panic = None
    /\ ops \in OpSets
-----------------------------------------------------------------------------
In(a, v) == a.start <= v /\ v < a.end

\* The first area of a list that has page v: handle_fault looks for no other.
Has(list, v) == \E i \in 1..Len(list) : In(list[i], v)
First(list, v) == CHOOSE i \in 1..Len(list) : In(list[i], v) /\ \A j \in 1..(i - 1) : ~In(list[j], v)
HasArea(p, v) == Has(areas[p], v)
AreaOf(p, v) == areas[p][First(areas[p], v)]

Panic(p, v, write) ==
    /\ panic' = <<p, v, write>>
    /\ UNCHANGED <<live, loaded, areas, swapped, pt, brk, content, free, slots>>

\* load_flat, then spawn: an address space with a stack that has no pages yet.
Load(p) ==
    /\ p \notin live
    /\ live' = live \cup {p} /\ loaded' = loaded \cup {p}
    /\ areas' = [areas EXCEPT ![p] = <<[start |-> StackBottom, end |-> NumPages, write |-> TRUE]>>]
    /\ UNCHANGED <<swapped, pt, brk, content, free, slots, panic>>

\* An instruction of p writes x to a page that is mapped writable.
Write(p, v, x) ==
    /\ pt[p][v] # None /\ pt[p][v].write
    /\ content' = [content EXCEPT ![pt[p][v].frame] = x]
    /\ UNCHANGED <<live, loaded, areas, swapped, pt, brk, free, slots, panic>>

\* The frame at the head of the free list is taken for page v, with contents x.
MapNew(p, v, x, write) ==
    /\ free # << >>
    /\ free' = Tail(free)
    /\ content' = [content EXCEPT ![Head(free)] = x]
    /\ pt' = [pt EXCEPT ![p][v] = [frame |-> Head(free), write |-> write]]
    /\ UNCHANGED <<live, loaded, areas, brk, panic>>

\* Mutant: the slot is not freed.
SwapInKeepsSlot(p, v) ==
    /\ swapped[p][v] # None
    /\ MapNew(p, v, slots[swapped[p][v].slot], swapped[p][v].write)
    /\ swapped' = [swapped EXCEPT ![p][v] = None]
    /\ UNCHANGED slots

\* handle_fault: a swapped page comes back, ...
SwapIn(p, v) ==
    /\ swapped[p][v] # None
    /\ MapNew(p, v, slots[swapped[p][v].slot], swapped[p][v].write)
    /\ swapped' = [swapped EXCEPT ![p][v] = None]
    /\ slots' = [slots EXCEPT ![swapped[p][v].slot] = None]

\* ... a page of an area that is not there is filled with zeroes, ...
ZeroFill(p, v) ==
    /\ swapped[p][v] = None /\ pt[p][v] = None /\ HasArea(p, v)
    /\ MapNew(p, v, 0, AreaOf(p, v).write)
    /\ UNCHANGED <<swapped, slots>>

\* Mutant: the page is made writable where it is.
CopyOnWriteInPlace(p, v) ==
    /\ swapped[p][v] = None /\ pt[p][v] # None
    /\ HasArea(p, v) /\ AreaOf(p, v).write
    /\ pt' = [pt EXCEPT ![p][v].write = TRUE]
    /\ UNCHANGED <<live, loaded, areas, swapped, brk, content, free, slots, panic>>

\* ... and a write to a read-only page of a writable area copies the frame,
\* which keeps its other users.
CopyOnWrite(p, v) ==
    /\ swapped[p][v] = None /\ pt[p][v] # None
    /\ HasArea(p, v) /\ AreaOf(p, v).write
    /\ MapNew(p, v, content[pt[p][v].frame], TRUE)
    /\ UNCHANGED <<swapped, slots>>

\* The page table refuses an access.
Refused(p, v, write) == pt[p][v] = None \/ (write /\ ~pt[p][v].write)

\* Mutant: a page that is there is never served.
BadAccessPresent(p, v) == swapped[p][v] = None /\ (HasArea(p, v) => pt[p][v] # None)

\* handle_fault returns Err, frames or not.
BadAccess(p, v) ==
    swapped[p][v] = None /\ (HasArea(p, v) => pt[p][v] # None /\ ~AreaOf(p, v).write)

\* page_fault_handler, for an access the page table refuses.  What handle_fault
\* does not serve is a panic, also when the program is at fault.
Fault(p, v, write) ==
    /\ Refused(p, v, write) = TRUE
    /\ \/ SwapIn(p, v)
       \/ ZeroFill(p, v)
       \/ write /\ CopyOnWrite(p, v)
       \/ /\ (free = << >> \/ BadAccess(p, v)) = TRUE
          /\ Panic(p, v, write)

\* SYS_CLONE with CLONE_VM: a thread has the page table of p and a Vmm of its
\* own with no areas, so every fault of it is a bad access.
ThreadFault(p, v, write) ==
    /\ "clone" \in ops
    /\ Refused(p, v, write) = TRUE
    /\ Panic(p, v, write)
-----------------------------------------------------------------------------
\* set_heap_end: the area that starts where the heap does, or a new one.
HeapEnd(list, b) ==
    IF \E i \in 1..Len(list) : list[i].start = 0
    THEN LET i == CHOOSE i \in 1..Len(list) : list[i].start = 0 /\ \A j \in 1..(i - 1) : list[j].start # 0
         IN  [list EXCEPT ![i].end = b]
    ELSE IF b > 0
    THEN Append(list, [start |-> 0, end |-> b, write |-> TRUE])
    ELSE list

SetHeapEnd(p, b) == areas' = [areas EXCEPT ![p] = HeapEnd(@, b)]

\* A set of pages, the last one first.
Downward(S) == CHOOSE q \in [1..Cardinality(S) -> S] :
                 \A i, j \in 1..Cardinality(S) : i < j => q[i] > q[j]

\* shrink_heap: the frames of the pages cut off go to the head of the free list, one
\* page after the other.
Shrink(p, b) ==
    LET gone  == {v \in b..(brk[p] - 1) : pt[p][v] # None}
        freed == [i \in 1..Cardinality(gone) |-> pt[p][Downward(gone)[i]].frame]
    IN  /\ free' = freed \o free
        /\ content' = [f \in Frame |-> IF Contains(freed, f) THEN Junk ELSE content[f]]
        /\ pt' = [pt EXCEPT ![p] = [v \in VPage |-> IF v \in gone THEN None ELSE @[v]]]

\* Mutant: the heap may grow into the stack.
BrkIntoStack(p, b) ==
    /\ p \in live
    /\ "brk" \in ops /\ b > brk[p]
    /\ SetHeapEnd(p, b)
    /\ brk' = [brk EXCEPT ![p] = b]
    /\ UNCHANGED <<live, loaded, swapped, pt, content, free, slots, panic>>

\* SYS_BRK with a page count inside the bounds; others change nothing.
Brk(p, b) ==
    /\ p \in live
    /\ b \in 0..(StackBottom - 1)
    /\ \/ /\ "brk" \in ops /\ b > brk[p]
          /\ UNCHANGED <<pt, content, free>>
       \/ /\ "shrink" \in ops /\ b < brk[p]
          /\ Shrink(p, b)
    /\ SetHeapEnd(p, b)
    /\ brk' = [brk EXCEPT ![p] = b]
    /\ UNCHANGED <<live, loaded, swapped, slots, panic>>

\* Mutant: the areas are split, the pages that are there keep their flags.
RemapNothing(p, range, write) == UNCHANGED pt

\* mprotect, the pages of the range that are there.
Remap(p, range, write) ==
    pt' = [pt EXCEPT ![p] = [v \in VPage |-> IF v \in range /\ @[v] # None
                                             THEN [@[v] EXCEPT !.write = write] ELSE @[v]]]

\* Mutant: the part before the range is not cut.
SplitKeepsHead(a, first, end, write) ==
    (IF first > a.start THEN <<a>> ELSE << >>)
    \o <<[start |-> first, end |-> end, write |-> write]>>
    \o (IF end < a.end THEN <<[a EXCEPT !.start = end]>> ELSE << >>)

\* mprotect, the areas that take the place of area a.
Split(a, first, end, write) ==
    (IF first > a.start THEN <<[a EXCEPT !.end = first]>> ELSE << >>)
    \o <<[start |-> first, end |-> end, write |-> write]>>
    \o (IF end < a.end THEN <<[a EXCEPT !.start = end]>> ELSE << >>)

Protect(list, first, end, write) ==
    LET i == First(list, first)
    IN  SubSeq(list, 1, i - 1) \o Split(list[i], first, end, write) \o SubSeq(list, i + 1, Len(list))

\* SYS_MPROTECT: the range has to lie in the area its first page is in, which
\* is split in up to three.
Mprotect(p, first, end, write) ==
    /\ "mprotect" \in ops
    /\ p \in live
    /\ first < end
    /\ HasArea(p, first) /\ end <= AreaOf(p, first).end
    /\ areas' = [areas EXCEPT ![p] = Protect(@, first, end, write)]
    /\ Remap(p, first..(end - 1), write)
    /\ UNCHANGED <<live, loaded, swapped, brk, content, free, slots, panic>>

ReadOnly(entry) == IF entry = None THEN None ELSE [entry EXCEPT !.write = FALSE]

\* fork_cow: the pages of areas are shared, read-only on both sides.
Share(p, c) ==
    LET shared == [v \in VPage |-> IF HasArea(p, v) THEN ReadOnly(pt[p][v]) ELSE None]
    IN  pt' = [pt EXCEPT ![p] = [v \in VPage |-> IF HasArea(p, v) THEN shared[v] ELSE @[v]],
                         ![c] = shared]

\* SYS_FORK: areas, heap and pages that are there; a new Vmm has no swapped ones.
Fork(p, c) ==
    /\ "fork" \in ops
    /\ p \in live /\ c \notin live
    /\ live' = live \cup {c}
    /\ areas' = [areas EXCEPT ![c] = areas[p]]
    /\ brk' = [brk EXCEPT ![c] = brk[p]]
    /\ Share(p, c)
    /\ UNCHANGED <<loaded, swapped, content, free, slots, panic>>

\* Mutant: the frame is freed before it is written out.
EvictLate(p, v) ==
    /\ "evict" \in ops
    /\ p \in loaded /\ HasArea(p, v) /\ pt[p][v] # None
    /\ \E s \in Slot :
         /\ slots[s] = None
         /\ slots' = [slots EXCEPT ![s] = Junk]
         /\ swapped' = [swapped EXCEPT ![p][v] = [slot |-> s, write |-> pt[p][v].write]]
    /\ pt' = [pt EXCEPT ![p][v] = None]
    /\ free' = <<pt[p][v].frame>> \o free
    /\ content' = [content EXCEPT ![pt[p][v].frame] = Junk]
    /\ UNCHANGED <<live, loaded, areas, brk, panic>>

\* evict_addr, on a page that gather_candidates lists; nothing if swap is full.
Evict(p, v) ==
    /\ "evict" \in ops
    /\ p \in loaded /\ HasArea(p, v) /\ pt[p][v] # None
    /\ \E s \in Slot :
         /\ slots[s] = None
         /\ slots' = [slots EXCEPT ![s] = content[pt[p][v].frame]]
         /\ swapped' = [swapped EXCEPT ![p][v] = [slot |-> s, write |-> pt[p][v].write]]
    /\ pt' = [pt EXCEPT ![p][v] = None]
    /\ free' = <<pt[p][v].frame>> \o free
    /\ content' = [content EXCEPT ![pt[p][v].frame] = Junk]
    /\ UNCHANGED <<live, loaded, areas, brk, panic>>
-----------------------------------------------------------------------------
Step(p) ==
    \/ Load(p)
    \/ \E v \in VPage :
         \/ \E x \in Value : Write(p, v, x)
         \/ p \in live /\ \E write \in BOOLEAN : Fault(p, v, write) \/ ThreadFault(p, v, write)
         \/ Evict(p, v)
    \/ \E b \in VPage : Brk(p, b)
    \/ \E first \in VPage, end \in 1..NumPages, write \in BOOLEAN : Mprotect(p, first, end, write)
    \/ \E c \in Proc : Fork(p, c)

Next == panic = None /\ (\E p \in Proc : Step(p)) /\ UNCHANGED ops

Spec == Init /\ [][Next]_vars
-----------------------------------------------------------------------------
\* What process p may do with page v in the end, faults included ...
Perm(p, v) ==
    IF \/ pt[p][v] # None /\ pt[p][v].write
       \/ swapped[p][v] # None /\ swapped[p][v].write
       \/ HasArea(p, v) /\ AreaOf(p, v).write
    THEN "rw"
    ELSE IF HasArea(p, v) \/ pt[p][v] # None \/ swapped[p][v] # None THEN "r" ELSE "none"

\* ... and what it finds there.
Val(p, v) ==
    IF swapped[p][v] # None THEN slots[swapped[p][v].slot]
    ELSE IF pt[p][v] # None THEN content[pt[p][v].frame] ELSE 0

Perms  == [p \in Proc |-> [v \in VPage |-> Perm(p, v)]]
Vals   == [p \in Proc |-> [v \in VPage |-> Val(p, v)]]
Spaces == INSTANCE AddressSpaces WITH prot <- Perms, mem <- Vals

\* The page tables, the free list and swap implement private address spaces:
\* whatever is evicted, shared or faulted in between, a process sees its own
\* last writes, zeroes, or what it had when it was forked.
ImplementsSpaces == Spaces!Spec

Mapped(f) == {m \in Proc \X VPage : pt[m[1]][m[2]] # None /\ pt[m[1]][m[2]].frame = f}

\* Frames are accounted for: none is on the free list twice, none is free and
\* mapped, and one that is mapped twice is mapped read-only.
FramesOwned ==
    /\ \A i, j \in 1..Len(free) : free[i] = free[j] => i = j
    /\ \A f \in Frame :
         /\ Mapped(f) # {} => ~Contains(free, f)
         /\ Cardinality(Mapped(f)) > 1 => \A m \in Mapped(f) : ~pt[m[1]][m[2]].write

\* No frame and no slot is lost: what is not free belongs to a page.  Not so
\* after a fork: when both sides have copied a shared frame, nobody frees it.
NothingLeaks ==
    "fork" \notin ops =>
      /\ \A f \in Frame : Contains(free, f) \/ Mapped(f) # {}
      /\ \A s \in Slot : slots[s] # None =>
           \E p \in Proc, v \in VPage : swapped[p][v] # None /\ swapped[p][v].slot = s

\* The areas of a process do not overlap, so the first that has a page is the
\* only one: what handle_fault, mprotect and set_heap_end look for.
Disjoint(list) ==
    \A i, j \in 1..Len(list) : i # j => list[i].end <= list[j].start \/ list[j].end <= list[i].start

AreasDisjoint == \A p \in Proc : Disjoint(areas[p])

\* The page tables give no right that the areas do not: a page may be written
\* without a fault only in a writable area.
NoStrayRights ==
    \A p \in Proc, v \in VPage :
      pt[p][v] # None /\ pt[p][v].write => HasArea(p, v) /\ AreaOf(p, v).write

\* A child starts with the memory of its parent, page by page.
ForkCopies ==
    [][\A p, c \in Proc : c \in live' \ live /\ c \notin loaded' /\ p \in loaded
          => \A v \in VPage : Val(c, v)' = Val(p, v)]_vars

\* Only a bad access or the want of frames stops the kernel: every access that
\* the address space allows is served.  Not so for a thread made by SYS_CLONE
\* with CLONE_VM, whose own Vmm has no areas.
FaultsServed ==
    "clone" \notin ops /\ panic # None =>
      \/ free = << >>
      \/ Perm(panic[1], panic[2]) = "none"
      \/ Perm(panic[1], panic[2]) = "r" /\ panic[3]

\* handle_fault, fork_cow, shrink_heap and evict_addr: a frame is free or mapped,
\* mapped writable by one process at most, and no frame or swap slot is lost.
FramesAccounted == TypeOK /\ FramesOwned /\ NothingLeaks

\* brk, mprotect and faults: areas are disjoint, pages carry no rights their area
\* does not give, and an access inside an area that gives the right does not panic.
AreasSound == AreasDisjoint /\ NoStrayRights /\ FaultsServed

\* Operations that, together in one behaviour, break what each of them keeps.
Conflicts == {{"fork", "shrink"}, {"fork", "evict"}, {"fork", "mprotect"},
              {"mprotect", "evict"}, {"mprotect", "brk"}, {"evict", "shrink"}}
Compatible == \A o \in OpSets, c \in Conflicts : ~(c \subseteq o)
=============================================================================
