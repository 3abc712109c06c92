------------------------------- MODULE Frames -------------------------------
(***************************************************************************)
(* Physical frames from boot on: the allocator that maps the kernel heap   *)
(* (frame_allocator.rs), and the free list that takes over the frames it   *)
(* left (free_list.rs, memory::init).  The hand-over is a bare count, and  *)
(* the list is threaded through the free frames with 0 as its end, though  *)
(* a physical address may be 0.  Addresses are in units of half a frame,   *)
(* so that a region may end inside a frame, as the low memory of a PC does.*)
(***************************************************************************)
EXTENDS Integers, Sequences, FiniteSets, SequencesExt, FiniteSetsExt

CONSTANTS MaxAddr,     \* physical addresses are 0..MaxAddr-1
          HeapFrames   \* frames that mapping the heap takes at least

FramesAssumption == MaxAddr \in Nat /\ HeapFrames \in Nat \ {0}

NoFrame == -1
PhysFrame == 0..((MaxAddr - 1) \div 2)

\* Two usable regions, in address order, with a gap that may be empty.
Region == [start : {a \in 0..(MaxAddr - 1) : a % 2 = 0}, end : 1..MaxAddr]
Maps == {r \in Region \X Region : /\ r[1].start < r[1].end /\ r[2].start < r[2].end
                                  /\ r[1].end <= r[2].start}

VARIABLES regions,    \* the memory map, usable regions only
          phase,      \* "boot" while the heap is mapped, then "run"
          index, cursor,  \* of the boot allocator, cursor NoFrame if exhausted
          consumed,   \* the frames it handed out (frames_consumed is their number)
          head, link, count,  \* the free list: head, link in each frame, free_count
          out         \* frames allocated since

vars == <<regions, phase, index, cursor, consumed, head, link, count, out>>

FirstFrame(r) == r.start \div 2
LastFrame(r)  == (r.end - 1) \div 2

\* seek_to_first_usable_frame, from region i with cursor c.
Seek(i, c) ==
    LET fits == {j \in i..Len(regions) :
                    (IF j = i /\ c # NoFrame THEN c ELSE FirstFrame(regions[j])) <= LastFrame(regions[j])}
        j    == IF fits = {} THEN Len(regions) + 1 ELSE Min(fits)
    IN  /\ index' = j
        /\ cursor' = CASE fits = {}            -> NoFrame
                       [] j = i /\ c # NoFrame    -> c
                       [] OTHER                -> FirstFrame(regions[j])

Init ==
    /\ regions \in Maps
    /\ phase = "boot"
    /\ index = 1 /\ cursor = FirstFrame(regions[1])
    /\ consumed = << >>
    /\ head = NoFrame /\ link = [f \in PhysFrame |-> 0] /\ count = 0
    /\ out = {}

\* heap::init takes a frame for the heap or for a page table.
BootAllocate ==
    /\ phase = "boot" /\ cursor # NoFrame
    /\ consumed' = Append(consumed, cursor)
    /\ Seek(index, cursor + 1)
    /\ UNCHANGED <<regions, phase, head, link, count, out>>

\* Mutant: a region is walked from its end.
WalkDown(r) == [k \in 1..((r.end - r.start) \div 2) |-> FirstFrame(r) + (r.end - r.start) \div 2 - k]

\* The frames that FreeListAllocator::init walks over in a region: one for every
\* frame-sized step from its start that ends inside it.
Walk(r) == [k \in 1..((r.end - r.start) \div 2) |-> FirstFrame(r) + k - 1]

\* Mutant: one frame too many is skipped.
SkipOneMore == Len(consumed) + 1

Skip == Len(consumed)

\* Deallocation of the frames of s, one by one: each links to the head before it.
Threaded(s) ==
    /\ link' = [f \in PhysFrame |-> IF f \in Range(s) /\ f # s[1]
                                THEN s[IndexFirstSubSeq(<<f>>, s) - 1] ELSE link[f]]
    /\ head' = IF s = << >> THEN NoFrame ELSE Last(s)
    /\ count' = Len(s)

\* memory::init: the free list is built from the memory map, less the first frames.
InitFreeList ==
    /\ phase = "boot" /\ Len(consumed) >= HeapFrames
    /\ phase' = "run"
    /\ LET walk == Walk(regions[1]) \o Walk(regions[2])
       IN  Threaded(SubSeq(walk, Skip + 1, Len(walk)))
    /\ UNCHANGED <<regions, index, cursor, consumed, out>>

Allocate ==
    /\ phase = "run" /\ head # NoFrame
    /\ head' = IF link[head] = 0 THEN NoFrame ELSE link[head]
    /\ count' = count - 1
    /\ out' = out \cup {head}
    /\ UNCHANGED <<regions, phase, index, cursor, consumed, link>>

\* Mutant: the head is not updated when the list was empty.
DeallocateKeepsHead(f) ==
    /\ link' = [link EXCEPT ![f] = IF head = NoFrame THEN 0 ELSE head]
    /\ head' = IF head = NoFrame THEN head ELSE f
    /\ count' = count + 1
    /\ out' = out \ {f}
    /\ UNCHANGED <<regions, phase, index, cursor, consumed>>

Deallocate(f) ==
    /\ link' = [link EXCEPT ![f] = IF head = NoFrame THEN 0 ELSE head]
    /\ head' = f
    /\ count' = count + 1
    /\ out' = out \ {f}
    /\ UNCHANGED <<regions, phase, index, cursor, consumed>>

\* Mapping the heap panics when the memory runs out, and the machine stops.
Next == BootAllocate \/ InitFreeList \/ Allocate \/ \E f \in out : Deallocate(f)

Spec == Init /\ [][Next]_vars
-----------------------------------------------------------------------------
\* The frames on the free list, as far as allocate can follow the links.
OnList ==
    LET at[n \in 0..Cardinality(PhysFrame)] ==
            IF n = 0 THEN head
            ELSE IF at[n - 1] = NoFrame \/ link[at[n - 1]] = 0 THEN NoFrame ELSE link[at[n - 1]]
    IN  [n \in {m \in 0..Cardinality(PhysFrame) : at[m] # NoFrame} |-> at[n]]

\* A frame has one owner: the free list holds no frame twice, and neither it nor
\* an owner holds a frame under the kernel heap, though all that memory::init
\* passes on is how many frames the boot allocator took.
FramesHaveOneOwner ==
    /\ \A i, j \in DOMAIN OnList : OnList[i] = OnList[j] => i = j
    /\ Range(OnList) \cap out = {}
    /\ phase = "run" => Range(consumed) \cap (Range(OnList) \cup out) = {}

\* free_count is what allocate can really hand out: the frame at address 0 would
\* end the list early, and the reaper trusts the count.
CountIsExact == count = Cardinality(DOMAIN OnList)

\* Every frame that lies in a usable region is used: it went to the heap, is on
\* the list or was handed out.  The hand-over skips at most one frame too many
\* for each region that ends inside a frame.
FewFramesLost ==
    phase = "run" =>
        Cardinality(UNION {Range(Walk(regions[i])) : i \in 1..2}
                        \ (Range(consumed) \cup Range(OnList) \cup out))
            <= Cardinality({i \in 1..2 : regions[i].end % 2 = 1})
=============================================================================
