------------------------------ MODULE MCMemory ------------------------------
(***************************************************************************)
(* Small instances of memory: address spaces, the kernel heap, and the     *)
(* frames at boot.  The three have no variable in common, so a behaviour   *)
(* has one of them at work while the others stay in an initial state.      *)
(***************************************************************************)
EXTENDS Vmm, TLC

CONSTANTS Parts,   \* which of the parts to check
          p1, p2, f1, f2, f3, s1, s2,
          MaxOrder, HeapStart, HeapSize,
          MaxAddr, HeapFrames

TwoProcs    == {p1, p2}
ThreeFrames == {f1, f2, f3}
TwoSlots    == {s1, s2}

\* Processes and slots are interchangeable; the free list orders the frames.
VmSymmetry == Permutations(TwoProcs) \cup Permutations(TwoSlots)

VARIABLES part,
          blocks, taken,
          regions, phase, index, cursor, consumed, head, link, count, out

KernelHeap == INSTANCE Buddy WITH free <- blocks, live <- taken
Boot       == INSTANCE Frames

ASSUME PartsAssumption ==
    /\ Parts \subseteq {"vmm", "heap", "frames"}
    /\ VmmAssumption /\ KernelHeap!BuddyAssumption /\ Boot!FramesAssumption

heapVars  == <<blocks, taken>>
frameVars == <<regions, phase, index, cursor, consumed, head, link, count, out>>
allVars   == <<part, vars, heapVars, frameVars>>

\* One set of operations and one memory map will do for parts at rest.
MCInit ==
    /\ part \in Parts
    /\ Init /\ KernelHeap!Init /\ Boot!Init
    /\ part # "vmm" => ops = CHOOSE o \in OpSets : TRUE
    /\ part # "frames" => regions = CHOOSE r \in Boot!Maps : TRUE

MCNext ==
    \/ part = "vmm"    /\ Next            /\ UNCHANGED <<part, heapVars, frameVars>>
    \/ part = "heap"   /\ KernelHeap!Next /\ UNCHANGED <<part, vars, frameVars>>
    \/ part = "frames" /\ Boot!Next       /\ UNCHANGED <<part, vars, heapVars>>

MCSpec == MCInit /\ [][MCNext]_allVars
-----------------------------------------------------------------------------
\* alloc_inner and dealloc_inner: every unit of the kernel heap is in exactly one
\* block, free or handed out, and aligned to its size; no two free blocks are
\* buddies, and an empty heap is what init made of it.
HeapSound == part = "heap" => KernelHeap!HeapIsTiled /\ KernelHeap!BuddiesMerged

\* memory::init and FreeListAllocator: a frame is on the free list once, or handed
\* out, or under the kernel heap; free_count is the length of the list; and the
\* hand-over skips at most one frame too many for each region that ends inside one.
FreeListSound ==
    part = "frames" => Boot!FramesHaveOneOwner /\ Boot!CountIsExact /\ Boot!FewFramesLost
=============================================================================
