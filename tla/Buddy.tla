-------------------------------- MODULE Buddy --------------------------------
(***************************************************************************)
(* The buddy allocator behind the kernel heap, memory/buddy_allocator.rs.  *)
(* Addresses and sizes are in units of MIN_BLOCK_SIZE.  The free lists are *)
(* sequences, because the code takes and adds blocks at their heads.       *)
(***************************************************************************)
EXTENDS Integers, Sequences, FiniteSets, SequencesExt, FiniteSetsExt

CONSTANTS MaxOrder,   \* MAX_ORDER, 18 in the code
          HeapStart, HeapSize

BuddyAssumption ==
    /\ MaxOrder \in Nat /\ HeapSize \in Nat /\ HeapStart \in Nat
    /\ HeapStart % 2^MaxOrder = 0   \* HEAP_START is 2^46-aligned

VARIABLES free,   \* free_lists
          live    \* the blocks handed out, with the order of their layout

vars == <<free, live>>

Order == 0..MaxOrder
HeapEnd == HeapStart + HeapSize
Addr == HeapStart..(HeapEnd - 1)
Block == [addr : Addr, ord : Order]
Extent(b) == b.addr..(b.addr + 2^b.ord - 1)

TypeOK == free \in [Order -> Seq(Addr)] /\ live \subseteq Block

\* init: from the start, always the largest aligned block that fits.
Fits(a, k) == a + 2^k <= HeapEnd /\ a % 2^k = 0

\* The addresses at which init puts a block of order k, the last one first.
InitBlocks(k) ==
    LET reach[a \in HeapStart..HeapEnd] ==
            \/ a = HeapStart
            \/ \E b \in HeapStart..(a - 1) : /\ reach[b]
                                             /\ \E o \in Order : Fits(b, o) /\ a = b + 2^o
                                             /\ \A o \in Order : Fits(b, o) => b + 2^o <= a
    IN  SetToSortSeq({a \in Addr : reach[a] /\ Fits(a, k) /\ \A o \in Order : Fits(a, o) => o <= k}, >)

Init ==
    /\ free = [k \in Order |-> InitBlocks(k)]
    /\ live = {}

\* The order of a layout whose size and alignment are at most `size`.
OrderOf(size) == Min({k \in Order : 2^k >= size} \cup {MaxOrder + 1})

\* Mutant: the lower half is put on the free list, the block that is returned.
AllocSplitsLow(size) ==
    LET ord   == OrderOf(size)
        found == Min({k \in ord..MaxOrder : free[k] # << >>} \cup {MaxOrder + 1})
        block == Head(free[found])
    IN  IF found > MaxOrder
        THEN UNCHANGED vars
        ELSE /\ free' = [k \in Order |->
                            CASE k = found             -> Tail(free[k])
                              [] ord <= k /\ k < found -> <<block>> \o free[k]
                              [] OTHER                 -> free[k]]
             /\ live' = live \cup {[addr |-> block, ord |-> ord]}

\* alloc_inner: a block of the first order that has one, split down to ord.
\* It returns null, and changes nothing, when there is none.
Alloc(size) ==
    LET ord   == OrderOf(size)
        found == Min({k \in ord..MaxOrder : free[k] # << >>} \cup {MaxOrder + 1})
        block == Head(free[found])
    IN  IF found > MaxOrder
        THEN UNCHANGED vars
        ELSE /\ free' = [k \in Order |->
                            CASE k = found             -> Tail(free[k])
                              [] ord <= k /\ k < found -> <<block + 2^k>> \o free[k]
                              [] OTHER                 -> free[k]]
             /\ live' = live \cup {[addr |-> block, ord |-> ord]}

\* The block of order k that a lies in, and its buddy, addr ^ (1 << k).
Base(a, k) == a - (a % 2^k)
BuddyOf(a, k) == IF Base(a, k + 1) = a THEN a + 2^k ELSE a - 2^k

\* Mutant: blocks are never merged.
ReachedNever(b) == b.ord

\* The order up to which a block that is freed merges with free buddies.
Reached(b) ==
    Min({k \in b.ord..MaxOrder : k = MaxOrder \/ BuddyOf(Base(b.addr, k), k) \notin Range(free[k])})

\* dealloc_inner.
Dealloc(b) ==
    LET top == Reached(b)
    IN  /\ free' = [k \in Order |->
                       CASE k = top               -> <<Base(b.addr, k)>> \o free[k]
                         [] b.ord <= k /\ k < top -> Remove(free[k], BuddyOf(Base(b.addr, k), k))
                         [] OTHER                 -> free[k]]
        /\ live' = live \ {b}

Next == (\E size \in 1..(2^MaxOrder + 1) : Alloc(size)) \/ (\E b \in live : Dealloc(b))

Spec == Init /\ [][Next]_vars
-----------------------------------------------------------------------------
FreeBlocks == {b \in Block : b.addr \in Range(free[b.ord])}

\* Every unit of the heap is in exactly one block, free or handed out, whatever
\* the order of calls: no two owners, and no memory is lost by splits and merges.
\* A block is aligned to its size: alloc_inner relies on that for the alignment
\* of a layout, which it only folds into the size.
HeapIsTiled ==
    /\ TypeOK
    /\ \A a \in Addr : Cardinality({b \in FreeBlocks \cup live : a \in Extent(b)}) = 1
    /\ FreeBlocks \cap live = {}
    /\ \A k \in Order : IsInjective(free[k])
    /\ \A b \in live : b.addr % 2^b.ord = 0

\* Merging is complete: no two free blocks are buddies below MAX_ORDER, so that
\* when everything is freed the heap is again what init made of it.
BuddiesMerged ==
    /\ \A k \in 0..(MaxOrder - 1) :
          \A a \in Range(free[k]) : BuddyOf(a, k) \notin Range(free[k])
    /\ live = {} => \A k \in Order : Range(free[k]) = Range(InitBlocks(k))
=============================================================================
