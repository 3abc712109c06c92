---------------------------- MODULE MemoryProofs ----------------------------
(***************************************************************************)
(* Proofs about virtual memory, for any processes, pages, frames and slots *)
(* and any behaviours in which no two conflicting operations meet: frames  *)
(* are accounted for, areas are sound, and page tables with sharing, the   *)
(* free list and swap implement private address spaces.                    *)
(***************************************************************************)
EXTENDS Vmm, FiniteSetTheorems, SequenceTheorems, TLAPS

StackArea   == [start |-> StackBottom, end |-> NumPages, write |-> TRUE]
HeapArea(b) == [start |-> 0, end |-> b, write |-> TRUE]

\* What the operations of a behaviour leave out of each other's way.
Apart ==
    /\ "fork" \in ops => "shrink" \notin ops /\ "evict" \notin ops /\ "mprotect" \notin ops
    /\ "mprotect" \in ops => "evict" \notin ops /\ "brk" \notin ops
    /\ "evict" \in ops => "shrink" \notin ops

Distinct(s) == \A i, j \in 1..Len(s) : s[i] = s[j] => i = j

\* Frames: free once or mapped, and shared only read-only by the two sides of a fork.
FrameInv ==
    /\ Distinct(free)
    /\ \A p \in Proc, v \in VPage : pt[p][v] # None => ~Contains(free, pt[p][v].frame)
    /\ \A p, q \in Proc, v, w \in VPage :
         pt[p][v] # None /\ pt[q][w] # None /\ pt[p][v].frame = pt[q][w].frame
           => (p = q /\ v = w) \/ ("fork" \in ops /\ ~pt[p][v].write)

\* Slots: a page that is swapped out has one of its own, and is not mapped.
SlotInv ==
    /\ \A p \in Proc, v \in VPage :
         swapped[p][v] # None =>
           "evict" \in ops /\ pt[p][v] = None /\ slots[swapped[p][v].slot] # None
    /\ \A p, q \in Proc, v, w \in VPage :
         swapped[p][v] # None /\ swapped[q][w] # None /\ swapped[p][v].slot = swapped[q][w].slot
           => p = q /\ v = w

\* Areas: a stack and a heap up to brk, or a stack that mprotect has split.
AreaInv ==
    /\ \A p \in Proc : Disjoint(areas[p])
    /\ \A p \in Proc \ live : areas[p] = << >> /\ brk[p] = 0
    /\ "mprotect" \in ops =>
         \A p \in live : brk[p] = 0 /\ \A v \in VPage : Has(areas[p], v) <=> v >= StackBottom
    /\ "mprotect" \notin ops =>
         \A p \in live : \/ areas[p] = <<StackArea>> /\ brk[p] = 0
                         \/ areas[p] = <<StackArea, HeapArea(brk[p])>>

\* Pages: in an area, with the rights of the area; less only where a fork has
\* taken them away.
PageInv ==
    \A p \in Proc, v \in VPage :
      /\ pt[p][v] # None =>
           /\ HasArea(p, v)
           /\ pt[p][v].write => AreaOf(p, v).write
           /\ "fork" \notin ops /\ AreaOf(p, v).write => pt[p][v].write
      /\ swapped[p][v] # None =>
           HasArea(p, v) /\ (swapped[p][v].write <=> AreaOf(p, v).write)

\* Nothing is lost before a fork.
LeakInv ==
    "fork" \notin ops =>
      /\ \A f \in Frame : \/ Contains(free, f)
                          \/ \E p \in Proc, v \in VPage : pt[p][v] # None /\ pt[p][v].frame = f
      /\ \A s \in Slot : slots[s] # None =>
           \E p \in Proc, v \in VPage : swapped[p][v] # None /\ swapped[p][v].slot = s

\* The inductive invariant.
VmInv ==
    /\ VmmAssumption /\ Apart
    /\ TypeOK /\ FrameInv /\ SlotInv /\ AreaInv /\ PageInv /\ LeakInv /\ FaultsServed
-----------------------------------------------------------------------------
(* Sequences of distinct elements, as the free list is one. *)

LEMMA ContainsAt == ASSUME NEW s, NEW x PROVE Contains(s, x) <=> \E i \in 1..Len(s) : s[i] = x
    BY Zenon DEF Contains

\* Taking the head of a list of distinct elements.
LEMMA TakeHead ==
    ASSUME NEW S, NEW s \in Seq(S), s # << >>, Distinct(s)
    PROVE  /\ Head(s) \in S /\ Contains(s, Head(s))
           /\ Tail(s) \in Seq(S) /\ Distinct(Tail(s))
           /\ \A x : Contains(Tail(s), x) <=> Contains(s, x) /\ x # Head(s)
<1>1. /\ Head(s) \in S /\ Tail(s) \in Seq(S) /\ Len(Tail(s)) = Len(s) - 1
      /\ \A i \in 1..Len(Tail(s)) : Tail(s)[i] = s[i + 1]
    BY HeadTailProperties, Zenon
<1>2. Len(s) \in Nat /\ Len(s) > 0 /\ Head(s) = s[1]
    BY EmptySeq, SMTT(60)
<1>3. Distinct(Tail(s))
    BY <1>1, <1>2, SMTT(60) DEF Distinct
<1>4. ASSUME NEW x PROVE Contains(Tail(s), x) <=> Contains(s, x) /\ x # Head(s)
    <2>1. ASSUME Contains(Tail(s), x) PROVE Contains(s, x) /\ x # Head(s)
        <3>1. PICK i \in 1..Len(Tail(s)) : Tail(s)[i] = x
            BY <2>1, ContainsAt, Zenon
        <3>2. i + 1 \in 1..Len(s) /\ s[i + 1] = x /\ 1 \in 1..Len(s) /\ i + 1 # 1
            BY <1>1, <1>2, <3>1, SMTT(60)
        <3> QED
            BY <1>2, <3>2, ContainsAt, Zenon DEF Distinct
    <2>2. ASSUME Contains(s, x), x # Head(s) PROVE Contains(Tail(s), x)
        <3>1. PICK i \in 1..Len(s) : s[i] = x
            BY <2>2, ContainsAt, Zenon
        <3>2. i - 1 \in 1..Len(Tail(s)) /\ Tail(s)[i - 1] = x
            BY <1>1, <1>2, <2>2, <3>1, SMTT(60)
        <3> QED
            BY <3>2, ContainsAt, Zenon
    <2> QED
        BY <2>1, <2>2, Zenon
<1>5. Contains(s, Head(s))
    BY <1>2, ContainsAt, SMTT(60)
<1> QED
    BY <1>1, <1>3, <1>4, <1>5, Zenon

\* Putting distinct elements in front of a list that has none of them.
LEMMA PutInFront ==
    ASSUME NEW S, NEW a \in Seq(S), NEW s \in Seq(S), Distinct(a), Distinct(s),
           \A x : ~(Contains(a, x) /\ Contains(s, x))
    PROVE  /\ a \o s \in Seq(S) /\ Distinct(a \o s)
           /\ \A x : Contains(a \o s, x) <=> Contains(a, x) \/ Contains(s, x)
<1> DEFINE t == a \o s
<1>1. /\ t \in Seq(S) /\ Len(t) = Len(a) + Len(s)
      /\ \A i \in 1..(Len(a) + Len(s)) : t[i] = IF i <= Len(a) THEN a[i] ELSE s[i - Len(a)]
    BY ConcatProperties, Zenon
<1>2. Len(a) \in Nat /\ Len(s) \in Nat
    BY SMTT(60)
<1> HIDE DEF t
<1>3. ASSUME NEW i \in 1..Len(t), NEW j \in 1..Len(t), t[i] = t[j] PROVE i = j
    <2>1. CASE i <= Len(a) /\ j <= Len(a)
        BY <1>1, <1>2, <1>3, <2>1, SMTT(60) DEF Distinct
    <2>2. CASE i > Len(a) /\ j > Len(a)
        <3>1. /\ i - Len(a) \in 1..Len(s) /\ j - Len(a) \in 1..Len(s)
              /\ s[i - Len(a)] = s[j - Len(a)]
            BY <1>1, <1>2, <1>3, <2>2, SMTT(60)
        <3>2. i - Len(a) = j - Len(a)
            BY <3>1, Zenon DEF Distinct
        <3> QED
            BY <1>1, <1>2, <3>2, SMTT(60)
    <2>3. CASE i <= Len(a) /\ j > Len(a)
        <3>1. i \in 1..Len(a) /\ t[i] = a[i]
            BY <1>1, <1>2, <2>3, SMTT(60)
        <3>2. j - Len(a) \in 1..Len(s) /\ s[j - Len(a)] = t[i]
            BY <1>1, <1>2, <1>3, <2>3, SMTT(60)
        <3> QED
            BY <3>1, <3>2, ContainsAt, Zenon
    <2>4. CASE i > Len(a) /\ j <= Len(a)
        <3>1. j \in 1..Len(a) /\ t[j] = a[j]
            BY <1>1, <1>2, <2>4, SMTT(60)
        <3>2. i - Len(a) \in 1..Len(s) /\ s[i - Len(a)] = t[j]
            BY <1>1, <1>2, <1>3, <2>4, SMTT(60)
        <3> QED
            BY <3>1, <3>2, ContainsAt, Zenon
    <2> QED
        BY <1>1, <1>2, <2>1, <2>2, <2>3, <2>4, SMTT(60)
<1>4. ASSUME NEW x PROVE Contains(t, x) <=> Contains(a, x) \/ Contains(s, x)
    <2>1. ASSUME Contains(t, x) PROVE Contains(a, x) \/ Contains(s, x)
        <3>1. PICK i \in 1..Len(t) : t[i] = x
            BY <2>1, ContainsAt, Zenon
        <3>2. CASE i <= Len(a)
            BY <1>1, <1>2, <3>1, <3>2, ContainsAt, SMTT(60)
        <3>3. CASE i > Len(a)
            <4>1. i - Len(a) \in 1..Len(s) /\ s[i - Len(a)] = x
                BY <1>1, <1>2, <3>1, <3>3, SMTT(60)
            <4> QED
                BY <4>1, ContainsAt, Zenon
        <3> QED
            BY <1>1, <1>2, <3>2, <3>3, SMTT(60)
    <2>2. ASSUME Contains(a, x) PROVE Contains(t, x)
        <3>1. PICK i \in 1..Len(a) : a[i] = x
            BY <2>2, ContainsAt, Zenon
        <3>2. i \in 1..Len(t) /\ t[i] = x
            BY <1>1, <1>2, <3>1, SMTT(60)
        <3> QED
            BY <3>2, ContainsAt, Zenon
    <2>3. ASSUME Contains(s, x) PROVE Contains(t, x)
        <3>1. PICK i \in 1..Len(s) : s[i] = x
            BY <2>3, ContainsAt, Zenon
        <3>2. i + Len(a) \in 1..(Len(a) + Len(s)) /\ ~(i + Len(a) <= Len(a)) /\ (i + Len(a)) - Len(a) = i
            BY <1>2, SMTT(60)
        <3>3. i + Len(a) \in 1..Len(t) /\ t[i + Len(a)] = x
            BY <1>1, <3>1, <3>2, Zenon
        <3> QED
            BY <3>3, ContainsAt, Zenon
    <2> QED
        BY <2>1, <2>2, <2>3, Zenon
<1> QED
    BY <1>1, <1>3, <1>4, Zenon DEF t, Distinct

\* memory::init: the free list starts with every frame once.
LEMMA AllFree ==
    ASSUME NEW S, IsFiniteSet(S)
    PROVE  /\ Listing(S) \in Seq(S) /\ Distinct(Listing(S))
           /\ \A x \in S : Contains(Listing(S), x)
<1> DEFINE n == Cardinality(S)
           q == Listing(S)
<1>1. n \in Nat /\ ExistsBijection(1..n, S)
    BY FS_CardinalityType, Zenon
<1>2. PICK b : b \in Bijection(1..n, S)
    BY <1>1, Zenon DEF ExistsBijection
<1>3. b \in [1..n -> S] /\ IsInjective(b)
    BY <1>2, Zenon DEF Bijection, Injection
<1>4. q \in [1..n -> S] /\ IsInjective(q)
    BY <1>3, Zenon DEF Listing
<1> HIDE DEF q, n
<1>5. q \in Seq(S) /\ Len(q) = n
    BY <1>1, <1>4, SMTT(60)
<1>6. Distinct(q)
    BY <1>4, <1>5, Zenon DEF Distinct, IsInjective
<1>7. q \in Injection(1..n, S)
    BY <1>4, Zenon DEF Injection
<1>8. IsFiniteSet(1..n) /\ Cardinality(1..n) = n
    BY <1>1, FS_Interval, SMTT(60)
<1>9. q \in Surjection(1..n, S)
    BY <1>7, <1>8, FS_Injection, ZenonT(60) DEF n
<1>10. \A x \in S : \E i \in 1..n : q[i] = x
    BY <1>9, Zenon DEF Surjection
<1> QED
    BY <1>5, <1>6, <1>10, ContainsAt, ZenonT(60) DEF q

\* shrink_heap goes through the pages downwards, each of them once.
LEMMA DownwardOrder ==
    ASSUME NEW S \in SUBSET Int, IsFiniteSet(S)
    PROVE  /\ Cardinality(S) \in Nat
           /\ Downward(S) \in [1..Cardinality(S) -> S]
           /\ \A i, j \in 1..Cardinality(S) : Downward(S)[i] = Downward(S)[j] => i = j
           /\ \A v \in S : \E i \in 1..Cardinality(S) : Downward(S)[i] = v
<1> DEFINE n == Cardinality(S)
           up(v) == {w \in S : w >= v}
           pos == [v \in S |-> Cardinality(up(v))]
           d == Downward(S)
<1>0. \A u \in S : u \in Int
    BY Zenon
<1>1. n \in Nat
    BY FS_CardinalityType, Zenon
<1>2. \A v \in S : IsFiniteSet(up(v)) /\ Cardinality(up(v)) \in 1..n
    <2> SUFFICES ASSUME NEW v \in S
                 PROVE  IsFiniteSet(up(v)) /\ Cardinality(up(v)) \in 1..n
        BY Zenon
    <2>1. IsFiniteSet(up(v)) /\ Cardinality(up(v)) <= n
        BY FS_Subset, Zenon
    <2>2. Cardinality(up(v)) \in Nat
        BY <2>1, FS_CardinalityType, Zenon
    <2>3. v \in up(v)
        BY SMTT(60)
    <2>4. Cardinality(up(v)) # 0
        BY <2>1, <2>3, FS_EmptySet, ZenonT(60)
    <2> QED
        BY <1>1, <2>1, <2>2, <2>4, SMTT(60)
<1>3. ASSUME NEW v \in S, NEW w \in S, v < w PROVE pos[v] > pos[w]
    <2>1. /\ \A u \in up(w) : u \in up(v)
          /\ v \in up(v) /\ v \notin up(w)
        BY <1>0, <1>3, SMTT(60)
    <2>2. Cardinality(up(w)) <= Cardinality(up(v)) /\ Cardinality(up(v)) # Cardinality(up(w))
        BY <1>2, <2>1, FS_Subset, ZenonT(60)
    <2> QED
        BY <1>1, <1>2, <2>2, SMTT(60)
<1>4. pos \in [S -> 1..n]
    BY <1>2, Zenon
<1> HIDE DEF pos, up
<1>5. \A v, w \in S : pos[v] = pos[w] => v = w
    BY <1>1, <1>3, <1>4, SMTT(60)
<1>6. pos \in Injection(S, 1..n)
    BY <1>4, <1>5, Zenon DEF Injection, IsInjective
<1>7. IsFiniteSet(1..n) /\ Cardinality(1..n) = n
    BY <1>1, FS_Interval, SMTT(60)
<1>8. pos \in Surjection(S, 1..n)
    BY <1>6, <1>7, FS_Injection, Zenon
<1>9. \A i \in 1..n : \E v \in S : pos[v] = i
    BY <1>8, Zenon DEF Surjection
<1> DEFINE e == [i \in 1..n |-> CHOOSE v \in S : pos[v] = i]
<1>10. e \in [1..n -> S] /\ \A i \in 1..n : pos[e[i]] = i
    BY <1>9, Zenon
<1>11. \A i, j \in 1..n : i < j => e[i] > e[j]
    <2> HIDE DEF e
    <2> SUFFICES ASSUME NEW i \in 1..n, NEW j \in 1..n, i < j
                 PROVE  e[i] > e[j]
        BY Zenon
    <2>1. e[i] \in S /\ e[j] \in S /\ pos[e[i]] = i /\ pos[e[j]] = j
        BY <1>10, Zenon
    <2>2. /\ e[i] \in Int /\ e[j] \in Int
          /\ i \in Int /\ j \in Int
        <3>1. e[i] \in Int /\ e[j] \in Int
            BY <1>0, <2>1, Zenon
        <3> QED
            BY <1>1, <3>1, SMTT(60)
    <2>3. ASSUME e[i] < e[j] PROVE FALSE
        <3>1. pos[e[i]] > pos[e[j]]
            BY <1>3, <2>1, <2>3, Zenon
        <3> QED
            BY <2>1, <2>2, <3>1, SMTT(60)
    <2>4. e[i] # e[j]
        BY <2>1, <2>2, SMTT(60)
    <2> QED
        BY <2>2, <2>3, <2>4, SMTT(60)
<1>12. d \in [1..n -> S] /\ \A i, j \in 1..n : i < j => d[i] > d[j]
    BY <1>10, <1>11, Zenon DEF Downward
<1> HIDE DEF d, e
<1>13. \A i, j \in 1..n : d[i] = d[j] => i = j
    <2>0. \A i \in 1..n : d[i] \in Int
        BY <1>0, <1>12, ZenonT(60)
    <2>1. \A i \in 1..n : d[i] \in Int /\ i \in Int
        BY <1>1, <2>0, SMTT(60)
    <2> QED
        BY <1>12, <2>1, SMTT(60)
<1>14. d \in Injection(1..n, S)
    BY <1>12, <1>13, Zenon DEF Injection, IsInjective
<1>15. d \in Surjection(1..n, S)
    BY <1>7, <1>14, FS_Injection, Zenon DEF n
<1> QED
    BY <1>1, <1>12, <1>13, <1>15, ZenonT(60) DEF Surjection, d, n
-----------------------------------------------------------------------------
(* Areas. *)

\* The numbers of pages are integers.
LEMMA Pages ==
    ASSUME VmmAssumption
    PROVE  /\ NumPages \in Nat /\ StackBottom \in Nat /\ 0 < StackBottom /\ StackBottom < NumPages
           /\ \A v \in VPage : v \in Int /\ 0 <= v /\ v < NumPages
    BY SMTT(60) DEF VmmAssumption, VPage

LEMMA AreaInts ==
    ASSUME VmmAssumption, NEW a \in Area
    PROVE  a.start \in Int /\ a.end \in Int /\ a.write \in BOOLEAN
    BY Pages, SMTT(60) DEF Area

\* In disjoint areas, the one that has a page is the first that has it.
LEMMA FirstOnly ==
    ASSUME VmmAssumption, NEW list \in Seq(Area), Disjoint(list), NEW v \in VPage,
           NEW i \in 1..Len(list), In(list[i], v)
    PROVE  Has(list, v) /\ First(list, v) = i
<1>1. v \in Int /\ Len(list) \in Nat
    BY Pages, SMTT(60)
<1>2. \A j \in 1..Len(list) : list[j].start \in Int /\ list[j].end \in Int
    <2> SUFFICES ASSUME NEW j \in 1..Len(list)
                 PROVE  list[j].start \in Int /\ list[j].end \in Int
        BY Zenon
    <2>1. list[j] \in Area
        BY SMTT(60)
    <2> QED
        BY <2>1, Pages, SMTT(60) DEF Area
<1>3. \A j \in 1..Len(list) : In(list[j], v) => j = i
    BY <1>1, <1>2, SMTT(60) DEF In, Disjoint
<1>4. \A j \in 1..(i - 1) : ~In(list[j], v)
    BY <1>1, <1>3, SMTT(60)
<1> DEFINE P(k) == In(list[k], v) /\ \A j \in 1..(k - 1) : ~In(list[j], v)
<1>5. P(i) /\ \A k \in 1..Len(list) : P(k) => k = i
    BY <1>3, <1>4, Zenon
<1> HIDE DEF P
<1>6. (CHOOSE k \in 1..Len(list) : P(k)) = i
    BY <1>5, Zenon
<1> QED
    BY <1>6, Zenon DEF P, First, Has

\* A stack alone, and a stack with a heap below it.
LEMMA StackOnly ==
    ASSUME VmmAssumption
    PROVE  /\ <<StackArea>> \in Seq(Area) /\ Disjoint(<<StackArea>>)
           /\ \A v \in VPage :
                /\ Has(<<StackArea>>, v) <=> v >= StackBottom
                /\ Has(<<StackArea>>, v) => <<StackArea>>[First(<<StackArea>>, v)].write = TRUE
<1> DEFINE list == <<StackArea>>
<1>1. StackArea \in Area
    BY Pages, SMTT(60) DEF StackArea, Area, VPage
<1>2. list \in Seq(Area) /\ Len(list) = 1 /\ list[1] = StackArea
    BY <1>1, SMTT(60)
<1>3. StackArea.start = StackBottom /\ StackArea.end = NumPages /\ StackArea.write = TRUE
    BY Zenon DEF StackArea
<1> HIDE DEF list
<1>4. Disjoint(list)
    BY <1>2, SMTT(60) DEF Disjoint
<1>5. ASSUME NEW v \in VPage
      PROVE  /\ Has(list, v) <=> v >= StackBottom
             /\ Has(list, v) => list[First(list, v)].write = TRUE
    <2>1. In(list[1], v) <=> v >= StackBottom
        BY <1>2, <1>3, Pages, Zenon DEF In
    <2>2. Has(list, v) <=> In(list[1], v)
        BY <1>2, SMTT(60) DEF Has
    <2>3. ASSUME Has(list, v) PROVE First(list, v) = 1
        BY <1>2, <1>4, <2>2, <2>3, FirstOnly, SMTT(60)
    <2> QED
        BY <1>2, <1>3, <2>1, <2>2, <2>3, Zenon
<1> QED
    BY <1>2, <1>4, <1>5, ZenonT(60) DEF list

LEMMA StackAndHeap ==
    ASSUME VmmAssumption, NEW b \in 0..(StackBottom - 1)
    PROVE  LET list == <<StackArea, HeapArea(b)>>
           IN  /\ list \in Seq(Area) /\ Disjoint(list)
               /\ \A v \in VPage : /\ Has(list, v) <=> v >= StackBottom \/ v < b
                                   /\ Has(list, v) => list[First(list, v)].write = TRUE
<1> DEFINE list == <<StackArea, HeapArea(b)>>
<1>0. b \in Int /\ 0 <= b /\ b < StackBottom
    BY Pages, SMTT(60)
<1>1. StackArea \in Area /\ HeapArea(b) \in Area
    BY <1>0, Pages, SMTT(60) DEF StackArea, HeapArea, Area, VPage
<1>2. list \in Seq(Area) /\ Len(list) = 2 /\ list[1] = StackArea /\ list[2] = HeapArea(b)
    BY <1>1, SMTT(60)
<1>3. /\ StackArea.start = StackBottom /\ StackArea.end = NumPages /\ StackArea.write = TRUE
      /\ HeapArea(b).start = 0 /\ HeapArea(b).end = b /\ HeapArea(b).write = TRUE
    BY Zenon DEF StackArea, HeapArea
<1> HIDE DEF list
<1>4. Disjoint(list)
    BY <1>0, <1>2, <1>3, Pages, SMTT(60) DEF Disjoint
<1>5. ASSUME NEW v \in VPage
      PROVE  /\ Has(list, v) <=> v >= StackBottom \/ v < b
             /\ Has(list, v) => list[First(list, v)].write = TRUE
    <2>1. (In(list[1], v) <=> v >= StackBottom) /\ (In(list[2], v) <=> v < b)
        BY <1>0, <1>2, <1>3, Pages, Zenon DEF In
    <2>2. Has(list, v) <=> In(list[1], v) \/ In(list[2], v)
        BY <1>2, SMTT(60) DEF Has
    <2>3. ASSUME Has(list, v) PROVE First(list, v) \in {1, 2}
        BY <1>2, <1>4, <2>2, <2>3, FirstOnly, SMTT(60)
    <2> QED
        BY <1>2, <1>3, <2>1, <2>2, <2>3, Zenon
<1> QED
    BY <1>2, <1>4, <1>5, Zenon DEF list

\* set_heap_end moves the end of the heap, or makes it.
LEMMA HeapMoves ==
    ASSUME VmmAssumption, NEW b \in 0..(StackBottom - 1), NEW c \in 0..(StackBottom - 1)
    PROVE  /\ b > 0 => HeapEnd(<<StackArea>>, b) = <<StackArea, HeapArea(b)>>
           /\ HeapEnd(<<StackArea, HeapArea(c)>>, b) = <<StackArea, HeapArea(b)>>
<1>1. StackArea.start # 0 /\ HeapArea(c).start = 0
    BY Pages, SMTT(60) DEF StackArea, HeapArea
<1>2. ASSUME b > 0 PROVE HeapEnd(<<StackArea>>, b) = <<StackArea, HeapArea(b)>>
    <2> DEFINE list == <<StackArea>>
    <2>1. Len(list) = 1 /\ list[1] = StackArea
        BY Zenon
    <2>2. ~ \E i \in 1..Len(list) : list[i].start = 0
        BY <1>1, <2>1, SMTT(60)
    <2>3. HeapEnd(list, b) = Append(list, HeapArea(b))
        BY <1>2, <2>2, ZenonT(60) DEF HeapEnd, HeapArea
    <2> QED
        BY <2>3, SMTT(60)
<1>3. HeapEnd(<<StackArea, HeapArea(c)>>, b) = <<StackArea, HeapArea(b)>>
    <2> DEFINE list == <<StackArea, HeapArea(c)>>
               P(k) == list[k].start = 0 /\ \A j \in 1..(k - 1) : list[j].start # 0
    <2>1. Len(list) = 2 /\ list[1] = StackArea /\ list[2] = HeapArea(c)
        BY Zenon
    <2>2. P(2) /\ \A k \in 1..Len(list) : P(k) => k = 2
        <3> HIDE DEF list
        <3> QED
            BY <1>1, <2>1, SMTT(60)
    <2>3. 2 \in 1..Len(list) /\ \E i \in 1..Len(list) : list[i].start = 0
        BY <1>1, <2>1, SMTT(60)
    <2>4. (CHOOSE k \in 1..Len(list) : P(k)) = 2
        <3> HIDE DEF list, P
        <3> QED
            BY <2>2, <2>3, ZenonT(60)
    <2>5. HeapEnd(list, b) = [list EXCEPT ![2].end = b]
        <3> HIDE DEF list
        <3> QED
            BY <2>3, <2>4, ZenonT(60) DEF HeapEnd
    <2>6. [HeapArea(c) EXCEPT !.end = b] = HeapArea(b)
        BY SMTT(60) DEF HeapArea
    <2>7. [list EXCEPT ![2].end = b] = <<StackArea, HeapArea(b)>>
        BY <2>6, SMTT(60)
    <2> QED
        BY <2>5, <2>7, ZenonT(60)
<1> QED
    BY <1>2, <1>3, Zenon

\* A part of a list of disjoint areas is replaced by areas that lie in it.
LEMMA Spliced ==
    ASSUME VmmAssumption, NEW list \in Seq(Area), Disjoint(list), NEW i \in 1..Len(list),
           NEW mid \in Seq(Area), Disjoint(mid),
           \A k \in 1..Len(mid) : list[i].start <= mid[k].start /\ mid[k].end <= list[i].end
    PROVE  LET new == SubSeq(list, 1, i - 1) \o mid \o SubSeq(list, i + 1, Len(list))
           IN  /\ new \in Seq(Area) /\ Disjoint(new)
               /\ \A j \in 1..Len(new) :
                    \/ \E k \in 1..Len(list) : k # i /\ new[j] = list[k]
                    \/ \E k \in 1..Len(mid) : new[j] = mid[k]
               /\ \A k \in 1..Len(list) : k # i => \E j \in 1..Len(new) : new[j] = list[k]
               /\ \A k \in 1..Len(mid) : \E j \in 1..Len(new) : new[j] = mid[k]
<1> DEFINE a == SubSeq(list, 1, i - 1)
           z == SubSeq(list, i + 1, Len(list))
           am == a \o mid
           new == am \o z
           n == Len(list)
           m == Len(mid)
<1>1. n \in Nat /\ m \in Nat /\ i \in Int /\ 1 <= i /\ i <= n
    BY SMTT(60)
<1>2. /\ \A j \in 1..n : list[j] \in Area
      /\ \A j \in 1..m : mid[j] \in Area
    BY SMTT(60)
<1>3. /\ a \in Seq(Area) /\ Len(a) = i - 1
      /\ \A j \in 1..(i - 1) : a[j] = list[j]
    <2>1. \A j \in 1..(i - 1) : list[j] \in Area
        BY <1>1, <1>2, SMTT(60)
    <2>2. i - 1 \in Int /\ 1 \in Int /\ (i - 1) - 1 + 1 = i - 1
        BY <1>1, SMTT(60)
    <2>3. /\ a \in Seq(Area) /\ Len(a) = IF 1 <= i - 1 THEN (i - 1) - 1 + 1 ELSE 0
          /\ \A j \in 1..((i - 1) - 1 + 1) : a[j] = list[1 + j - 1]
        BY <2>1, <2>2, SubSeqProperties, SMTT(60)
    <2> HIDE DEF a
    <2>4. Len(a) = i - 1
        BY <1>1, <2>3, SMTT(60)
    <2>5. \A j \in 1..(i - 1) : 1 + j - 1 = j
        BY <1>1, SMTT(60)
    <2> QED
        BY <2>2, <2>3, <2>4, <2>5, Zenon
<1>4. /\ z \in Seq(Area) /\ Len(z) = n - i
      /\ \A j \in 1..(n - i) : z[j] = list[i + j]
    <2>1. \A j \in (i + 1)..n : list[j] \in Area
        BY <1>1, <1>2, SMTT(60)
    <2>2. i + 1 \in Int /\ n \in Int /\ n - (i + 1) + 1 = n - i
        BY <1>1, SMTT(60)
    <2>3. /\ z \in Seq(Area) /\ Len(z) = IF i + 1 <= n THEN n - (i + 1) + 1 ELSE 0
          /\ \A j \in 1..(n - (i + 1) + 1) : z[j] = list[(i + 1) + j - 1]
        BY <2>1, <2>2, SubSeqProperties, SMTT(60)
    <2> HIDE DEF z, n
    <2>4. Len(z) = n - i
        BY <1>1, <2>3, SMTT(60)
    <2>5. \A j \in 1..(n - i) : (i + 1) + j - 1 = i + j
        BY <1>1, SMTT(60)
    <2> QED
        BY <2>2, <2>3, <2>4, <2>5, Zenon
<1> HIDE DEF a, z, n, m
<1>5. /\ am \in Seq(Area) /\ Len(am) = i - 1 + m
      /\ \A j \in 1..(i - 1 + m) : am[j] = IF j <= i - 1 THEN list[j] ELSE mid[j - (i - 1)]
    <2>1. /\ am \in Seq(Area) /\ Len(am) = Len(a) + m
          /\ \A j \in 1..(Len(a) + m) : am[j] = IF j <= Len(a) THEN a[j] ELSE mid[j - Len(a)]
        BY <1>3, ConcatProperties, ZenonT(60) DEF m
    <2> HIDE DEF am
    <2> QED
        BY <1>1, <1>3, <2>1, SMTT(60)
<1> HIDE DEF am
<1>6. /\ new \in Seq(Area) /\ Len(new) = m + n - 1
      /\ \A j \in 1..(m + n - 1) :
           new[j] = IF j <= i - 1 THEN list[j]
                    ELSE IF j <= i - 1 + m THEN mid[j - (i - 1)] ELSE list[j - m + 1]
    <2>1. /\ new \in Seq(Area) /\ Len(new) = Len(am) + Len(z)
          /\ \A j \in 1..(Len(am) + Len(z)) : new[j] = IF j <= Len(am) THEN am[j] ELSE z[j - Len(am)]
        BY <1>4, <1>5, ConcatProperties, ZenonT(60)
    <2> HIDE DEF new
    <2>2. Len(am) + Len(z) = m + n - 1
        BY <1>1, <1>4, <1>5, SMTT(60)
    <2>3. ASSUME NEW j \in 1..(m + n - 1)
          PROVE  new[j] = IF j <= i - 1 THEN list[j]
                          ELSE IF j <= i - 1 + m THEN mid[j - (i - 1)] ELSE list[j - m + 1]
        <3>1. CASE j <= i - 1 + m
            <4>1. j \in 1..(i - 1 + m)
                BY <1>1, <3>1, SMTT(60)
            <4>2. new[j] = am[j]
                BY <1>5, <2>1, <2>2, <3>1, Zenon
            <4> QED
                BY <1>1, <1>5, <4>1, <4>2, SMTT(60)
        <3>2. CASE j > i - 1 + m
            <4>1. /\ j - (i - 1 + m) \in 1..(n - i) /\ i + (j - (i - 1 + m)) = j - m + 1
                  /\ ~(j <= i - 1 + m) /\ ~(j <= i - 1)
                BY <1>1, <3>2, SMTT(60)
            <4>2. new[j] = z[j - (i - 1 + m)]
                BY <1>5, <2>1, <2>2, <4>1, ZenonT(60)
            <4> QED
                BY <1>4, <4>1, <4>2, ZenonT(60)
        <3> QED
            BY <1>1, <3>1, <3>2, SMTT(60)
    <2> QED
        BY <2>1, <2>2, <2>3, ZenonT(60)
<1> HIDE DEF new
\* Where an area of the new list comes from.
<1>7. ASSUME NEW j \in 1..Len(new)
      PROVE  \/ j < i /\ j \in 1..n /\ new[j] = list[j]
             \/ i <= j /\ j < i + m /\ j - (i - 1) \in 1..m /\ new[j] = mid[j - (i - 1)]
             \/ i + m <= j /\ j - m + 1 \in 1..n /\ j - m + 1 > i /\ new[j] = list[j - m + 1]
    <2>1. j \in 1..(m + n - 1) /\ j \in Int
        BY <1>1, <1>6, SMTT(60)
    <2> QED
        BY <1>1, <1>6, <2>1, SMTT(60)
<1>8. \A j \in 1..Len(new) : \/ \E k \in 1..n : k # i /\ new[j] = list[k]
                             \/ \E k \in 1..m : new[j] = mid[k]
    BY <1>1, <1>7, SMTT(60)
<1>9. ASSUME NEW k \in 1..n, k # i PROVE \E j \in 1..Len(new) : new[j] = list[k]
    <2>1. CASE k < i
        <3>1. k \in 1..Len(new) /\ new[k] = list[k]
            BY <1>1, <1>6, <2>1, SMTT(60)
        <3> QED
            BY <3>1, Zenon
    <2>2. CASE k > i
        <3>1. /\ k + m - 1 \in 1..(m + n - 1) /\ ~(k + m - 1 <= i - 1) /\ ~(k + m - 1 <= i - 1 + m)
              /\ (k + m - 1) - m + 1 = k
            BY <1>1, <2>2, SMTT(60)
        <3>2. k + m - 1 \in 1..Len(new) /\ new[k + m - 1] = list[k]
            BY <1>6, <3>1, ZenonT(60)
        <3> QED
            BY <3>2, Zenon
    <2> QED
        BY <1>1, <1>9, <2>1, <2>2, SMTT(60)
<1>10. ASSUME NEW k \in 1..m PROVE \E j \in 1..Len(new) : new[j] = mid[k]
    <2>1. /\ k + i - 1 \in 1..(m + n - 1) /\ ~(k + i - 1 <= i - 1) /\ k + i - 1 <= i - 1 + m
          /\ (k + i - 1) - (i - 1) = k
        BY <1>1, SMTT(60)
    <2>2. k + i - 1 \in 1..Len(new) /\ new[k + i - 1] = mid[k]
        BY <1>6, <2>1, Zenon
    <2> QED
        BY <2>2, Zenon
<1>11. Disjoint(new)
    <2> DEFINE Apart2(x, y) == x.end <= y.start \/ y.end <= x.start
    <2>1. /\ \A j, k \in 1..n : j # k => Apart2(list[j], list[k])
          /\ \A j, k \in 1..m : j # k => Apart2(mid[j], mid[k])
        BY Zenon DEF Disjoint, n, m
    <2>2. \A j \in 1..n, k \in 1..m : j # i => Apart2(list[j], mid[k]) /\ Apart2(mid[k], list[j])
        <3> SUFFICES ASSUME NEW j \in 1..n, NEW k \in 1..m, j # i
                     PROVE  Apart2(list[j], mid[k]) /\ Apart2(mid[k], list[j])
            BY Zenon
        <3>1. Apart2(list[j], list[i])
            BY <1>1, <2>1, SMTT(60)
        <3>2. list[i].start <= mid[k].start /\ mid[k].end <= list[i].end
            BY Zenon DEF m
        <3>3. list[j] \in Area /\ list[i] \in Area /\ mid[k] \in Area
            BY <1>1, <1>2, ZenonT(60) DEF n, m
        <3>4. /\ list[j].start \in Int /\ list[j].end \in Int /\ list[i].start \in Int
              /\ list[i].end \in Int /\ mid[k].start \in Int /\ mid[k].end \in Int
            BY <3>3, AreaInts, ZenonT(60)
        <3> QED
            BY <3>1, <3>2, <3>4, SMTT(60)
    <2> HIDE DEF Apart2
    <2>3. ASSUME NEW j \in 1..Len(new), NEW k \in 1..Len(new), j # k PROVE Apart2(new[j], new[k])
        <3>0. j \in Int /\ k \in Int
            BY <1>6, SMTT(60)
        <3>1. CASE j < i /\ j \in 1..n /\ new[j] = list[j]
            <4>1. CASE k < i /\ k \in 1..n /\ new[k] = list[k]
                BY <2>1, <2>3, <3>1, <4>1, ZenonT(60)
            <4>2. CASE i <= k /\ k < i + m /\ k - (i - 1) \in 1..m /\ new[k] = mid[k - (i - 1)]
                <5>1. j # i
                    BY <1>1, <3>0, <3>1, <4>2, SMTT(60)
                <5> QED
                    BY <2>2, <3>1, <4>2, <5>1, ZenonT(60)
            <4>3. CASE i + m <= k /\ k - m + 1 \in 1..n /\ k - m + 1 > i /\ new[k] = list[k - m + 1]
                <5>1. j # k - m + 1
                    BY <1>1, <3>0, <3>1, <4>3, SMTT(60)
                <5> QED
                    BY <2>1, <3>1, <4>3, <5>1, ZenonT(60)
            <4> QED
                BY <1>7, <4>1, <4>2, <4>3, ZenonT(60)
        <3>2. CASE i <= j /\ j < i + m /\ j - (i - 1) \in 1..m /\ new[j] = mid[j - (i - 1)]
            <4>1. CASE k < i /\ k \in 1..n /\ new[k] = list[k]
                <5>1. k # i
                    BY <1>1, <3>0, <3>2, <4>1, SMTT(60)
                <5> QED
                    BY <2>2, <3>2, <4>1, <5>1, ZenonT(60)
            <4>2. CASE i <= k /\ k < i + m /\ k - (i - 1) \in 1..m /\ new[k] = mid[k - (i - 1)]
                <5>1. j - (i - 1) # k - (i - 1)
                    BY <1>1, <2>3, <3>0, <3>2, <4>2, SMTT(60)
                <5> QED
                    BY <2>1, <3>2, <4>2, <5>1, ZenonT(60)
            <4>3. CASE i + m <= k /\ k - m + 1 \in 1..n /\ k - m + 1 > i /\ new[k] = list[k - m + 1]
                <5>1. k - m + 1 # i
                    BY <1>1, <3>0, <3>2, <4>3, SMTT(60)
                <5> QED
                    BY <2>2, <3>2, <4>3, <5>1, ZenonT(60)
            <4> QED
                BY <1>7, <4>1, <4>2, <4>3, ZenonT(60)
        <3>3. CASE i + m <= j /\ j - m + 1 \in 1..n /\ j - m + 1 > i /\ new[j] = list[j - m + 1]
            <4>1. CASE k < i /\ k \in 1..n /\ new[k] = list[k]
                <5>1. j - m + 1 # k
                    BY <1>1, <3>0, <3>3, <4>1, SMTT(60)
                <5> QED
                    BY <2>1, <3>3, <4>1, <5>1, ZenonT(60)
            <4>2. CASE i <= k /\ k < i + m /\ k - (i - 1) \in 1..m /\ new[k] = mid[k - (i - 1)]
                <5>1. j - m + 1 # i
                    BY <1>1, <3>0, <3>3, <4>2, SMTT(60)
                <5> QED
                    BY <2>2, <3>3, <4>2, <5>1, ZenonT(60)
            <4>3. CASE i + m <= k /\ k - m + 1 \in 1..n /\ k - m + 1 > i /\ new[k] = list[k - m + 1]
                <5>1. j - m + 1 # k - m + 1
                    BY <1>1, <2>3, <3>0, <3>3, <4>3, SMTT(60)
                <5> QED
                    BY <2>1, <3>3, <4>3, <5>1, ZenonT(60)
            <4> QED
                BY <1>7, <4>1, <4>2, <4>3, ZenonT(60)
        <3> QED
            BY <1>7, <3>1, <3>2, <3>3, ZenonT(60)
    <2> QED
        BY <2>3, Zenon DEF Disjoint, Apart2
<1> QED
    BY <1>6, <1>8, <1>9, <1>10, <1>11, Zenon DEF new, am, a, z, n, m

LEMMA Joined ==
    ASSUME NEW x, NEW y, NEW z
    PROVE  /\ << >> \o <<y>> \o << >> = <<y>> /\ <<x>> \o <<y>> \o << >> = <<x, y>>
           /\ << >> \o <<y>> \o <<z>> = <<y, z>> /\ <<x>> \o <<y>> \o <<z>> = <<x, y, z>>
<1>1. ASSUME NEW u, NEW w PROVE <<u>> \o <<w>> = <<u, w>>
    <2> DEFINE s == <<u>> \o <<w>>
               t == <<u, w>>
               S == {u, w}
    <2>1. <<u>> \in Seq(S) /\ <<w>> \in Seq(S) /\ t \in Seq(S) /\ Len(<<u>>) = 1 /\ Len(<<w>>) = 1
        BY SMTT(60)
    <2>2. /\ s \in Seq(S) /\ Len(s) = 2
          /\ \A i \in 1..2 : s[i] = IF i <= 1 THEN <<u>>[i] ELSE <<w>>[i - 1]
        <3> HIDE DEF S
        <3> QED
            BY <2>1, ConcatProperties, SMTT(60)
    <2>3. s[1] = u /\ s[2] = w
        <3> HIDE DEF s
        <3> QED
            BY <2>2, SMTT(60)
    <2>4. Len(t) = 2 /\ t[1] = u /\ t[2] = w
        BY Zenon
    <2> HIDE DEF s, t, S
    <2>5. \A i \in 1..Len(s) : s[i] = t[i]
        BY <2>2, <2>3, <2>4, SMTT(60)
    <2>6. s = t
        BY <2>1, <2>2, <2>4, <2>5, SeqEqual, Zenon
    <2> QED
        BY <2>6, Zenon DEF s, t
<1>4. <<x, y>> \o <<z>> = <<x, y, z>>
    <2> DEFINE s == <<x, y>> \o <<z>>
               t == <<x, y, z>>
               S == {x, y, z}
    <2>1. <<x, y>> \in Seq(S) /\ <<z>> \in Seq(S) /\ t \in Seq(S) /\ Len(<<x, y>>) = 2 /\ Len(<<z>>) = 1
        BY SMTT(60)
    <2>2. /\ s \in Seq(S) /\ Len(s) = 3
          /\ \A i \in 1..3 : s[i] = IF i <= 2 THEN <<x, y>>[i] ELSE <<z>>[i - 2]
        <3> HIDE DEF S
        <3> QED
            BY <2>1, ConcatProperties, SMTT(60)
    <2>3. s[1] = x /\ s[2] = y /\ s[3] = z
        <3> HIDE DEF s
        <3> QED
            BY <2>2, SMTT(60)
    <2>4. Len(t) = 3 /\ t[1] = x /\ t[2] = y /\ t[3] = z
        BY Zenon
    <2> HIDE DEF s, t, S
    <2>5. \A i \in 1..Len(s) : s[i] = t[i]
        BY <2>2, <2>3, <2>4, SMTT(60)
    <2>6. s = t
        BY <2>1, <2>2, <2>4, <2>5, SeqEqual, Zenon
    <2> QED
        BY <2>6, Zenon DEF s, t
<1>2. <<y>> \in Seq({x, y}) /\ <<x, y>> \in Seq({x, y})
    BY SMTT(60)
<1>3. << >> \o <<y>> = <<y>> /\ <<y>> \o << >> = <<y>> /\ <<x, y>> \o << >> = <<x, y>>
    BY <1>2, ConcatEmptySeq, Zenon
<1> QED
    BY <1>1, <1>3, <1>4, ZenonT(60)

\* The up to three areas that mprotect makes of one: together they have its pages,
\* and those of the range have the new right.
LEMMA SplitParts ==
    ASSUME VmmAssumption, NEW a \in Area, NEW first \in VPage, NEW end \in 1..NumPages,
           NEW write \in BOOLEAN, a.start <= first, first < end, end <= a.end
    PROVE  LET mid == Split(a, first, end, write)
           IN  /\ mid \in Seq(Area) /\ Disjoint(mid)
               /\ \A k \in 1..Len(mid) : a.start <= mid[k].start /\ mid[k].end <= a.end
               /\ \A v \in VPage : In(a, v) <=> \E k \in 1..Len(mid) : In(mid[k], v)
               /\ \A v \in VPage, k \in 1..Len(mid) :
                    In(mid[k], v) => mid[k].write = IF v \in first..(end - 1) THEN write ELSE a.write
<1> DEFINE h == [a EXCEPT !.end = first]
           m == [start |-> first, end |-> end, write |-> write]
           t == [a EXCEPT !.start = end]
           mid == Split(a, first, end, write)
           Good(s) ==
             /\ s \in Seq(Area) /\ Disjoint(s)
             /\ \A k \in 1..Len(s) : a.start <= s[k].start /\ s[k].end <= a.end
             /\ \A v \in VPage : In(a, v) <=> \E k \in 1..Len(s) : In(s[k], v)
             /\ \A v \in VPage, k \in 1..Len(s) :
                  In(s[k], v) => s[k].write = IF v \in first..(end - 1) THEN write ELSE a.write
<1>1. /\ a.start \in Int /\ a.end \in Int /\ first \in Int /\ end \in Int
      /\ 0 <= a.start /\ a.end <= NumPages /\ NumPages \in Int
      /\ \A v \in VPage : v \in Int
    BY Pages, SMTT(60) DEF Area, VPage
<1>2. /\ h.start = a.start /\ h.end = first /\ h.write = a.write
      /\ m.start = first /\ m.end = end /\ m.write = write
      /\ t.start = end /\ t.end = a.end /\ t.write = a.write
    BY Zenon DEF Area
<1>3. h \in Area /\ m \in Area
    BY <1>1, SMTT(60) DEF Area, VPage
<1>4. end < a.end => t \in Area
    BY <1>1, SMTT(60) DEF Area, VPage
<1>5. mid = (IF first > a.start THEN <<h>> ELSE << >>) \o <<m>> \o (IF end < a.end THEN <<t>> ELSE << >>)
    BY Zenon DEF Split
<1> HIDE DEF h, m, t, mid
<1>6. \A v \in VPage : /\ In(h, v) <=> a.start <= v /\ v < first
                       /\ In(m, v) <=> v \in first..(end - 1)
                       /\ In(t, v) <=> end <= v /\ v < a.end
                       /\ In(a, v) <=> a.start <= v /\ v < a.end
    <2> SUFFICES ASSUME NEW v \in VPage
                 PROVE  /\ In(h, v) <=> a.start <= v /\ v < first
                        /\ In(m, v) <=> v \in first..(end - 1)
                        /\ In(t, v) <=> end <= v /\ v < a.end
                        /\ In(a, v) <=> a.start <= v /\ v < a.end
        BY Zenon
    <2>1. v \in Int
        BY <1>1, Zenon
    <2>2. In(h, v) <=> a.start <= v /\ v < first
        BY <1>2, Zenon DEF In
    <2>3. In(m, v) <=> v \in first..(end - 1)
        BY <1>1, <1>2, <2>1, SMTT(60) DEF In
    <2>4. In(t, v) <=> end <= v /\ v < a.end
        BY <1>2, Zenon DEF In
    <2> QED
        BY <2>2, <2>3, <2>4, Zenon DEF In
<1> SUFFICES Good(mid)
    BY Zenon DEF mid
<1>7. CASE first > a.start /\ end < a.end
    <2> DEFINE s == <<h, m, t>>
    <2>1. mid = s
        <3>1. mid = <<h>> \o <<m>> \o <<t>>
            BY <1>5, <1>7, ZenonT(60)
        <3>2. <<h>> \o <<m>> \o <<t>> = <<h, m, t>>
            BY Joined, SMTT(60)
        <3> QED
            BY <3>1, <3>2, ZenonT(60)
    <2>2. s \in Seq(Area) /\ Len(s) = 3 /\ s[1] = h /\ s[2] = m /\ s[3] = t
        BY <1>3, <1>4, <1>7, SMTT(60)
    <2> HIDE DEF s
    <2>3. \A k \in 1..Len(s) : k = 1 \/ k = 2 \/ k = 3
        BY <2>2, SMTT(60)
    <2>4. Disjoint(s)
        BY <1>1, <1>2, <2>2, <2>3, SMTT(60) DEF Disjoint
    <2>5. \A k \in 1..Len(s) : a.start <= s[k].start /\ s[k].end <= a.end
        BY <1>1, <1>2, <2>2, <2>3, SMTT(60)
    <2>6. \A v \in VPage : In(a, v) <=> In(h, v) \/ In(m, v) \/ In(t, v)
        BY <1>1, <1>6, SMTT(60)
    <2>7. \A v \in VPage : In(a, v) <=> \E k \in 1..Len(s) : In(s[k], v)
        BY <2>2, <2>3, <2>6, SMTT(60)
    <2>8. \A v \in VPage, k \in 1..Len(s) :
                  In(s[k], v) => s[k].write = IF v \in first..(end - 1) THEN write ELSE a.write
        BY <1>1, <1>2, <1>6, <2>2, <2>3, SMTT(60)
    <2> QED
        BY <2>1, <2>2, <2>4, <2>5, <2>7, <2>8, ZenonT(60)
<1>8. CASE first > a.start /\ ~(end < a.end)
    <2> DEFINE s == <<h, m>>
    <2>1. mid = s
        <3>1. mid = <<h>> \o <<m>> \o << >>
            BY <1>5, <1>8, ZenonT(60)
        <3> QED
            BY <3>1, Joined, ZenonT(60)
    <2>2. s \in Seq(Area) /\ Len(s) = 2 /\ s[1] = h /\ s[2] = m
        BY <1>3, SMTT(60)
    <2> HIDE DEF s
    <2>3. \A k \in 1..Len(s) : k = 1 \/ k = 2
        BY <2>2, SMTT(60)
    <2>4. Disjoint(s)
        BY <1>1, <1>2, <2>2, <2>3, SMTT(60) DEF Disjoint
    <2>5. \A k \in 1..Len(s) : a.start <= s[k].start /\ s[k].end <= a.end
        BY <1>1, <1>2, <2>2, <2>3, SMTT(60)
    <2>6. \A v \in VPage : In(a, v) <=> In(h, v) \/ In(m, v)
        BY <1>1, <1>6, <1>8, SMTT(60)
    <2>7. \A v \in VPage : In(a, v) <=> \E k \in 1..Len(s) : In(s[k], v)
        BY <2>2, <2>3, <2>6, SMTT(60)
    <2>8. \A v \in VPage, k \in 1..Len(s) :
                  In(s[k], v) => s[k].write = IF v \in first..(end - 1) THEN write ELSE a.write
        BY <1>1, <1>2, <1>6, <2>2, <2>3, SMTT(60)
    <2> QED
        BY <2>1, <2>2, <2>4, <2>5, <2>7, <2>8, ZenonT(60)
<1>9. CASE ~(first > a.start) /\ end < a.end
    <2> DEFINE s == <<m, t>>
    <2>1. mid = s
        <3>1. mid = << >> \o <<m>> \o <<t>>
            BY <1>5, <1>9, ZenonT(60)
        <3> QED
            BY <3>1, Joined, ZenonT(60)
    <2>2. s \in Seq(Area) /\ Len(s) = 2 /\ s[1] = m /\ s[2] = t
        BY <1>3, <1>4, <1>9, SMTT(60)
    <2> HIDE DEF s
    <2>3. \A k \in 1..Len(s) : k = 1 \/ k = 2
        BY <2>2, SMTT(60)
    <2>4. Disjoint(s)
        BY <1>1, <1>2, <2>2, <2>3, SMTT(60) DEF Disjoint
    <2>5. \A k \in 1..Len(s) : a.start <= s[k].start /\ s[k].end <= a.end
        BY <1>1, <1>2, <2>2, <2>3, SMTT(60)
    <2>6. \A v \in VPage : In(a, v) <=> In(m, v) \/ In(t, v)
        BY <1>1, <1>6, <1>9, SMTT(60)
    <2>7. \A v \in VPage : In(a, v) <=> \E k \in 1..Len(s) : In(s[k], v)
        BY <2>2, <2>3, <2>6, SMTT(60)
    <2>8. \A v \in VPage, k \in 1..Len(s) :
                  In(s[k], v) => s[k].write = IF v \in first..(end - 1) THEN write ELSE a.write
        BY <1>1, <1>2, <1>6, <2>2, <2>3, SMTT(60)
    <2> QED
        BY <2>1, <2>2, <2>4, <2>5, <2>7, <2>8, Zenon
<1>10. CASE ~(first > a.start) /\ ~(end < a.end)
    <2> DEFINE s == <<m>>
    <2>1. mid = s
        <3>1. mid = << >> \o <<m>> \o << >>
            BY <1>5, <1>10, Zenon
        <3> QED
            BY <3>1, Joined, ZenonT(60)
    <2>2. s \in Seq(Area) /\ Len(s) = 1 /\ s[1] = m
        BY <1>3, SMTT(60)
    <2> HIDE DEF s
    <2>3. \A k \in 1..Len(s) : k = 1
        BY <2>2, SMTT(60)
    <2>4. Disjoint(s)
        BY <2>3, ZenonT(60) DEF Disjoint
    <2>5. \A k \in 1..Len(s) : a.start <= s[k].start /\ s[k].end <= a.end
        BY <1>1, <1>2, <2>2, <2>3, ZenonT(60)
    <2>6. \A v \in VPage : In(a, v) <=> In(m, v)
        BY <1>1, <1>6, <1>10, SMTT(60)
    <2>7. \A v \in VPage : In(a, v) <=> \E k \in 1..Len(s) : In(s[k], v)
        BY <2>2, <2>3, <2>6, SMTT(60)
    <2>8. \A v \in VPage, k \in 1..Len(s) :
                  In(s[k], v) => s[k].write = IF v \in first..(end - 1) THEN write ELSE a.write
        BY <1>1, <1>2, <1>6, <2>2, <2>3, ZenonT(60)
    <2> QED
        BY <2>1, <2>2, <2>4, <2>5, <2>7, <2>8, ZenonT(60)
<1> QED
    <2> HIDE DEF Good
    <2> QED
        BY <1>7, <1>8, <1>9, <1>10, ZenonT(60)

\* What mprotect does to a list of disjoint areas: the same pages are in areas, and
\* the right of those in the range alone changes.
LEMMA ProtectSound ==
    ASSUME VmmAssumption, NEW list \in Seq(Area), Disjoint(list), NEW first \in VPage,
           NEW end \in 1..NumPages, NEW write \in BOOLEAN, first < end,
           Has(list, first), end <= list[First(list, first)].end
    PROVE  LET new == Protect(list, first, end, write)
           IN  /\ new \in Seq(Area) /\ Disjoint(new)
               /\ \A v \in VPage :
                    /\ Has(new, v) <=> Has(list, v)
                    /\ Has(list, v) =>
                         new[First(new, v)].write = IF v \in first..(end - 1) THEN write
                                                    ELSE list[First(list, v)].write
                    /\ v \in first..(end - 1) => Has(list, v)
<1> DEFINE new == Protect(list, first, end, write)
<1>1. PICK i \in 1..Len(list) : In(list[i], first)
    BY Zenon DEF Has
<1>2. First(list, first) = i
    BY <1>1, FirstOnly, ZenonT(60)
<1> DEFINE a == list[i]
           mid == Split(a, first, end, write)
<1>3. a \in Area /\ a.start <= first /\ end <= a.end
    BY <1>1, <1>2, SMTT(60) DEF In
<1> HIDE DEF a
<1>4. /\ mid \in Seq(Area) /\ Disjoint(mid)
      /\ \A k \in 1..Len(mid) : a.start <= mid[k].start /\ mid[k].end <= a.end
      /\ \A v \in VPage : In(a, v) <=> \E k \in 1..Len(mid) : In(mid[k], v)
      /\ \A v \in VPage, k \in 1..Len(mid) :
           In(mid[k], v) => mid[k].write = IF v \in first..(end - 1) THEN write ELSE a.write
    BY <1>3, SplitParts, SMTT(60)
<1>5. new = SubSeq(list, 1, i - 1) \o mid \o SubSeq(list, i + 1, Len(list))
    BY <1>2, Zenon DEF Protect, a
<1> HIDE DEF mid, new
<1>6. /\ new \in Seq(Area) /\ Disjoint(new)
      /\ \A j \in 1..Len(new) : \/ \E k \in 1..Len(list) : k # i /\ new[j] = list[k]
                                \/ \E k \in 1..Len(mid) : new[j] = mid[k]
      /\ \A k \in 1..Len(list) : k # i => \E j \in 1..Len(new) : new[j] = list[k]
      /\ \A k \in 1..Len(mid) : \E j \in 1..Len(new) : new[j] = mid[k]
    <2>1. \A k \in 1..Len(mid) : list[i].start <= mid[k].start /\ mid[k].end <= list[i].end
        BY <1>4, Zenon DEF a
    <2>2. LET s == SubSeq(list, 1, i - 1) \o mid \o SubSeq(list, i + 1, Len(list))
          IN  /\ s \in Seq(Area) /\ Disjoint(s)
              /\ \A j \in 1..Len(s) : \/ \E k \in 1..Len(list) : k # i /\ s[j] = list[k]
                                      \/ \E k \in 1..Len(mid) : s[j] = mid[k]
              /\ \A k \in 1..Len(list) : k # i => \E j \in 1..Len(s) : s[j] = list[k]
              /\ \A k \in 1..Len(mid) : \E j \in 1..Len(s) : s[j] = mid[k]
        BY <1>4, <2>1, Spliced, ZenonT(60)
    <2> QED
        BY <1>5, <2>2, Zenon
<1>7. ASSUME NEW v \in VPage, Has(new, v) PROVE Has(list, v)
    <2>1. PICK j \in 1..Len(new) : In(new[j], v)
        BY <1>7, Zenon DEF Has
    <2>2. CASE \E k \in 1..Len(list) : k # i /\ new[j] = list[k]
        BY <2>1, <2>2, Zenon DEF Has
    <2>3. CASE \E k \in 1..Len(mid) : new[j] = mid[k]
        <3>1. In(a, v)
            BY <1>4, <2>1, <2>3, Zenon
        <3> QED
            BY <3>1, Zenon DEF Has, a
    <2> QED
        BY <1>6, <2>2, <2>3, Zenon
<1>8. ASSUME NEW v \in VPage, Has(list, v)
      PROVE  /\ Has(new, v)
             /\ new[First(new, v)].write = IF v \in first..(end - 1) THEN write
                                           ELSE list[First(list, v)].write
    <2>1. PICK k \in 1..Len(list) : In(list[k], v)
        BY <1>8, Zenon DEF Has
    <2>2. First(list, v) = k
        BY <2>1, FirstOnly, ZenonT(60)
    <2>3. CASE k # i
        <3>1. PICK j \in 1..Len(new) : new[j] = list[k]
            BY <1>6, <2>3, ZenonT(60)
        <3>2. Has(new, v) /\ First(new, v) = j
            BY <1>6, <2>1, <3>1, FirstOnly, ZenonT(60)
        <3>3. ~In(a, v)
            <4>1. list[k].end <= a.start \/ a.end <= list[k].start
                BY <2>3, Zenon DEF Disjoint, a
            <4>2. list[k] \in Area
                BY SMTT(60)
            <4>3. a.start \in Int /\ a.end \in Int /\ list[k].start \in Int /\ list[k].end \in Int /\ v \in Int
                BY <1>3, <4>2, AreaInts, Pages, ZenonT(60)
            <4> QED
                BY <2>1, <4>1, <4>3, SMTT(60) DEF In
        <3>4. v \notin first..(end - 1)
            <4>1. a.start \in Int /\ a.end \in Int /\ v \in Int /\ first \in Int /\ end \in Int
                BY <1>3, AreaInts, Pages, SMTT(60)
            <4> QED
                BY <1>3, <3>3, <4>1, SMTT(60) DEF In
        <3> QED
            BY <2>2, <3>1, <3>2, <3>4, ZenonT(60)
    <2>4. CASE k = i
        <3>1. In(a, v)
            BY <2>1, <2>4, ZenonT(60) DEF a
        <3>2. PICK l \in 1..Len(mid) : In(mid[l], v)
            BY <1>4, <3>1, ZenonT(60)
        <3>3. mid[l].write = IF v \in first..(end - 1) THEN write ELSE a.write
            BY <1>4, <3>2, ZenonT(60)
        <3>4. PICK j \in 1..Len(new) : new[j] = mid[l]
            BY <1>6, ZenonT(60)
        <3>5. Has(new, v) /\ First(new, v) = j
            BY <1>6, <3>2, <3>4, FirstOnly, ZenonT(60)
        <3> QED
            BY <2>2, <2>4, <3>3, <3>4, <3>5, ZenonT(60) DEF a
    <2> QED
        BY <2>3, <2>4, ZenonT(60)
<1>9. ASSUME NEW v \in VPage, v \in first..(end - 1) PROVE Has(list, v)
    <2>1. a.start \in Int /\ a.end \in Int /\ v \in Int /\ first \in Int /\ end \in Int
        BY <1>3, AreaInts, Pages, SMTT(60)
    <2>2. In(a, v)
        BY <1>3, <1>9, <2>1, SMTT(60) DEF In
    <2> QED
        BY <2>2, Zenon DEF Has, a
<1> QED
    BY <1>6, <1>7, <1>8, <1>9, ZenonT(60) DEF new
-----------------------------------------------------------------------------
(* The invariant, action by action. *)

\* The areas of a live process without mprotect: a stack, or a stack and a heap.
LEMMA ListFacts ==
    ASSUME VmmAssumption, NEW b \in 0..(StackBottom - 1), NEW list,
           (list = <<StackArea>> /\ b = 0) \/ list = <<StackArea, HeapArea(b)>>
    PROVE  /\ list \in Seq(Area) /\ Disjoint(list)
           /\ \A v \in VPage : /\ Has(list, v) <=> v >= StackBottom \/ v < b
                               /\ Has(list, v) => list[First(list, v)].write = TRUE
<1>1. CASE list = <<StackArea>> /\ b = 0
    <2>1. \A v \in VPage : ~(v < 0)
        BY Pages, SMTT(60)
    <2> QED
        BY <1>1, <2>1, StackOnly, ZenonT(60)
<1>2. CASE list = <<StackArea, HeapArea(b)>>
    BY <1>2, StackAndHeap, ZenonT(60)
<1> QED
    BY <1>1, <1>2, ZenonT(60)

\* What the invariant says of one page.
LEMMA AreaFacts ==
    ASSUME VmInv, NEW p \in Proc, NEW v \in VPage
    PROVE  /\ HasArea(p, v) <=> p \in live /\ (v >= StackBottom \/ v < brk[p])
           /\ HasArea(p, v) => AreaOf(p, v) \in Area
           /\ HasArea(p, v) /\ "mprotect" \notin ops => AreaOf(p, v).write = TRUE
<1>1. /\ VmmAssumption /\ areas[p] \in Seq(Area) /\ Disjoint(areas[p]) /\ brk[p] \in 0..(StackBottom - 1)
      /\ p \notin live => areas[p] = << >>
      /\ "mprotect" \in ops /\ p \in live => brk[p] = 0 /\ (Has(areas[p], v) <=> v >= StackBottom)
      /\ "mprotect" \notin ops /\ p \in live => \/ areas[p] = <<StackArea>> /\ brk[p] = 0
                                                \/ areas[p] = <<StackArea, HeapArea(brk[p])>>
    BY Zenon DEF VmInv, TypeOK, AreaInv
<1>2. v \in Int /\ 0 <= v
    BY <1>1, Pages, ZenonT(60)
<1>3. p \notin live => ~HasArea(p, v)
    BY <1>1, SMTT(60) DEF HasArea, Has
<1>4. p \in live /\ "mprotect" \in ops => (HasArea(p, v) <=> v >= StackBottom \/ v < brk[p])
    BY <1>1, <1>2, SMTT(60) DEF HasArea
<1>5. p \in live /\ "mprotect" \notin ops =>
          /\ HasArea(p, v) <=> v >= StackBottom \/ v < brk[p]
          /\ HasArea(p, v) => AreaOf(p, v).write = TRUE
    BY <1>1, ListFacts, ZenonT(60) DEF HasArea, AreaOf
<1>6. HasArea(p, v) => AreaOf(p, v) \in Area
    <2> SUFFICES ASSUME HasArea(p, v)
                 PROVE  AreaOf(p, v) \in Area
        BY Zenon
    <2>1. PICK i \in 1..Len(areas[p]) : In(areas[p][i], v)
        BY Zenon DEF HasArea, Has
    <2>2. First(areas[p], v) = i
        BY <1>1, <2>1, FirstOnly, ZenonT(60)
    <2> QED
        BY <1>1, <2>2, SMTT(60) DEF AreaOf
<1> QED
    BY <1>3, <1>4, <1>5, <1>6, ZenonT(60)

\* What an action leaves alone keeps its part of the invariant.
LEMMA Kept ==
    /\ FrameInv /\ UNCHANGED <<free, pt, ops>> => FrameInv'
    /\ SlotInv /\ UNCHANGED <<pt, swapped, slots, ops>> => SlotInv'
    /\ AreaInv /\ UNCHANGED <<live, areas, brk, ops>> => AreaInv'
    /\ PageInv /\ UNCHANGED <<pt, swapped, areas, ops>> => PageInv'
    /\ LeakInv /\ UNCHANGED <<free, pt, slots, swapped, ops>> => LeakInv'
<1>1. FrameInv /\ UNCHANGED <<free, pt, ops>> => FrameInv'
    BY SMTT(60) DEF FrameInv
<1>2. SlotInv /\ UNCHANGED <<pt, swapped, slots, ops>> => SlotInv'
    BY SMTT(60) DEF SlotInv
<1>3. AreaInv /\ UNCHANGED <<live, areas, brk, ops>> => AreaInv'
    BY Zenon DEF AreaInv
<1>4. PageInv /\ UNCHANGED <<pt, swapped, areas, ops>> => PageInv'
    BY Zenon DEF PageInv, HasArea, AreaOf
<1>5. LeakInv /\ UNCHANGED <<free, pt, slots, swapped, ops>> => LeakInv'
    BY SMTT(60) DEF LeakInv
<1> QED
    BY <1>1, <1>2, <1>3, <1>4, <1>5, ZenonT(60)

LEMMA LoadSound ==
    ASSUME VmInv, panic = None, NEW p \in Proc, Load(p), UNCHANGED ops
    PROVE  VmInv'
<1>1. /\ VmmAssumption /\ Apart /\ TypeOK /\ FrameInv /\ SlotInv /\ AreaInv /\ PageInv /\ LeakInv
      /\ p \notin live /\ live' = live \cup {p} /\ loaded' = loaded \cup {p}
      /\ areas' = [areas EXCEPT ![p] = <<StackArea>>]
      /\ UNCHANGED <<swapped, pt, brk, content, free, slots, panic, ops>>
    BY Zenon DEF VmInv, Load, StackArea
<1>2. /\ areas[p] = << >> /\ brk[p] = 0 /\ areas'[p] = <<StackArea>>
      /\ \A q \in Proc : q # p => areas'[q] = areas[q]
    BY <1>1, Zenon DEF AreaInv, TypeOK
<1>3. \A v \in VPage : pt[p][v] = None /\ swapped[p][v] = None
    BY <1>1, <1>2, SMTT(60) DEF PageInv, HasArea, Has
<1>4. areas' \in [Proc -> Seq(Area)]
    BY <1>1, StackOnly, Zenon DEF TypeOK
<1>5. TypeOK'
    BY <1>1, <1>4, Zenon DEF TypeOK
<1>6. FrameInv' /\ SlotInv' /\ LeakInv'
    BY <1>1, Kept, Zenon
<1>7. AreaInv'
    <2>1. \A q \in Proc : Disjoint(areas'[q])
        BY <1>1, <1>2, StackOnly, ZenonT(60) DEF AreaInv
    <2>2. \A q \in Proc \ live' : areas'[q] = << >> /\ brk'[q] = 0
        BY <1>1, <1>2, ZenonT(60) DEF AreaInv
    <2>3. "mprotect" \in ops' => \A q \in live' :
              brk'[q] = 0 /\ \A v \in VPage : Has(areas'[q], v) <=> v >= StackBottom
        BY <1>1, <1>2, StackOnly, ZenonT(60) DEF AreaInv, TypeOK
    <2>4. "mprotect" \notin ops' => \A q \in live' : \/ areas'[q] = <<StackArea>> /\ brk'[q] = 0
                                                     \/ areas'[q] = <<StackArea, HeapArea(brk'[q])>>
        BY <1>1, <1>2, ZenonT(60) DEF AreaInv, TypeOK
    <2> QED
        BY <2>1, <2>2, <2>3, <2>4, ZenonT(60) DEF AreaInv, StackArea, HeapArea
<1>8. PageInv'
    BY <1>1, <1>2, <1>3, SMTT(60) DEF PageInv, HasArea, AreaOf
<1> QED
    BY <1>1, <1>5, <1>6, <1>7, <1>8, Zenon DEF VmInv, Apart, FaultsServed

LEMMA WriteSound ==
    ASSUME VmInv, panic = None, NEW p \in Proc, NEW v \in VPage, NEW x \in Value, Write(p, v, x),
           UNCHANGED ops
    PROVE  VmInv'
<1>1. /\ VmmAssumption /\ Apart /\ TypeOK /\ FrameInv /\ SlotInv /\ AreaInv /\ PageInv /\ LeakInv
      /\ content' = [content EXCEPT ![pt[p][v].frame] = x]
      /\ UNCHANGED <<live, loaded, areas, swapped, pt, brk, free, slots, panic, ops>>
    BY Zenon DEF VmInv, Write
<1>2. content' \in [Frame -> Value \cup {Junk}]
    BY <1>1, Zenon DEF TypeOK
<1>3. TypeOK'
    BY <1>1, <1>2, Zenon DEF TypeOK
<1>4. FrameInv' /\ SlotInv' /\ LeakInv' /\ AreaInv' /\ PageInv'
    BY <1>1, Kept, Zenon
<1> QED
    BY <1>1, <1>3, <1>4, Zenon DEF VmInv, Apart, FaultsServed

\* Page v of p has the head of the free list, with right w, and all the rest of the
\* page tables is as it was.
Mapping(p, v, w) ==
    /\ pt' \in [Proc -> [VPage -> Entry \cup {None}]]
    /\ content' \in [Frame -> Value \cup {Junk}]
    /\ free' \in Seq(Frame)
    /\ pt'[p][v] = [frame |-> Head(free), write |-> w] /\ pt'[p][v] # None
    /\ \A q \in Proc, u \in VPage : q # p \/ u # v => pt'[q][u] = pt[q][u]
    /\ FrameInv'
    /\ \A q \in Proc, u \in VPage :
         pt'[q][u] # None =>
           /\ HasArea(q, u)
           /\ pt'[q][u].write => AreaOf(q, u).write
           /\ "fork" \notin ops /\ AreaOf(q, u).write => pt'[q][u].write
    /\ "fork" \notin ops =>
         \A f \in Frame : \/ Contains(free', f)
                          \/ \E q \in Proc, u \in VPage : pt'[q][u] # None /\ pt'[q][u].frame = f

\* A frame of the free list gets a page of an area, with the right of the area.  A
\* page that was mapped before is one that a fork shares.
LEMMA MapNewSound ==
    ASSUME VmInv, NEW p \in Proc, NEW v \in VPage, NEW x \in Value \cup {Junk}, NEW w \in BOOLEAN,
           MapNew(p, v, x, w), UNCHANGED ops,
           HasArea(p, v), w = AreaOf(p, v).write, pt[p][v] # None => "fork" \in ops
    PROVE  Mapping(p, v, w)
<1> DEFINE h == Head(free)
           e == [frame |-> h, write |-> w]
<1>1. /\ VmmAssumption /\ TypeOK /\ FrameInv /\ PageInv /\ LeakInv
      /\ free # << >> /\ free' = Tail(free)
      /\ content' = [content EXCEPT ![h] = x]
      /\ pt' = [pt EXCEPT ![p][v] = e] /\ ops' = ops
    BY Zenon DEF VmInv, MapNew
<1>2. /\ h \in Frame /\ Contains(free, h)
      /\ free' \in Seq(Frame) /\ Distinct(free')
      /\ \A f : Contains(free', f) <=> Contains(free, f) /\ f # h
    BY <1>1, TakeHead, ZenonT(60) DEF TypeOK, FrameInv
<1> HIDE DEF h
<1>3. e \in Entry /\ e # None /\ e.frame = h /\ e.write = w
    BY <1>1, <1>2, SMTT(60) DEF Entry, VmmAssumption
<1> HIDE DEF e
<1>4. pt' \in [Proc -> [VPage -> Entry \cup {None}]] /\ content' \in [Frame -> Value \cup {Junk}]
    BY <1>1, <1>2, <1>3, Zenon DEF TypeOK
<1>5. /\ pt'[p][v] = e
      /\ \A q \in Proc, u \in VPage : q # p \/ u # v => pt'[q][u] = pt[q][u]
    BY <1>1, Zenon DEF TypeOK
<1>6. FrameInv'
    <2>1. \A q \in Proc, u \in VPage : pt'[q][u] # None => ~Contains(free', pt'[q][u].frame)
        BY <1>1, <1>2, <1>3, <1>5, ZenonT(60) DEF FrameInv
    <2>2. \A q \in Proc, u \in VPage : (q # p \/ u # v) /\ pt'[q][u] # None => pt'[q][u].frame # h
        BY <1>1, <1>2, <1>5, SMTT(60) DEF FrameInv
    <2>3. ASSUME NEW q \in Proc, NEW r \in Proc, NEW t \in VPage, NEW u \in VPage,
                 pt'[q][t] # None, pt'[r][u] # None, pt'[q][t].frame = pt'[r][u].frame
          PROVE  (q = r /\ t = u) \/ ("fork" \in ops' /\ ~pt'[q][t].write)
        <3>1. CASE (q = p /\ t = v) \/ (r = p /\ u = v)
            BY <1>3, <1>5, <2>2, <2>3, <3>1, SMTT(60)
        <3>2. CASE ~((q = p /\ t = v) \/ (r = p /\ u = v))
            <4>1. pt'[q][t] = pt[q][t] /\ pt'[r][u] = pt[r][u]
                BY <1>5, <3>2, Zenon
            <4> QED
                BY <1>1, <2>3, <4>1, SMTT(60) DEF FrameInv
        <3> QED
            BY <3>1, <3>2, Zenon
    <2> QED
        BY <1>2, <2>1, <2>3, ZenonT(60) DEF FrameInv
<1>7. \A q \in Proc, u \in VPage :
        pt'[q][u] # None =>
          /\ HasArea(q, u)
          /\ pt'[q][u].write => AreaOf(q, u).write
          /\ "fork" \notin ops /\ AreaOf(q, u).write => pt'[q][u].write
    BY <1>1, <1>3, <1>5, ZenonT(60) DEF PageInv
<1>8. "fork" \notin ops =>
        \A f \in Frame : \/ Contains(free', f)
                         \/ \E q \in Proc, u \in VPage : pt'[q][u] # None /\ pt'[q][u].frame = f
    <2> SUFFICES ASSUME "fork" \notin ops, NEW f \in Frame
                 PROVE  \/ Contains(free', f)
                        \/ \E q \in Proc, u \in VPage : pt'[q][u] # None /\ pt'[q][u].frame = f
        BY Zenon
    <2>1. CASE f = h
        BY <1>3, <1>5, <2>1, ZenonT(60)
    <2>2. CASE f # h /\ Contains(free, f)
        BY <1>2, <2>2, ZenonT(60)
    <2>3. CASE \E q \in Proc, u \in VPage : pt[q][u] # None /\ pt[q][u].frame = f
        <3>1. PICK q \in Proc, u \in VPage : pt[q][u] # None /\ pt[q][u].frame = f
            BY <2>3, ZenonT(60)
        <3>2. q # p \/ u # v
            BY <3>1, ZenonT(60)
        <3> QED
            BY <1>5, <3>1, <3>2, ZenonT(60)
    <2> QED
        BY <1>1, <2>1, <2>2, <2>3, Zenon DEF LeakInv
<1> QED
    BY <1>2, <1>3, <1>4, <1>5, <1>6, <1>7, <1>8, ZenonT(60) DEF Mapping, e, h

\* handle_fault brings a page back from its slot, which it frees.
LEMMA SwapInSound ==
    ASSUME VmInv, panic = None, NEW p \in Proc, NEW v \in VPage, SwapIn(p, v), UNCHANGED ops
    PROVE  VmInv'
<1> DEFINE s == swapped[p][v].slot
           w == swapped[p][v].write
<1>1. /\ VmmAssumption /\ Apart /\ TypeOK /\ FrameInv /\ SlotInv /\ AreaInv /\ PageInv /\ LeakInv
      /\ swapped[p][v] # None /\ MapNew(p, v, slots[s], w)
      /\ swapped' = [swapped EXCEPT ![p][v] = None]
      /\ slots' = [slots EXCEPT ![s] = None]
      /\ UNCHANGED <<live, loaded, areas, brk, panic, ops>>
    BY Zenon DEF VmInv, SwapIn, MapNew
<1>2. s \in Slot /\ w \in BOOLEAN
    <2>1. swapped[p][v] \in SwapEntry
        BY <1>1, SMTT(60) DEF TypeOK
    <2> QED
        BY <2>1, Zenon DEF SwapEntry
<1>3. slots[s] \in Value \cup {Junk} /\ pt[p][v] = None
    BY <1>1, <1>2, Zenon DEF TypeOK, SlotInv
<1>4. HasArea(p, v) /\ w = AreaOf(p, v).write
    <2>1. HasArea(p, v) /\ (w <=> AreaOf(p, v).write)
        BY <1>1, Zenon DEF PageInv
    <2>2. AreaOf(p, v).write \in BOOLEAN
        BY <1>1, <2>1, AreaFacts, AreaInts, Zenon
    <2> QED
        BY <1>2, <2>1, <2>2, Zenon
<1> HIDE DEF w
<1>5. /\ pt' \in [Proc -> [VPage -> Entry \cup {None}]]
      /\ content' \in [Frame -> Value \cup {Junk}]
      /\ free' \in Seq(Frame)
      /\ \A q \in Proc, u \in VPage : q # p \/ u # v => pt'[q][u] = pt[q][u]
      /\ FrameInv'
      /\ \A q \in Proc, u \in VPage :
           pt'[q][u] # None =>
             /\ HasArea(q, u)
             /\ pt'[q][u].write => AreaOf(q, u).write
             /\ "fork" \notin ops /\ AreaOf(q, u).write => pt'[q][u].write
      /\ "fork" \notin ops =>
           \A f \in Frame : \/ Contains(free', f)
                            \/ \E q \in Proc, u \in VPage : pt'[q][u] # None /\ pt'[q][u].frame = f
    <2>1. Mapping(p, v, w)
        BY <1>1, <1>2, <1>3, <1>4, MapNewSound, ZenonT(60)
    <2> QED
        BY <2>1, Zenon DEF Mapping
<1>6. /\ swapped'[p][v] = None
      /\ \A q \in Proc, u \in VPage : q # p \/ u # v => swapped'[q][u] = swapped[q][u]
    BY <1>1, ZenonT(60) DEF TypeOK
<1>7. \A r \in Slot : slots'[r] = IF r = s THEN None ELSE slots[r]
    BY <1>1, ZenonT(60) DEF TypeOK
<1>8. TypeOK'
    <2>1. swapped' \in [Proc -> [VPage -> SwapEntry \cup {None}]] /\ slots' \in [Slot -> Value \cup {None, Junk}]
        BY <1>1, ZenonT(60) DEF TypeOK
    <2> QED
        BY <1>1, <1>5, <2>1, ZenonT(60) DEF TypeOK
<1>9. SlotInv'
    <2>1. \A q \in Proc, u \in VPage : swapped'[q][u] # None =>
            (q # p \/ u # v) /\ swapped[q][u] # None /\ swapped'[q][u] = swapped[q][u]
        BY <1>6, Zenon
    <2>2. \A q \in Proc, u \in VPage : swapped'[q][u] # None =>
            swapped[q][u].slot # s /\ swapped[q][u].slot \in Slot
        <3> SUFFICES ASSUME NEW q \in Proc, NEW u \in VPage, swapped'[q][u] # None
                     PROVE  swapped[q][u].slot # s /\ swapped[q][u].slot \in Slot
            BY Zenon
        <3>1. swapped[q][u].slot # s
            BY <1>1, <2>1, SMTT(60) DEF SlotInv
        <3>2. swapped[q][u] \in SwapEntry
            BY <1>1, <2>1, SMTT(60) DEF TypeOK
        <3> QED
            BY <3>1, <3>2, Zenon DEF SwapEntry
    <2>3. \A q \in Proc, u \in VPage : swapped'[q][u] # None =>
            "evict" \in ops' /\ pt'[q][u] = None /\ slots'[swapped'[q][u].slot] # None
        BY <1>1, <1>5, <1>7, <2>1, <2>2, SMTT(60) DEF SlotInv
    <2> QED
        BY <1>1, <2>1, <2>3, SMTT(60) DEF SlotInv
<1>10. AreaInv'
    BY <1>1, Kept, Zenon
<1>11. PageInv'
    BY <1>1, <1>5, <1>6, SMTT(60) DEF PageInv, HasArea, AreaOf
<1>12. LeakInv'
    <2>1. ASSUME "fork" \notin ops, NEW r \in Slot, slots'[r] # None
          PROVE  \E q \in Proc, u \in VPage : swapped'[q][u] # None /\ swapped'[q][u].slot = r
        <3>1. r # s /\ slots[r] # None
            BY <1>7, <2>1, ZenonT(60)
        <3>2. PICK q \in Proc, u \in VPage : swapped[q][u] # None /\ swapped[q][u].slot = r
            BY <1>1, <2>1, <3>1, ZenonT(60) DEF LeakInv
        <3>3. q # p \/ u # v
            BY <3>1, <3>2, ZenonT(60)
        <3> QED
            BY <1>6, <3>2, <3>3, Zenon
    <2> QED
        BY <1>1, <1>5, <2>1, Zenon DEF LeakInv
<1> QED
    BY <1>1, <1>5, <1>8, <1>9, <1>10, <1>11, <1>12, ZenonT(60) DEF VmInv, Apart, FaultsServed

\* handle_fault fills a page of an area, or copies one that a fork shares.
LEMMA FillSound ==
    ASSUME VmInv, panic = None, NEW p \in Proc, NEW v \in VPage, NEW x \in Value \cup {Junk},
           NEW w \in BOOLEAN, MapNew(p, v, x, w), UNCHANGED <<swapped, slots, ops>>,
           swapped[p][v] = None, HasArea(p, v), w = AreaOf(p, v).write,
           pt[p][v] # None => "fork" \in ops
    PROVE  VmInv'
<1>1. /\ VmmAssumption /\ Apart /\ TypeOK /\ FrameInv /\ SlotInv /\ AreaInv /\ PageInv /\ LeakInv
      /\ UNCHANGED <<live, loaded, areas, brk, panic, ops>>
    BY Zenon DEF VmInv, MapNew
<1>2. /\ pt' \in [Proc -> [VPage -> Entry \cup {None}]]
      /\ content' \in [Frame -> Value \cup {Junk}]
      /\ free' \in Seq(Frame)
      /\ \A q \in Proc, u \in VPage : q # p \/ u # v => pt'[q][u] = pt[q][u]
      /\ FrameInv'
      /\ \A q \in Proc, u \in VPage :
           pt'[q][u] # None =>
             /\ HasArea(q, u)
             /\ pt'[q][u].write => AreaOf(q, u).write
             /\ "fork" \notin ops /\ AreaOf(q, u).write => pt'[q][u].write
      /\ "fork" \notin ops =>
           \A f \in Frame : \/ Contains(free', f)
                            \/ \E q \in Proc, u \in VPage : pt'[q][u] # None /\ pt'[q][u].frame = f
    <2>1. Mapping(p, v, w)
        BY MapNewSound, ZenonT(60)
    <2> QED
        BY <2>1, ZenonT(60) DEF Mapping
<1>3. TypeOK'
    BY <1>1, <1>2, ZenonT(60) DEF TypeOK
<1>4. SlotInv'
    BY <1>1, <1>2, SMTT(60) DEF SlotInv
<1>5. AreaInv'
    BY <1>1, Kept, Zenon
<1>6. PageInv'
    BY <1>1, <1>2, Zenon DEF PageInv, HasArea, AreaOf
<1>7. LeakInv'
    BY <1>1, <1>2, SMTT(60) DEF LeakInv
<1> QED
    BY <1>1, <1>2, <1>3, <1>4, <1>5, <1>6, <1>7, ZenonT(60) DEF VmInv, Apart, FaultsServed

\* A panic changes nothing but the verdict, and is deserved.
LEMMA PanicSound ==
    ASSUME VmInv, panic = None, NEW p \in Proc, NEW v \in VPage, NEW write \in BOOLEAN,
           Panic(p, v, write), UNCHANGED ops, Refused(p, v, write),
           "clone" \in ops \/ free = << >> \/ BadAccess(p, v)
    PROVE  VmInv'
<1>1. /\ VmmAssumption /\ Apart /\ TypeOK /\ FrameInv /\ SlotInv /\ AreaInv /\ PageInv /\ LeakInv
      /\ panic' = <<p, v, write>>
      /\ UNCHANGED <<live, loaded, areas, swapped, pt, brk, content, free, slots, ops>>
    BY Zenon DEF VmInv, Panic
<1>2. TypeOK'
    <2>1. panic' \in {None} \cup (Proc \X VPage \X BOOLEAN)
        BY <1>1, Zenon
    <2> QED
        BY <1>1, <2>1, Zenon DEF TypeOK
<1>3. FrameInv' /\ SlotInv' /\ LeakInv' /\ AreaInv' /\ PageInv'
    BY <1>1, Kept, ZenonT(60)
<1>4. BadAccess(p, v) => Perm(p, v) = "none" \/ (Perm(p, v) = "r" /\ write)
    <2> SUFFICES ASSUME BadAccess(p, v)
                 PROVE  Perm(p, v) = "none" \/ (Perm(p, v) = "r" /\ write)
        BY Zenon
    <2>1. swapped[p][v] = None /\ (HasArea(p, v) => pt[p][v] # None /\ ~AreaOf(p, v).write)
        BY Zenon DEF BadAccess
    <2>2. CASE ~HasArea(p, v)
        BY <1>1, <2>1, <2>2, ZenonT(60) DEF PageInv, Perm
    <2>3. CASE HasArea(p, v)
        <3>1. pt[p][v] # None /\ ~pt[p][v].write /\ ~AreaOf(p, v).write
            BY <1>1, <2>1, <2>3, ZenonT(60) DEF PageInv
        <3> QED
            BY <2>1, <2>3, <3>1, ZenonT(60) DEF Perm, Refused
    <2> QED
        BY <2>2, <2>3, ZenonT(60)
<1>5. Perm(p, v)' = Perm(p, v)
    BY <1>1, Zenon DEF Perm, HasArea, AreaOf
<1>6. FaultsServed'
    <2>1. panic'[1] = p /\ panic'[2] = v /\ panic'[3] = write
        BY <1>1, ZenonT(60)
    <2>2. Perm(panic[1], panic[2])' = Perm(p, v)
        BY <1>1, <2>1, ZenonT(60) DEF Perm, HasArea, AreaOf
    <2> QED
        BY <1>1, <1>4, <2>1, <2>2, ZenonT(60) DEF FaultsServed
<1> QED
    BY <1>1, <1>2, <1>3, <1>6, Zenon DEF VmInv, Apart

LEMMA FaultSound ==
    ASSUME VmInv, panic = None, NEW p \in Proc, NEW v \in VPage, NEW write \in BOOLEAN,
           Fault(p, v, write), UNCHANGED ops
    PROVE  VmInv'
<1>1. VmmAssumption /\ TypeOK /\ PageInv /\ Refused(p, v, write)
    BY Zenon DEF VmInv, Fault
<1>2. HasArea(p, v) => AreaOf(p, v).write \in BOOLEAN
    BY <1>1, AreaFacts, AreaInts, ZenonT(60)
<1>3. CASE SwapIn(p, v)
    BY <1>3, SwapInSound, ZenonT(60)
<1>4. CASE ZeroFill(p, v)
    <2>1. 0 \in Value \cup {Junk}
        BY <1>1, ZenonT(60) DEF VmmAssumption
    <2>2. /\ swapped[p][v] = None /\ pt[p][v] = None /\ HasArea(p, v)
          /\ MapNew(p, v, 0, AreaOf(p, v).write) /\ UNCHANGED <<swapped, slots>>
        BY <1>4, Zenon DEF ZeroFill
    <2> QED
        BY <1>2, <2>1, <2>2, FillSound, ZenonT(60)
<1>5. CASE write /\ CopyOnWrite(p, v)
    <2>1. /\ swapped[p][v] = None /\ pt[p][v] # None /\ HasArea(p, v) /\ AreaOf(p, v).write
          /\ MapNew(p, v, content[pt[p][v].frame], TRUE) /\ UNCHANGED <<swapped, slots>>
        BY <1>5, ZenonT(60) DEF CopyOnWrite
    <2>2. content[pt[p][v].frame] \in Value \cup {Junk}
        <3>1. pt[p][v] \in Entry
            BY <1>1, <2>1, SMTT(60) DEF TypeOK
        <3>2. pt[p][v].frame \in Frame
            BY <3>1, Zenon DEF Entry
        <3> QED
            BY <1>1, <3>2, ZenonT(60) DEF TypeOK
    <2>3. "fork" \in ops
        BY <1>1, <1>5, <2>1, Zenon DEF PageInv, Refused
    <2>4. AreaOf(p, v).write = TRUE
        BY <1>2, <2>1, Zenon
    <2> QED
        BY <2>1, <2>2, <2>3, <2>4, FillSound, ZenonT(60)
<1>6. CASE (free = << >> \/ BadAccess(p, v)) /\ Panic(p, v, write)
    BY <1>1, <1>6, PanicSound, ZenonT(60)
<1> QED
    BY <1>3, <1>4, <1>5, <1>6, ZenonT(60) DEF Fault

LEMMA ThreadFaultSound ==
    ASSUME VmInv, panic = None, NEW p \in Proc, NEW v \in VPage, NEW write \in BOOLEAN,
           ThreadFault(p, v, write), UNCHANGED ops
    PROVE  VmInv'
    BY PanicSound, ZenonT(60) DEF ThreadFault

\* evict_addr writes a page to a slot and puts its frame on the free list.
LEMMA EvictSound ==
    ASSUME VmInv, panic = None, NEW p \in Proc, NEW v \in VPage, Evict(p, v), UNCHANGED ops
    PROVE  VmInv'
<1> DEFINE f == pt[p][v].frame
           w == pt[p][v].write
<1>1. /\ VmmAssumption /\ Apart /\ TypeOK /\ FrameInv /\ SlotInv /\ AreaInv /\ PageInv /\ LeakInv
      /\ "evict" \in ops /\ HasArea(p, v) /\ pt[p][v] # None
      /\ pt' = [pt EXCEPT ![p][v] = None]
      /\ free' = <<f>> \o free
      /\ content' = [content EXCEPT ![f] = Junk]
      /\ UNCHANGED <<live, loaded, areas, brk, panic, ops>>
    BY Zenon DEF VmInv, Evict
<1>2. PICK s \in Slot : /\ slots[s] = None
                        /\ slots' = [slots EXCEPT ![s] = content[f]]
                        /\ swapped' = [swapped EXCEPT ![p][v] = [slot |-> s, write |-> w]]
    BY Zenon DEF Evict
<1> DEFINE e == [slot |-> s, write |-> w]
<1>3. f \in Frame /\ w \in BOOLEAN
    <2>1. pt[p][v] \in Entry
        BY <1>1, SMTT(60) DEF TypeOK
    <2> QED
        BY <2>1, Zenon DEF Entry
<1>4. content[f] \in Value \cup {Junk} /\ content[f] # None
    BY <1>1, <1>3, Zenon DEF TypeOK, VmmAssumption
<1>5. e \in SwapEntry /\ e # None /\ e.slot = s /\ e.write = w
    BY <1>1, <1>3, SMTT(60) DEF SwapEntry, VmmAssumption
<1>6. "fork" \notin ops /\ "mprotect" \notin ops
    BY <1>1, Zenon DEF Apart
<1>7. ~Contains(free, f)
    BY <1>1, Zenon DEF FrameInv
<1>8. /\ free' \in Seq(Frame) /\ Distinct(free')
      /\ \A g : Contains(free', g) <=> g = f \/ Contains(free, g)
    <2> DEFINE a == <<f>>
    <2>1. a \in Seq(Frame) /\ Len(a) = 1 /\ a[1] = f
        BY <1>3, SMTT(60)
    <2> HIDE DEF a
    <2>2. Distinct(a) /\ \A g : Contains(a, g) <=> g = f
        BY <2>1, ContainsAt, SMTT(60) DEF Distinct
    <2>3. free \in Seq(Frame) /\ Distinct(free) /\ \A g : ~(Contains(a, g) /\ Contains(free, g))
        BY <1>1, <1>7, <2>2, ZenonT(60) DEF TypeOK, FrameInv
    <2>4. /\ a \o free \in Seq(Frame) /\ Distinct(a \o free)
          /\ \A g : Contains(a \o free, g) <=> Contains(a, g) \/ Contains(free, g)
        BY <2>1, <2>2, <2>3, PutInFront, ZenonT(60)
    <2>5. free' = a \o free
        BY <1>1, Zenon DEF a
    <2> QED
        BY <2>2, <2>4, <2>5, ZenonT(60)
<1> HIDE DEF e, f, w
<1>9. /\ pt'[p][v] = None /\ swapped'[p][v] = e
      /\ \A q \in Proc, u \in VPage : q # p \/ u # v =>
           pt'[q][u] = pt[q][u] /\ swapped'[q][u] = swapped[q][u]
    BY <1>1, <1>2, ZenonT(60) DEF TypeOK, e
<1>10. \A r \in Slot : slots'[r] = IF r = s THEN content[f] ELSE slots[r]
    BY <1>1, <1>2, ZenonT(60) DEF TypeOK
<1>11. TypeOK'
    <2>1. /\ swapped' \in [Proc -> [VPage -> SwapEntry \cup {None}]]
          /\ slots' \in [Slot -> Value \cup {None, Junk}]
        BY <1>1, <1>2, <1>4, <1>5, ZenonT(60) DEF TypeOK, e
    <2>2. pt' \in [Proc -> [VPage -> Entry \cup {None}]] /\ content' \in [Frame -> Value \cup {Junk}]
        BY <1>1, Zenon DEF TypeOK
    <2> QED
        BY <1>1, <1>8, <2>1, <2>2, ZenonT(60) DEF TypeOK
<1>12. \A q \in Proc, u \in VPage : pt'[q][u] # None =>
         pt'[q][u] = pt[q][u] /\ (q # p \/ u # v) /\ pt[q][u].frame # f
    BY <1>1, <1>6, <1>9, SMTT(60) DEF FrameInv, f
<1>13. FrameInv'
    <2>1. \A q \in Proc, u \in VPage : pt'[q][u] # None => ~Contains(free', pt'[q][u].frame)
        BY <1>1, <1>8, <1>12, SMTT(60) DEF FrameInv
    <2>2. \A q, r \in Proc, t, u \in VPage :
            pt'[q][t] # None /\ pt'[r][u] # None /\ pt'[q][t].frame = pt'[r][u].frame
              => (q = r /\ t = u) \/ ("fork" \in ops' /\ ~pt'[q][t].write)
        BY <1>1, <1>12, SMTT(60) DEF FrameInv
    <2> QED
        BY <1>8, <2>1, <2>2, Zenon DEF FrameInv
\* No page had slot s before.
<1>14. \A q \in Proc, u \in VPage : (q # p \/ u # v) /\ swapped[q][u] # None => swapped[q][u].slot # s
    BY <1>1, <1>2, Zenon DEF SlotInv
<1>15. SlotInv'
    <2>1. \A q \in Proc, u \in VPage : swapped[q][u] # None => swapped[q][u].slot \in Slot
        <3> SUFFICES ASSUME NEW q \in Proc, NEW u \in VPage, swapped[q][u] # None
                     PROVE  swapped[q][u].slot \in Slot
            BY Zenon
        <3>1. swapped[q][u] \in SwapEntry
            BY <1>1, SMTT(60) DEF TypeOK
        <3> QED
            BY <3>1, Zenon DEF SwapEntry
    <2>2. ASSUME NEW q \in Proc, NEW u \in VPage, swapped'[q][u] # None
          PROVE  "evict" \in ops' /\ pt'[q][u] = None /\ slots'[swapped'[q][u].slot] # None
        <3>1. CASE q = p /\ u = v
            BY <1>1, <1>4, <1>5, <1>9, <1>10, <3>1, Zenon
        <3>2. CASE q # p \/ u # v
            BY <1>1, <1>9, <1>10, <1>14, <2>1, <2>2, <3>2, SMTT(60) DEF SlotInv
        <3> QED
            BY <3>1, <3>2, Zenon
    <2>3. \A q, r \in Proc, t, u \in VPage :
            swapped'[q][t] # None /\ swapped'[r][u] # None /\ swapped'[q][t].slot = swapped'[r][u].slot
              => q = r /\ t = u
        BY <1>1, <1>5, <1>9, <1>14, SMTT(60) DEF SlotInv
    <2> QED
        BY <2>2, <2>3, Zenon DEF SlotInv
<1>16. AreaInv'
    BY <1>1, Kept, Zenon
<1>17. w <=> AreaOf(p, v).write
    BY <1>1, <1>6, ZenonT(60) DEF PageInv, w
<1>18. PageInv'
    <2>1. \A q \in Proc, u \in VPage : HasArea(q, u)' = HasArea(q, u) /\ AreaOf(q, u)' = AreaOf(q, u)
        BY <1>1, Zenon DEF HasArea, AreaOf
    <2>2. ASSUME NEW q \in Proc, NEW u \in VPage, swapped'[q][u] # None
          PROVE  HasArea(q, u) /\ (swapped'[q][u].write <=> AreaOf(q, u).write)
        <3>1. CASE q = p /\ u = v
            BY <1>1, <1>5, <1>9, <1>17, <3>1, ZenonT(60)
        <3>2. CASE q # p \/ u # v
            BY <1>1, <1>9, <2>2, <3>2, ZenonT(60) DEF PageInv
        <3> QED
            BY <3>1, <3>2, ZenonT(60)
    <2>3. \A q \in Proc, u \in VPage : pt'[q][u] # None =>
            /\ HasArea(q, u)
            /\ pt'[q][u].write => AreaOf(q, u).write
            /\ "fork" \notin ops' /\ AreaOf(q, u).write => pt'[q][u].write
        BY <1>1, <1>12, ZenonT(60) DEF PageInv
    <2> QED
        BY <2>1, <2>2, <2>3, ZenonT(60) DEF PageInv
<1>19. LeakInv'
    <2>1. ASSUME NEW g \in Frame
          PROVE  \/ Contains(free', g)
                 \/ \E q \in Proc, u \in VPage : pt'[q][u] # None /\ pt'[q][u].frame = g
        <3>1. CASE g = f \/ Contains(free, g)
            BY <1>8, <3>1, ZenonT(60)
        <3>2. CASE g # f /\ \E q \in Proc, u \in VPage : pt[q][u] # None /\ pt[q][u].frame = g
            <4>1. PICK q \in Proc, u \in VPage : pt[q][u] # None /\ pt[q][u].frame = g
                BY <3>2, ZenonT(60)
            <4>2. q # p \/ u # v
                BY <3>2, <4>1, ZenonT(60) DEF f
            <4> QED
                BY <1>9, <4>1, <4>2, ZenonT(60)
        <3> QED
            BY <1>1, <1>6, <3>1, <3>2, ZenonT(60) DEF LeakInv
    <2>2. ASSUME NEW r \in Slot, slots'[r] # None
          PROVE  \E q \in Proc, u \in VPage : swapped'[q][u] # None /\ swapped'[q][u].slot = r
        <3>1. CASE r = s
            BY <1>5, <1>9, <3>1, ZenonT(60)
        <3>2. CASE r # s
            <4>1. PICK q \in Proc, u \in VPage : swapped[q][u] # None /\ swapped[q][u].slot = r
                BY <1>1, <1>6, <1>10, <2>2, <3>2, ZenonT(60) DEF LeakInv
            <4>2. q # p \/ u # v
                BY <1>1, <4>1, SMTT(60) DEF SlotInv
            <4> QED
                BY <1>9, <4>1, <4>2, ZenonT(60)
        <3> QED
            BY <3>1, <3>2, ZenonT(60)
    <2> QED
        BY <2>1, <2>2, ZenonT(60) DEF LeakInv
<1> QED
    BY <1>1, <1>11, <1>13, <1>15, <1>16, <1>18, <1>19, ZenonT(60) DEF VmInv, Apart, FaultsServed

\* The areas after SYS_BRK: the heap of p ends at b.
HeapAt(p, b) ==
    /\ areas' \in [Proc -> Seq(Area)] /\ brk' \in [Proc -> 0..(StackBottom - 1)]
    /\ brk'[p] = b /\ \A q \in Proc : q # p => areas'[q] = areas[q] /\ brk'[q] = brk[q]
    /\ \A v \in VPage : /\ HasArea(p, v)' <=> v >= StackBottom \/ v < b
                        /\ HasArea(p, v)' => AreaOf(p, v)'.write = TRUE
    /\ AreaInv'

LEMMA HeapAtSound ==
    ASSUME VmInv, NEW p \in live, NEW b \in 0..(StackBottom - 1), "mprotect" \notin ops,
           b # brk[p], SetHeapEnd(p, b), brk' = [brk EXCEPT ![p] = b], UNCHANGED <<live, ops>>
    PROVE  HeapAt(p, b)
<1>1. /\ VmmAssumption /\ TypeOK /\ AreaInv /\ p \in Proc
      /\ areas' = [areas EXCEPT ![p] = HeapEnd(areas[p], b)]
    BY Zenon DEF VmInv, TypeOK, SetHeapEnd
<1>2. brk[p] \in 0..(StackBottom - 1) /\ StackBottom \in Int
    BY <1>1, Pages, SMTT(60) DEF TypeOK
<1>3. \/ areas[p] = <<StackArea>> /\ b > 0
      \/ areas[p] = <<StackArea, HeapArea(brk[p])>>
    <2>1. \/ areas[p] = <<StackArea>> /\ brk[p] = 0
          \/ areas[p] = <<StackArea, HeapArea(brk[p])>>
        BY <1>1, Zenon DEF AreaInv
    <2> QED
        BY <1>2, <2>1, SMTT(60)
<1>4. HeapEnd(areas[p], b) = <<StackArea, HeapArea(b)>>
    BY <1>1, <1>2, <1>3, HeapMoves, Zenon
<1>5. /\ areas'[p] = <<StackArea, HeapArea(b)>> /\ brk'[p] = b
      /\ \A q \in Proc : q # p => areas'[q] = areas[q] /\ brk'[q] = brk[q]
      /\ brk' \in [Proc -> 0..(StackBottom - 1)]
    BY <1>1, <1>4, ZenonT(60) DEF TypeOK
<1>6. /\ areas'[p] \in Seq(Area) /\ Disjoint(areas'[p])
      /\ \A v \in VPage : /\ Has(areas'[p], v) <=> v >= StackBottom \/ v < b
                          /\ Has(areas'[p], v) => areas'[p][First(areas'[p], v)].write = TRUE
    BY <1>1, <1>5, ListFacts, ZenonT(60)
<1>7. areas' \in [Proc -> Seq(Area)]
    BY <1>1, <1>5, <1>6, ZenonT(60) DEF TypeOK
<1>8. AreaInv'
    <2>1. \A q \in Proc : Disjoint(areas'[q])
        BY <1>1, <1>5, <1>6, ZenonT(60) DEF AreaInv
    <2>2. \A q \in Proc \ live' : areas'[q] = << >> /\ brk'[q] = 0
        BY <1>1, <1>5, ZenonT(60) DEF AreaInv
    <2>3. \A q \in live' : \/ areas'[q] = <<StackArea>> /\ brk'[q] = 0
                           \/ areas'[q] = <<StackArea, HeapArea(brk'[q])>>
        BY <1>1, <1>5, ZenonT(60) DEF AreaInv, TypeOK
    <2> QED
        BY <2>1, <2>2, <2>3, ZenonT(60) DEF AreaInv, StackArea, HeapArea
<1>9. \A v \in VPage : /\ HasArea(p, v)' <=> v >= StackBottom \/ v < b
                       /\ HasArea(p, v)' => AreaOf(p, v)'.write = TRUE
    BY <1>6, ZenonT(60) DEF HasArea, AreaOf
<1> QED
    BY <1>5, <1>7, <1>8, <1>9, Zenon DEF HeapAt

LEMMA GrowSound ==
    ASSUME VmInv, panic = None, NEW p \in live, NEW b \in 0..(StackBottom - 1),
           "brk" \in ops, b > brk[p], SetHeapEnd(p, b), brk' = [brk EXCEPT ![p] = b],
           UNCHANGED <<live, loaded, swapped, pt, content, free, slots, panic, ops>>
    PROVE  VmInv' /\ HeapAt(p, b)
<1>1. /\ VmmAssumption /\ Apart /\ TypeOK /\ FrameInv /\ SlotInv /\ AreaInv /\ PageInv /\ LeakInv
      /\ p \in Proc /\ "mprotect" \notin ops
    BY Zenon DEF VmInv, TypeOK, Apart
<1>2. brk[p] \in Int /\ b \in Int /\ b # brk[p] /\ \A v \in VPage : v \in Int
    BY <1>1, Pages, SMTT(60) DEF TypeOK
<1>3. HeapAt(p, b)
    BY <1>1, <1>2, HeapAtSound, Zenon
<1>4. TypeOK'
    BY <1>1, <1>3, Zenon DEF HeapAt, TypeOK
<1>5. FrameInv' /\ SlotInv' /\ LeakInv'
    BY <1>1, Kept, ZenonT(60)
<1>6. \A v \in VPage : HasArea(p, v) => HasArea(p, v)' /\ AreaOf(p, v)'.write = TRUE /\ AreaOf(p, v).write = TRUE
    <2> SUFFICES ASSUME NEW v \in VPage, HasArea(p, v)
                 PROVE  HasArea(p, v)' /\ AreaOf(p, v)'.write = TRUE /\ AreaOf(p, v).write = TRUE
        BY Zenon
    <2>1. (v >= StackBottom \/ v < brk[p]) /\ AreaOf(p, v).write = TRUE
        BY <1>1, AreaFacts, Zenon
    <2>2. v >= StackBottom \/ v < b
        BY <1>2, <2>1, SMTT(60)
    <2> QED
        BY <1>3, <2>1, <2>2, ZenonT(60) DEF HeapAt
<1>7. \A q \in Proc, v \in VPage : q # p => HasArea(q, v)' = HasArea(q, v) /\ AreaOf(q, v)' = AreaOf(q, v)
    BY <1>3, Zenon DEF HeapAt, HasArea, AreaOf
<1>8. ASSUME NEW q \in Proc, NEW v \in VPage
      PROVE  /\ pt'[q][v] # None => /\ HasArea(q, v)'
                                    /\ pt'[q][v].write => AreaOf(q, v)'.write
                                    /\ "fork" \notin ops' /\ AreaOf(q, v)'.write => pt'[q][v].write
             /\ swapped'[q][v] # None => HasArea(q, v)' /\ (swapped'[q][v].write <=> AreaOf(q, v)'.write)
    <2>1. CASE q # p
        BY <1>1, <1>7, <2>1, ZenonT(60) DEF PageInv
    <2>2. CASE q = p
        BY <1>1, <1>6, <2>2, ZenonT(60) DEF PageInv
    <2> QED
        BY <2>1, <2>2, ZenonT(60)
<1>9. PageInv'
    BY <1>8, Zenon DEF PageInv
<1>10. AreaInv'
    BY <1>3, ZenonT(60) DEF HeapAt
<1> QED
    BY <1>1, <1>3, <1>4, <1>5, <1>9, <1>10, ZenonT(60) DEF VmInv, Apart, FaultsServed

\* The pages that shrink_heap frees.
Gone(p, b) == {v \in b..(brk[p] - 1) : pt[p][v] # None}

LEMMA ShrinkSound ==
    ASSUME VmInv, panic = None, NEW p \in live, NEW b \in 0..(StackBottom - 1),
           "shrink" \in ops, b < brk[p], Shrink(p, b), SetHeapEnd(p, b), brk' = [brk EXCEPT ![p] = b],
           UNCHANGED <<live, loaded, swapped, slots, panic, ops>>
    PROVE  /\ VmInv' /\ HeapAt(p, b)
           /\ \A q \in Proc, v \in VPage :
                /\ q = p /\ b <= v /\ v < brk[p] => pt'[q][v] = None
                /\ ~(q = p /\ b <= v /\ v < brk[p]) => pt'[q][v] = pt[q][v]
                /\ pt'[q][v] # None => content'[pt'[q][v].frame] = content[pt[q][v].frame]
<1> DEFINE gone  == Gone(p, b)
           n     == Cardinality(gone)
           d     == Downward(gone)
           freed == [i \in 1..n |-> pt[p][d[i]].frame]
<1>1. /\ VmmAssumption /\ Apart /\ TypeOK /\ FrameInv /\ SlotInv /\ AreaInv /\ PageInv /\ LeakInv
      /\ p \in Proc /\ "fork" \notin ops /\ "evict" \notin ops
      /\ free' = freed \o free
      /\ content' = [f \in Frame |-> IF Contains(freed, f) THEN Junk ELSE content[f]]
      /\ pt' = [pt EXCEPT ![p] = [v \in VPage |-> IF v \in gone THEN None ELSE pt[p][v]]]
    BY Zenon DEF VmInv, TypeOK, Apart, Shrink, Gone
<1>2. /\ brk[p] \in 0..(StackBottom - 1) /\ b \in Int /\ 0 <= b /\ b # brk[p] /\ brk[p] # 0
      /\ StackBottom \in Int /\ StackBottom < NumPages /\ NumPages \in Int
      /\ \A v \in VPage : v \in Int
    BY <1>1, Pages, SMTT(60) DEF TypeOK
<1>3. "mprotect" \notin ops
    BY <1>1, <1>2, Zenon DEF AreaInv
<1>4. gone \subseteq VPage /\ \A v \in gone : pt[p][v] # None /\ b <= v /\ v < brk[p]
    BY <1>2, SMTT(60) DEF Gone, VPage
<1>5. IsFiniteSet(gone) /\ gone \in SUBSET Int
    <2>1. IsFiniteSet(VPage)
        BY <1>2, FS_Interval, SMTT(60) DEF VPage
    <2>2. IsFiniteSet(gone)
        BY <1>4, <2>1, FS_Subset, Zenon
    <2> QED
        BY <1>2, <1>4, <2>2, Zenon
<1> HIDE DEF gone
<1>6. /\ n \in Nat /\ d \in [1..n -> gone]
      /\ \A i, j \in 1..n : d[i] = d[j] => i = j
      /\ \A v \in gone : \E i \in 1..n : d[i] = v
    BY <1>5, DownwardOrder, Zenon
<1> HIDE DEF n, d
<1>7. \A v \in gone : pt[p][v].frame \in Frame
    <2> SUFFICES ASSUME NEW v \in gone
                 PROVE  pt[p][v].frame \in Frame
        BY Zenon
    <2>1. pt[p][v] \in Entry
        BY <1>1, <1>4, SMTT(60) DEF TypeOK
    <2> QED
        BY <2>1, Zenon DEF Entry
<1>8. /\ freed \in Seq(Frame) /\ Len(freed) = n
      /\ \A i \in 1..n : d[i] \in gone /\ freed[i] = pt[p][d[i]].frame
    <2>1. \A i \in 1..n : d[i] \in gone /\ pt[p][d[i]].frame \in Frame
        BY <1>6, <1>7, ZenonT(60)
    <2> QED
        BY <1>6, <2>1, SMTT(60)
<1> HIDE DEF freed
<1>9. \A g : Contains(freed, g) <=> \E v \in gone : pt[p][v].frame = g
    BY <1>6, <1>8, ContainsAt, SMTT(60)
<1>10. Distinct(freed)
    <2>1. \A v, w \in gone : pt[p][v].frame = pt[p][w].frame => v = w
        BY <1>1, <1>4, SMTT(60) DEF FrameInv
    <2> QED
        BY <1>6, <1>8, <2>1, SMTT(60) DEF Distinct
<1>11. \A g : ~(Contains(freed, g) /\ Contains(free, g))
    BY <1>1, <1>4, <1>9, SMTT(60) DEF FrameInv
<1>12. /\ free' \in Seq(Frame) /\ Distinct(free')
       /\ \A g : Contains(free', g) <=> Contains(freed, g) \/ Contains(free, g)
    <2>1. free \in Seq(Frame) /\ Distinct(free)
        BY <1>1, ZenonT(60) DEF TypeOK, FrameInv
    <2> QED
        BY <1>1, <1>8, <1>10, <1>11, <2>1, PutInFront, Zenon
<1>13. /\ \A v \in VPage : pt'[p][v] = IF v \in gone THEN None ELSE pt[p][v]
       /\ \A q \in Proc : q # p => pt'[q] = pt[q]
       /\ pt' \in [Proc -> [VPage -> Entry \cup {None}]]
    BY <1>1, ZenonT(60) DEF TypeOK
<1>14. \A v \in VPage : v \in gone <=> b <= v /\ v < brk[p] /\ pt[p][v] # None
    BY <1>2, <1>4, SMTT(60) DEF gone, Gone
<1>15. \A q \in Proc, v \in VPage : pt'[q][v] # None =>
         pt[q][v] # None /\ pt'[q][v] = pt[q][v] /\ pt[q][v].frame \in Frame
         /\ ~Contains(freed, pt[q][v].frame)
    <2> SUFFICES ASSUME NEW q \in Proc, NEW v \in VPage, pt'[q][v] # None
                 PROVE  pt[q][v] # None /\ pt'[q][v] = pt[q][v] /\ pt[q][v].frame \in Frame
                        /\ ~Contains(freed, pt[q][v].frame)
        BY Zenon
    <2>1. pt[q][v] # None /\ pt'[q][v] = pt[q][v] /\ ~(q = p /\ v \in gone)
        BY <1>13, ZenonT(60)
    <2>2. pt[q][v] \in Entry
        BY <1>1, <2>1, SMTT(60) DEF TypeOK
    <2>3. \A w \in gone : pt[p][w].frame # pt[q][v].frame
        BY <1>1, <1>4, <2>1, Zenon DEF FrameInv
    <2> QED
        BY <1>9, <2>1, <2>2, <2>3, ZenonT(60) DEF Entry
<1>16. FrameInv'
    <2>1. \A q \in Proc, v \in VPage : pt'[q][v] # None => ~Contains(free', pt'[q][v].frame)
        BY <1>1, <1>12, <1>15, ZenonT(60) DEF FrameInv
    <2>2. \A q, r \in Proc, t, u \in VPage :
            pt'[q][t] # None /\ pt'[r][u] # None /\ pt'[q][t].frame = pt'[r][u].frame
              => (q = r /\ t = u) \/ ("fork" \in ops' /\ ~pt'[q][t].write)
        BY <1>1, <1>15, SMTT(60) DEF FrameInv
    <2> QED
        BY <1>12, <2>1, <2>2, Zenon DEF FrameInv
<1>17. HeapAt(p, b)
    BY <1>1, <1>2, <1>3, HeapAtSound, Zenon
<1>18. content' \in [Frame -> Value \cup {Junk}] /\ \A f \in Frame : ~Contains(freed, f) => content'[f] = content[f]
    BY <1>1, Zenon DEF TypeOK
<1>19. TypeOK'
    BY <1>1, <1>12, <1>13, <1>17, <1>18, ZenonT(60) DEF HeapAt, TypeOK
<1>20. \A q \in Proc, v \in VPage : swapped[q][v] = None
    BY <1>1, ZenonT(60) DEF SlotInv
<1>21. SlotInv'
    BY <1>20, ZenonT(60) DEF SlotInv
<1>22. PageInv'
    <2>1. \A q \in Proc, v \in VPage : q # p => HasArea(q, v)' = HasArea(q, v) /\ AreaOf(q, v)' = AreaOf(q, v)
        BY <1>17, ZenonT(60) DEF HeapAt, HasArea, AreaOf
    <2>2. ASSUME NEW q \in Proc, NEW v \in VPage, pt'[q][v] # None
          PROVE  /\ HasArea(q, v)'
                 /\ pt'[q][v].write => AreaOf(q, v)'.write
                 /\ "fork" \notin ops' /\ AreaOf(q, v)'.write => pt'[q][v].write
        <3>1. CASE q # p
            BY <1>1, <1>15, <2>1, <2>2, <3>1, SMTT(60) DEF PageInv
        <3>2. CASE q = p
            <4>1. pt[p][v] # None /\ pt'[p][v] = pt[p][v] /\ v \notin gone
                BY <1>13, <2>2, <3>2, ZenonT(60)
            <4>2. HasArea(p, v) /\ AreaOf(p, v).write = TRUE /\ (v >= StackBottom \/ v < brk[p])
                BY <1>1, <1>3, <4>1, AreaFacts, ZenonT(60) DEF PageInv
            <4>3. pt[p][v].write
                BY <1>1, <4>1, <4>2, ZenonT(60) DEF PageInv
            <4>4. v >= StackBottom \/ v < b
                BY <1>2, <1>14, <4>1, <4>2, SMTT(60)
            <4> QED
                BY <1>17, <3>2, <4>1, <4>3, <4>4, Zenon DEF HeapAt
        <3> QED
            BY <3>1, <3>2, ZenonT(60)
    <2> QED
        BY <1>20, <2>2, ZenonT(60) DEF PageInv
<1>23. LeakInv'
    <2>1. ASSUME NEW f \in Frame
          PROVE  \/ Contains(free', f)
                 \/ \E q \in Proc, v \in VPage : pt'[q][v] # None /\ pt'[q][v].frame = f
        <3>1. CASE Contains(free, f)
            BY <1>12, <3>1, ZenonT(60)
        <3>2. CASE \E q \in Proc, v \in VPage : pt[q][v] # None /\ pt[q][v].frame = f
            <4>1. PICK q \in Proc, v \in VPage : pt[q][v] # None /\ pt[q][v].frame = f
                BY <3>2, ZenonT(60)
            <4>2. CASE q = p /\ v \in gone
                BY <1>9, <1>12, <4>1, <4>2, ZenonT(60)
            <4>3. CASE ~(q = p /\ v \in gone)
                BY <1>13, <4>1, <4>3, ZenonT(60)
            <4> QED
                BY <4>2, <4>3, ZenonT(60)
        <3> QED
            BY <1>1, <3>1, <3>2, ZenonT(60) DEF LeakInv
    <2>2. \A s \in Slot : slots'[s] # None =>
            \E q \in Proc, v \in VPage : swapped'[q][v] # None /\ swapped'[q][v].slot = s
        BY <1>1, ZenonT(60) DEF LeakInv
    <2> QED
        BY <2>1, <2>2, ZenonT(60) DEF LeakInv
<1>24. AreaInv'
    BY <1>17, ZenonT(60) DEF HeapAt
<1>25. VmInv'
    BY <1>1, <1>16, <1>19, <1>21, <1>22, <1>23, <1>24, ZenonT(60) DEF VmInv, Apart, FaultsServed
<1>26. \A q \in Proc, v \in VPage :
         /\ q = p /\ b <= v /\ v < brk[p] => pt'[q][v] = None
         /\ ~(q = p /\ b <= v /\ v < brk[p]) => pt'[q][v] = pt[q][v]
    BY <1>13, <1>14, ZenonT(60)
<1>27. \A q \in Proc, v \in VPage :
         pt'[q][v] # None => content'[pt'[q][v].frame] = content[pt[q][v].frame]
    BY <1>15, <1>18, ZenonT(60)
<1> QED
    BY <1>17, <1>25, <1>26, <1>27, ZenonT(60)

LEMMA BrkSound ==
    ASSUME VmInv, panic = None, NEW p \in Proc, NEW b \in VPage, Brk(p, b), UNCHANGED ops
    PROVE  VmInv'
<1>1. CASE "brk" \in ops /\ b > brk[p] /\ UNCHANGED <<pt, content, free>>
    BY <1>1, GrowSound, ZenonT(60) DEF Brk
<1>2. CASE "shrink" \in ops /\ b < brk[p] /\ Shrink(p, b)
    BY <1>2, ShrinkSound, ZenonT(60) DEF Brk
<1> QED
    BY <1>1, <1>2, ZenonT(60) DEF Brk

LEMMA MprotectSound ==
    ASSUME VmInv, panic = None, NEW p \in Proc, NEW first \in VPage, NEW end \in 1..NumPages,
           NEW write \in BOOLEAN, Mprotect(p, first, end, write), UNCHANGED ops
    PROVE  /\ VmInv'
           /\ \A v \in VPage :
                /\ HasArea(p, v)' <=> HasArea(p, v)
                /\ HasArea(p, v) =>
                     AreaOf(p, v)'.write = IF v \in first..(end - 1) THEN write ELSE AreaOf(p, v).write
                /\ v \in first..(end - 1) => HasArea(p, v)
           /\ \A q \in Proc : q # p => areas'[q] = areas[q]
           /\ \A q \in Proc, v \in VPage :
                /\ pt'[q][v] # None <=> pt[q][v] # None
                /\ pt[q][v] # None => pt'[q][v].frame = pt[q][v].frame
<1> DEFINE range == first..(end - 1)
           new == Protect(areas[p], first, end, write)
<1>1. /\ VmmAssumption /\ Apart /\ TypeOK /\ FrameInv /\ SlotInv /\ AreaInv /\ PageInv /\ LeakInv
      /\ "mprotect" \in ops /\ p \in live /\ first < end
      /\ Has(areas[p], first) /\ end <= areas[p][First(areas[p], first)].end
      /\ areas' = [areas EXCEPT ![p] = new]
      /\ pt' = [pt EXCEPT ![p] = [v \in VPage |-> IF v \in range /\ pt[p][v] # None
                                                  THEN [pt[p][v] EXCEPT !.write = write] ELSE pt[p][v]]]
      /\ UNCHANGED <<live, loaded, swapped, brk, content, free, slots, panic, ops>>
    BY Zenon DEF VmInv, Mprotect, Remap, HasArea, AreaOf
<1>2. "fork" \notin ops /\ "evict" \notin ops
    BY <1>1, ZenonT(60) DEF Apart
<1>3. areas[p] \in Seq(Area) /\ Disjoint(areas[p])
    BY <1>1, ZenonT(60) DEF TypeOK, AreaInv
<1>4. /\ new \in Seq(Area) /\ Disjoint(new)
      /\ \A v \in VPage :
           /\ Has(new, v) <=> Has(areas[p], v)
           /\ Has(areas[p], v) =>
                new[First(new, v)].write = IF v \in range THEN write
                                           ELSE areas[p][First(areas[p], v)].write
           /\ v \in range => Has(areas[p], v)
    BY <1>1, <1>3, ProtectSound, SMTT(60)
<1> HIDE DEF new, range
<1>5. /\ areas'[p] = new /\ areas' \in [Proc -> Seq(Area)]
      /\ \A q \in Proc : q # p => areas'[q] = areas[q]
    BY <1>1, <1>4, Zenon DEF TypeOK
<1>6. /\ \A q \in Proc : q # p => pt'[q] = pt[q]
      /\ \A v \in VPage : pt'[p][v] = IF v \in range /\ pt[p][v] # None
                                      THEN [pt[p][v] EXCEPT !.write = write] ELSE pt[p][v]
    BY <1>1, Zenon DEF TypeOK
<1>7. \A v \in VPage : pt[p][v] # None =>
        LET e == [pt[p][v] EXCEPT !.write = write]
        IN  e \in Entry /\ e # None /\ e.frame = pt[p][v].frame /\ e.write = write
    <2> SUFFICES ASSUME NEW v \in VPage, pt[p][v] # None
                 PROVE  LET e == [pt[p][v] EXCEPT !.write = write]
                        IN  e \in Entry /\ e # None /\ e.frame = pt[p][v].frame /\ e.write = write
        BY Zenon
    <2>1. pt[p][v] \in Entry
        BY <1>1, SMTT(60) DEF TypeOK
    <2>2. [pt[p][v] EXCEPT !.write = write] \in Entry
        BY <2>1, Zenon DEF Entry
    <2>3. None \notin Entry
        BY <1>1, Zenon DEF VmmAssumption
    <2> QED
        BY <2>1, <2>2, <2>3, Zenon DEF Entry
<1>8. \A q \in Proc, v \in VPage :
        /\ pt'[q][v] # None <=> pt[q][v] # None
        /\ pt[q][v] # None => pt'[q][v].frame = pt[q][v].frame
        /\ q # p => pt'[q][v] = pt[q][v]
        /\ q = p /\ pt[q][v] # None => pt'[q][v].write = IF v \in range THEN write ELSE pt[q][v].write
    <2> SUFFICES ASSUME NEW q \in Proc, NEW v \in VPage
                 PROVE  /\ pt'[q][v] # None <=> pt[q][v] # None
                        /\ pt[q][v] # None => pt'[q][v].frame = pt[q][v].frame
                        /\ q # p => pt'[q][v] = pt[q][v]
                        /\ q = p /\ pt[q][v] # None => pt'[q][v].write = IF v \in range THEN write ELSE pt[q][v].write
        BY Zenon
    <2>1. CASE q # p
        BY <1>6, <2>1, ZenonT(60)
    <2>2. CASE q = p /\ v \in range /\ pt[p][v] # None
        <3>1. pt'[p][v] = [pt[p][v] EXCEPT !.write = write]
            BY <1>6, <2>2, ZenonT(60)
        <3>2. pt'[p][v] # None /\ pt'[p][v].frame = pt[p][v].frame /\ pt'[p][v].write = write
            BY <1>7, <2>2, <3>1, ZenonT(60)
        <3> QED
            BY <2>2, <3>2, ZenonT(60)
    <2>3. CASE q = p /\ ~(v \in range /\ pt[p][v] # None)
        BY <1>6, <2>3, ZenonT(60)
    <2> QED
        BY <2>1, <2>2, <2>3, Zenon
<1>9. pt' \in [Proc -> [VPage -> Entry \cup {None}]]
    <2> DEFINE m == [v \in VPage |-> IF v \in range /\ pt[p][v] # None
                                     THEN [pt[p][v] EXCEPT !.write = write] ELSE pt[p][v]]
    <2>1. m \in [VPage -> Entry \cup {None}]
        BY <1>1, <1>7, SMTT(60) DEF TypeOK
    <2> HIDE DEF m
    <2>2. pt' = [pt EXCEPT ![p] = m]
        BY <1>1, Zenon DEF m
    <2> QED
        BY <1>1, <2>1, <2>2, ZenonT(60) DEF TypeOK
<1>10. TypeOK'
    BY <1>1, <1>5, <1>9, Zenon DEF TypeOK
<1>11. FrameInv'
    <2>1. Distinct(free') /\ \A q \in Proc, v \in VPage : pt'[q][v] # None => ~Contains(free', pt'[q][v].frame)
        BY <1>1, <1>8, ZenonT(60) DEF FrameInv
    <2>2. \A q, r \in Proc, t, u \in VPage :
            pt'[q][t] # None /\ pt'[r][u] # None /\ pt'[q][t].frame = pt'[r][u].frame => q = r /\ t = u
        BY <1>1, <1>2, <1>8, SMTT(60) DEF FrameInv
    <2> QED
        BY <2>1, <2>2, SMTT(60) DEF FrameInv
<1>12. \A q \in Proc, v \in VPage : swapped'[q][v] = None
    BY <1>1, <1>2, Zenon DEF SlotInv
<1>13. SlotInv'
    BY <1>12, Zenon DEF SlotInv
<1>14. LeakInv'
    <2>1. \A f \in Frame : \/ Contains(free', f)
                           \/ \E q \in Proc, v \in VPage : pt'[q][v] # None /\ pt'[q][v].frame = f
        BY <1>1, <1>2, <1>8, SMTT(60) DEF LeakInv
    <2>2. \A s \in Slot : slots'[s] # None =>
            \E q \in Proc, v \in VPage : swapped'[q][v] # None /\ swapped'[q][v].slot = s
        BY <1>1, <1>2, ZenonT(60) DEF LeakInv
    <2> QED
        BY <2>1, <2>2, Zenon DEF LeakInv
<1>15. AreaInv'
    <2>1. \A q \in Proc : Disjoint(areas'[q])
        BY <1>1, <1>4, <1>5, ZenonT(60) DEF AreaInv
    <2>2. \A q \in Proc \ live' : areas'[q] = << >> /\ brk'[q] = 0
        BY <1>1, <1>5, ZenonT(60) DEF AreaInv
    <2>3. \A q \in live' : brk'[q] = 0 /\ \A v \in VPage : Has(areas'[q], v) <=> v >= StackBottom
        BY <1>1, <1>4, <1>5, ZenonT(60) DEF AreaInv, TypeOK
    <2> QED
        BY <1>1, <2>1, <2>2, <2>3, Zenon DEF AreaInv
<1>16. \A v \in VPage :
         /\ HasArea(p, v)' <=> HasArea(p, v)
         /\ HasArea(p, v) => AreaOf(p, v)'.write = IF v \in range THEN write ELSE AreaOf(p, v).write
         /\ v \in range => HasArea(p, v)
    BY <1>4, <1>5, ZenonT(60) DEF HasArea, AreaOf
<1>17. PageInv'
    <2>1. \A q \in Proc, v \in VPage : q # p => HasArea(q, v)' = HasArea(q, v) /\ AreaOf(q, v)' = AreaOf(q, v)
        BY <1>5, ZenonT(60) DEF HasArea, AreaOf
    <2>2. ASSUME NEW q \in Proc, NEW v \in VPage, pt'[q][v] # None
          PROVE  /\ HasArea(q, v)'
                 /\ pt'[q][v].write => AreaOf(q, v)'.write
                 /\ "fork" \notin ops' /\ AreaOf(q, v)'.write => pt'[q][v].write
        <3>1. CASE q # p
            BY <1>1, <1>8, <2>1, <2>2, <3>1, SMTT(60) DEF PageInv
        <3>2. CASE q = p
            <4>1. /\ HasArea(p, v) /\ HasArea(p, v)' /\ pt[p][v] # None
                  /\ pt[p][v].write <=> AreaOf(p, v).write
                BY <1>1, <1>2, <1>8, <1>16, <2>2, <3>2, ZenonT(60) DEF PageInv
            <4>2. /\ pt'[p][v].write = IF v \in range THEN write ELSE pt[p][v].write
                  /\ AreaOf(p, v)'.write = IF v \in range THEN write ELSE AreaOf(p, v).write
                BY <1>8, <1>16, <4>1, ZenonT(60)
            <4> QED
                BY <3>2, <4>1, <4>2, Zenon
        <3> QED
            BY <3>1, <3>2, ZenonT(60)
    <2> QED
        BY <1>12, <2>2, ZenonT(60) DEF PageInv
<1>18. VmInv'
    BY <1>1, <1>10, <1>11, <1>13, <1>14, <1>15, <1>17, ZenonT(60) DEF VmInv, Apart, FaultsServed
<1> QED
    BY <1>5, <1>8, <1>16, <1>18, ZenonT(60) DEF range

\* Process q after the fork of c from p: c has the pages of p.
Source(q, p, c) == IF q = c THEN p ELSE q

LEMMA ForkSound ==
    ASSUME VmInv, panic = None, NEW p \in Proc, NEW c \in Proc, Fork(p, c), UNCHANGED ops
    PROVE  /\ VmInv'
           /\ \A v \in VPage : pt[c][v] = None
           /\ \A q \in Proc, v \in VPage :
                /\ pt'[q][v] # None <=> pt[Source(q, p, c)][v] # None
                /\ pt'[q][v] # None => pt'[q][v].frame = pt[Source(q, p, c)][v].frame
           /\ \A q \in Proc : areas'[q] = areas[Source(q, p, c)] /\ brk'[q] = brk[Source(q, p, c)]
           /\ \A q \in Proc, v \in VPage : swapped[q][v] = None
<1> DEFINE S(q) == Source(q, p, c)
           shared == [v \in VPage |-> IF HasArea(p, v) THEN ReadOnly(pt[p][v]) ELSE None]
<1>1. /\ VmmAssumption /\ Apart /\ TypeOK /\ FrameInv /\ SlotInv /\ AreaInv /\ PageInv /\ LeakInv
      /\ "fork" \in ops /\ p \in live /\ c \notin live
      /\ live' = live \cup {c}
      /\ areas' = [areas EXCEPT ![c] = areas[p]]
      /\ brk' = [brk EXCEPT ![c] = brk[p]]
      /\ pt' = [pt EXCEPT ![p] = [v \in VPage |-> IF HasArea(p, v) THEN shared[v] ELSE pt[p][v]],
                          ![c] = shared]
      /\ UNCHANGED <<loaded, swapped, content, free, slots, panic, ops>>
    BY ZenonT(60) DEF VmInv, Fork, Share
<1>2. p # c /\ "evict" \notin ops /\ "mprotect" \notin ops
    BY <1>1, ZenonT(60) DEF Apart
<1>3. \A q \in Proc, v \in VPage : swapped[q][v] = None
    BY <1>1, <1>2, ZenonT(60) DEF SlotInv
<1>4. \A v \in VPage : pt[c][v] = None
    BY <1>1, SMTT(60) DEF AreaInv, PageInv, HasArea, Has
<1>5. \A v \in VPage : ReadOnly(pt[p][v]) \in Entry \cup {None}
    <2> SUFFICES ASSUME NEW v \in VPage
                 PROVE  ReadOnly(pt[p][v]) \in Entry \cup {None}
        BY Zenon
    <2>1. CASE pt[p][v] = None
        BY <2>1, ZenonT(60) DEF ReadOnly
    <2>2. CASE pt[p][v] # None
        <3>1. pt[p][v] \in Entry
            BY <1>1, <2>2, SMTT(60) DEF TypeOK
        <3> QED
            BY <2>2, <3>1, ZenonT(60) DEF ReadOnly, Entry
    <2> QED
        BY <2>1, <2>2, ZenonT(60)
<1>6. \A v \in VPage : shared[v] = ReadOnly(pt[p][v])
    BY <1>1, Zenon DEF PageInv, ReadOnly
<1>7. shared \in [VPage -> Entry \cup {None}]
    BY <1>5, Zenon
<1> HIDE DEF shared
<1>8. /\ pt' \in [Proc -> [VPage -> Entry \cup {None}]]
      /\ \A v \in VPage : pt'[p][v] = shared[v] /\ pt'[c][v] = shared[v]
      /\ \A q \in Proc : q # p /\ q # c => pt'[q] = pt[q]
    <2> DEFINE m == [v \in VPage |-> IF HasArea(p, v) THEN shared[v] ELSE pt[p][v]]
    <2>1. m \in [VPage -> Entry \cup {None}]
        BY <1>1, <1>7, SMTT(60) DEF TypeOK
    <2>2. \A v \in VPage : m[v] = shared[v]
        BY <1>1, <1>6, Zenon DEF PageInv, ReadOnly
    <2> HIDE DEF m
    <2>3. pt' = [pt EXCEPT ![p] = m, ![c] = shared]
        BY <1>1, Zenon DEF m
    <2>4. pt \in [Proc -> [VPage -> Entry \cup {None}]]
        BY <1>1, ZenonT(60) DEF TypeOK
    <2>5. pt' \in [Proc -> [VPage -> Entry \cup {None}]]
        BY <1>7, <2>1, <2>3, <2>4, ZenonT(60)
    <2>6. pt'[p] = m /\ pt'[c] = shared /\ \A q \in Proc : q # p /\ q # c => pt'[q] = pt[q]
        BY <1>2, <2>3, <2>4, ZenonT(60)
    <2> QED
        BY <2>2, <2>5, <2>6, ZenonT(60)
<1>9. \A v \in VPage :
        /\ shared[v] # None <=> pt[p][v] # None
        /\ shared[v] # None => shared[v].frame = pt[p][v].frame /\ shared[v].write = FALSE
    <2> SUFFICES ASSUME NEW v \in VPage
                 PROVE  /\ shared[v] # None <=> pt[p][v] # None
                        /\ shared[v] # None => shared[v].frame = pt[p][v].frame /\ shared[v].write = FALSE
        BY Zenon
    <2>1. CASE pt[p][v] = None
        BY <1>6, <2>1, Zenon DEF ReadOnly
    <2>2. CASE pt[p][v] # None
        <3>1. pt[p][v] \in Entry
            BY <1>1, <2>2, SMTT(60) DEF TypeOK
        <3>2. shared[v] = [pt[p][v] EXCEPT !.write = FALSE]
            BY <1>6, <2>2, Zenon DEF ReadOnly
        <3>3. shared[v] \in Entry /\ shared[v].frame = pt[p][v].frame /\ shared[v].write = FALSE
            BY <3>1, <3>2, ZenonT(60) DEF Entry
        <3> QED
            BY <1>1, <2>2, <3>3, ZenonT(60) DEF VmmAssumption
    <2> QED
        BY <2>1, <2>2, ZenonT(60)
<1>10. \A q \in Proc, v \in VPage :
         /\ S(q) \in Proc
         /\ pt'[q][v] # None <=> pt[S(q)][v] # None
         /\ pt'[q][v] # None => pt'[q][v].frame = pt[S(q)][v].frame
         /\ pt'[q][v] # None /\ q \in {p, c} => pt'[q][v].write = FALSE
         /\ q \notin {p, c} => S(q) = q /\ pt'[q][v] = pt[q][v]
    BY <1>8, <1>9, ZenonT(60) DEF Source
<1>11. \A q \in Proc : areas'[q] = areas[S(q)] /\ brk'[q] = brk[S(q)]
    BY <1>1, Zenon DEF Source, TypeOK
<1> HIDE DEF S
<1>12. TypeOK'
    <2>1. areas' \in [Proc -> Seq(Area)] /\ brk' \in [Proc -> 0..(StackBottom - 1)]
        BY <1>1, ZenonT(60) DEF TypeOK
    <2> QED
        BY <1>1, <1>8, <2>1, ZenonT(60) DEF TypeOK
<1>13. FrameInv'
    <2>1. Distinct(free')
        BY <1>1, Zenon DEF FrameInv
    <2>2. \A q \in Proc, v \in VPage : pt'[q][v] # None => ~Contains(free', pt'[q][v].frame)
        BY <1>1, <1>10, ZenonT(60) DEF FrameInv
    <2>3. ASSUME NEW q \in Proc, NEW r \in Proc, NEW t \in VPage, NEW u \in VPage,
                 pt'[q][t] # None, pt'[r][u] # None, pt'[q][t].frame = pt'[r][u].frame,
                 ~(q = r /\ t = u)
          PROVE  ~pt'[q][t].write
        <3>1. CASE q \in {p, c}
            BY <1>10, <2>3, <3>1, ZenonT(60)
        <3>2. CASE q \notin {p, c}
            <4>1. pt'[q][t] = pt[q][t] /\ S(q) = q /\ S(r) \in Proc
                BY <1>10, <3>2, ZenonT(60)
            <4>2. pt[q][t] # None /\ pt[S(r)][u] # None /\ pt[q][t].frame = pt[S(r)][u].frame
                BY <1>10, <2>3, <4>1, ZenonT(60)
            <4>3. ~(q = S(r) /\ t = u)
                BY <2>3, <3>2, ZenonT(60) DEF S, Source
            <4> QED
                BY <1>1, <4>1, <4>2, <4>3, ZenonT(60) DEF FrameInv
        <3> QED
            BY <3>1, <3>2, ZenonT(60)
    <2> QED
        BY <1>1, <2>1, <2>2, <2>3, SMTT(60) DEF FrameInv
<1>14. SlotInv' /\ LeakInv'
    BY <1>1, <1>3, SMTT(60) DEF SlotInv, LeakInv
<1>15. AreaInv'
    <2>1. \A q \in Proc : S(q) \in Proc /\ (q \in live' => S(q) \in live) /\ (q \notin live' => S(q) = q /\ q \notin live)
        BY <1>1, ZenonT(60) DEF S, Source
    <2>2. \A q \in Proc : Disjoint(areas'[q])
        BY <1>1, <1>11, <2>1, ZenonT(60) DEF AreaInv
    <2>3. \A q \in Proc \ live' : areas'[q] = << >> /\ brk'[q] = 0
        BY <1>1, <1>11, <2>1, ZenonT(60) DEF AreaInv
    <2>4. \A q \in live' : \/ areas'[q] = <<StackArea>> /\ brk'[q] = 0
                           \/ areas'[q] = <<StackArea, HeapArea(brk'[q])>>
        <3> SUFFICES ASSUME NEW q \in live'
                     PROVE  \/ areas'[q] = <<StackArea>> /\ brk'[q] = 0
                            \/ areas'[q] = <<StackArea, HeapArea(brk'[q])>>
            BY Zenon
        <3>1. q \in Proc
            BY <1>1, ZenonT(60) DEF TypeOK
        <3> QED
            BY <1>1, <1>2, <1>11, <2>1, <3>1, ZenonT(60) DEF AreaInv
    <2> QED
        BY <1>1, <1>2, <2>2, <2>3, <2>4, Zenon DEF AreaInv, StackArea, HeapArea
<1>16. PageInv'
    <2>1. \A q \in Proc, v \in VPage : HasArea(q, v)' = HasArea(S(q), v) /\ AreaOf(q, v)' = AreaOf(S(q), v)
        BY <1>11, ZenonT(60) DEF HasArea, AreaOf
    <2>2. ASSUME NEW q \in Proc, NEW v \in VPage, pt'[q][v] # None
          PROVE  HasArea(q, v)' /\ (pt'[q][v].write => AreaOf(q, v)'.write)
        <3>1. S(q) \in Proc /\ pt[S(q)][v] # None /\ (pt'[q][v].write => pt[S(q)][v].write)
            BY <1>10, <2>2, ZenonT(60)
        <3>2. HasArea(S(q), v) /\ (pt[S(q)][v].write => AreaOf(S(q), v).write)
            BY <1>1, <3>1, ZenonT(60) DEF PageInv
        <3> QED
            BY <2>1, <3>1, <3>2, ZenonT(60)
    <2> QED
        BY <1>1, <1>3, <2>2, ZenonT(60) DEF PageInv
<1>17. VmInv'
    BY <1>1, <1>12, <1>13, <1>14, <1>15, <1>16, ZenonT(60) DEF VmInv, Apart, FaultsServed
<1> QED
    BY <1>3, <1>4, <1>10, <1>11, <1>17, ZenonT(60) DEF S

LEMMA InitSound ==
    ASSUME VmmAssumption, Compatible, Init
    PROVE  VmInv
<1>1. ops \in OpSets /\ panic = None
    BY Zenon DEF Init
<1>2. Apart
    <2>1. /\ ~({"fork", "shrink"} \subseteq ops) /\ ~({"fork", "evict"} \subseteq ops)
          /\ ~({"fork", "mprotect"} \subseteq ops) /\ ~({"mprotect", "evict"} \subseteq ops)
          /\ ~({"mprotect", "brk"} \subseteq ops) /\ ~({"evict", "shrink"} \subseteq ops)
        BY <1>1, ZenonT(60) DEF Compatible, Conflicts
    <2> QED
        BY <2>1, ZenonT(60) DEF Apart
<1>3. free \in Seq(Frame) /\ Distinct(free) /\ \A f \in Frame : Contains(free, f)
    BY AllFree, ZenonT(60) DEF Init, VmmAssumption
<1>4. /\ \A p \in Proc : areas[p] = << >> /\ brk[p] = 0
      /\ \A p \in Proc, v \in VPage : pt[p][v] = None /\ swapped[p][v] = None
      /\ \A s \in Slot : slots[s] = None
    BY Zenon DEF Init, NoEntries
<1>5. TypeOK
    <2>1. 0 \in 0..(StackBottom - 1)
        BY Pages, SMTT(60)
    <2>2. areas \in [Proc -> Seq(Area)] /\ brk \in [Proc -> 0..(StackBottom - 1)]
        BY <2>1, SMTT(60) DEF Init
    <2>3. /\ swapped \in [Proc -> [VPage -> SwapEntry \cup {None}]]
          /\ pt \in [Proc -> [VPage -> Entry \cup {None}]]
        BY ZenonT(60) DEF Init, NoEntries
    <2>4. content \in [Frame -> Value \cup {Junk}] /\ slots \in [Slot -> Value \cup {None, Junk}]
        BY ZenonT(60) DEF Init
    <2> QED
        BY <1>1, <1>3, <2>2, <2>3, <2>4, ZenonT(60) DEF Init, TypeOK
<1>6. FrameInv /\ SlotInv /\ PageInv /\ LeakInv
    BY <1>3, <1>4, ZenonT(60) DEF FrameInv, SlotInv, PageInv, LeakInv
<1>7. AreaInv
    <2>1. Disjoint(<< >>) /\ live = {}
        BY SMTT(60) DEF Disjoint, Init
    <2> QED
        BY <1>4, <2>1, ZenonT(60) DEF AreaInv
<1> QED
    BY <1>1, <1>2, <1>5, <1>6, <1>7, ZenonT(60) DEF VmInv, FaultsServed

\* Every step of the kernel or of a program keeps the invariant.
LEMMA NextSound ==
    ASSUME VmInv, [Next]_vars
    PROVE  VmInv'
<1>1. CASE Next
    <2>1. PICK p \in Proc : Step(p)
        BY <1>1, ZenonT(60) DEF Next
    <2>2. panic = None /\ UNCHANGED ops
        BY <1>1, ZenonT(60) DEF Next
    <2>3. CASE Load(p)
        BY <2>2, <2>3, LoadSound, ZenonT(60)
    <2>4. ASSUME NEW v \in VPage, NEW x \in Value, Write(p, v, x) PROVE VmInv'
        BY <2>2, <2>4, WriteSound, ZenonT(60)
    <2>5. ASSUME NEW v \in VPage, NEW write \in BOOLEAN, Fault(p, v, write) PROVE VmInv'
        BY <2>2, <2>5, FaultSound, ZenonT(60)
    <2>6. ASSUME NEW v \in VPage, NEW write \in BOOLEAN, ThreadFault(p, v, write) PROVE VmInv'
        BY <2>2, <2>6, ThreadFaultSound, ZenonT(60)
    <2>7. ASSUME NEW v \in VPage, Evict(p, v) PROVE VmInv'
        BY <2>2, <2>7, EvictSound, ZenonT(60)
    <2>8. ASSUME NEW b \in VPage, Brk(p, b) PROVE VmInv'
        BY <2>2, <2>8, BrkSound, Zenon
    <2>9. ASSUME NEW first \in VPage, NEW end \in 1..NumPages, NEW write \in BOOLEAN,
                 Mprotect(p, first, end, write)
          PROVE  VmInv'
        BY <2>2, <2>9, MprotectSound, ZenonT(60)
    <2>10. ASSUME NEW c \in Proc, Fork(p, c) PROVE VmInv'
        BY <2>2, <2>10, ForkSound, ZenonT(60)
    <2> QED
        BY <2>1, <2>3, <2>4, <2>5, <2>6, <2>7, <2>8, <2>9, <2>10, Zenon DEF Step
<1>2. CASE UNCHANGED vars
    <2>1. UNCHANGED <<live, loaded, areas, swapped, pt, brk, content, free, slots, panic, ops>>
        BY <1>2, ZenonT(60) DEF vars
    <2>2. FrameInv' /\ SlotInv' /\ AreaInv' /\ PageInv' /\ LeakInv'
        BY <2>1, Kept, ZenonT(60) DEF VmInv
    <2>3. TypeOK' /\ Apart' /\ FaultsServed'
        BY <2>1, ZenonT(60) DEF VmInv, TypeOK, Apart, FaultsServed, Perm, HasArea, AreaOf
    <2> QED
        BY <2>2, <2>3, ZenonT(60) DEF VmInv
<1> QED
    BY <1>1, <1>2, Zenon

LEMMA VmInvHolds == VmmAssumption /\ Compatible /\ Spec => []VmInv
<1>1. VmmAssumption /\ Compatible /\ Init => VmInv
    BY InitSound, ZenonT(60)
<1>2. VmInv /\ [Next]_vars => VmInv'
    BY NextSound, ZenonT(60)
<1> QED
    BY <1>1, <1>2, PTL DEF Spec

\* A frame that somebody may write to is mapped once.
LEMMA WriterAlone ==
    ASSUME VmInv, NEW f \in Frame, NEW m \in Mapped(f), pt[m[1]][m[2]].write
    PROVE  Mapped(f) = {m}
<1>1. FrameInv /\ m \in Proc \X VPage /\ pt[m[1]][m[2]] # None /\ pt[m[1]][m[2]].frame = f
    BY ZenonT(60) DEF VmInv, Mapped
<1>2. ASSUME NEW n \in Mapped(f) PROVE n = m
    <2>1. n \in Proc \X VPage /\ pt[n[1]][n[2]] # None /\ pt[n[1]][n[2]].frame = f
        BY ZenonT(60) DEF Mapped
    <2>2. n[1] = m[1] /\ n[2] = m[2]
        BY <1>1, <2>1, SMTT(60) DEF FrameInv
    <2> QED
        BY <1>1, <2>1, <2>2, SMTT(60)
<1> QED
    BY <1>2, ZenonT(60)

LEMMA InvAccounts == VmInv => FramesAccounted
<1> SUFFICES ASSUME VmInv PROVE FramesAccounted
    BY ZenonT(60)
<1>1. TypeOK /\ FrameInv /\ LeakInv
    BY ZenonT(60) DEF VmInv
<1>2. ASSUME NEW f \in Frame, Mapped(f) # {} PROVE ~Contains(free, f)
    <2>1. PICK m \in Mapped(f) : TRUE
        BY <1>2, ZenonT(60)
    <2>2. m \in Proc \X VPage /\ pt[m[1]][m[2]] # None /\ pt[m[1]][m[2]].frame = f
        BY <2>1, ZenonT(60) DEF Mapped
    <2> QED
        BY <1>1, <2>2, ZenonT(60) DEF FrameInv
<1>3. ASSUME NEW f \in Frame, Cardinality(Mapped(f)) > 1, NEW m \in Mapped(f), pt[m[1]][m[2]].write
      PROVE  FALSE
    <2>1. Mapped(f) = {m}
        BY <1>3, WriterAlone, ZenonT(60)
    <2>2. Cardinality(Mapped(f)) = 1
        BY <2>1, FS_Singleton, ZenonT(60)
    <2> QED
        BY <1>3, <2>2, SMTT(60)
<1>4. FramesOwned
    BY <1>1, <1>2, <1>3, ZenonT(60) DEF FramesOwned, FrameInv, Distinct
<1>5. ASSUME NEW f \in Frame, NEW p \in Proc, NEW v \in VPage, pt[p][v] # None, pt[p][v].frame = f
      PROVE  Mapped(f) # {}
    <2>1. <<p, v>> \in Mapped(f)
        BY <1>5, ZenonT(60) DEF Mapped
    <2> QED
        BY <2>1, ZenonT(60)
<1>6. NothingLeaks
    BY <1>1, <1>5, SMTT(60) DEF NothingLeaks, LeakInv
<1> QED
    BY <1>1, <1>4, <1>6, Zenon DEF FramesAccounted

\* Every frame is free or mapped, free once, and writable for one process at most, and
\* without fork no frame and no slot is lost: handle_fault, shrink_heap, evict_addr and
\* fork_cow hand frames on without dropping or duplicating one, for any number of
\* processes, pages, frames and slots.
THEOREM FramesAreAccounted == VmmAssumption /\ Compatible /\ Spec => []FramesAccounted
    BY VmInvHolds, InvAccounts, PTL

LEMMA InvAreas == VmInv => AreasSound
<1> SUFFICES ASSUME VmInv PROVE AreasSound
    BY Zenon
<1>1. AreasDisjoint
    BY ZenonT(60) DEF VmInv, AreaInv, AreasDisjoint
<1>2. NoStrayRights
    BY ZenonT(60) DEF VmInv, PageInv, NoStrayRights
<1> QED
    BY <1>1, <1>2, ZenonT(60) DEF VmInv, AreasSound

\* Areas never overlap, a page table gives no right its area does not, and the page
\* fault handler panics only for want of a frame or on an access that the areas forbid,
\* for any behaviour of compatible calls.
THEOREM AreasStaySound == VmmAssumption /\ Compatible /\ Spec => []AreasSound
    BY VmInvHolds, InvAreas, PTL
-----------------------------------------------------------------------------
(* Refinement: what processes see. *)

\* The right that the areas give.
Right(p, v) == IF HasArea(p, v) THEN IF AreaOf(p, v).write THEN "rw" ELSE "r" ELSE "none"

\* Page tables and swapped pages add nothing to what the areas say.
LEMMA PermIsRight == VmInv => \A p \in Proc, v \in VPage : Perm(p, v) = Right(p, v)
<1> SUFFICES ASSUME VmInv, NEW p \in Proc, NEW v \in VPage PROVE Perm(p, v) = Right(p, v)
    BY ZenonT(60)
<1>1. /\ pt[p][v] # None => HasArea(p, v) /\ (pt[p][v].write => AreaOf(p, v).write)
      /\ swapped[p][v] # None => HasArea(p, v) /\ (swapped[p][v].write <=> AreaOf(p, v).write)
    BY ZenonT(60) DEF VmInv, PageInv
<1> QED
    BY <1>1, ZenonT(60) DEF Perm, Right

LEMMA PermIsRightNext == VmInv' => (\A p \in Proc, v \in VPage : Perm(p, v) = Right(p, v))'
    BY PermIsRight, PTL

\* Steps that change no area, or the areas of one process.
LEMMA PermsSame ==
    ASSUME VmInv, VmInv', areas' = areas
    PROVE  Perms' = Perms
<1>1. \A p \in Proc, v \in VPage : Perm(p, v)' = Perm(p, v)
    BY PermIsRight, PermIsRightNext, ZenonT(60) DEF Right, HasArea, AreaOf
<1> QED
    BY <1>1, ZenonT(60) DEF Perms

LEMMA PermsMove ==
    ASSUME VmInv, VmInv', NEW p \in Proc, NEW S, NEW F \in [VPage -> S],
           \A q \in Proc : q # p => areas'[q] = areas[q],
           \A v \in VPage : Right(p, v)' = F[v]
    PROVE  Perms' = [Perms EXCEPT ![p] = F]
<1>1. \A q \in Proc, v \in VPage : q # p => Perm(q, v)' = Perm(q, v)
    BY PermIsRight, PermIsRightNext, ZenonT(60) DEF Right, HasArea, AreaOf
<1>2. \A v \in VPage : Perm(p, v)' = F[v]
    BY PermIsRightNext, ZenonT(60)
<1>3. [v \in VPage |-> Perm(p, v)'] = F
    BY <1>2, ZenonT(60)
<1> QED
    BY <1>1, <1>3, ZenonT(60) DEF Perms

LEMMA ValsSame ==
    ASSUME \A p \in Proc, v \in VPage : Val(p, v)' = Val(p, v)
    PROVE  Vals' = Vals
    BY ZenonT(60) DEF Vals

LEMMA ValsMove ==
    ASSUME NEW p \in Proc, NEW S, NEW F \in [VPage -> S],
           \A q \in Proc, v \in VPage : q # p => Val(q, v)' = Val(q, v),
           \A v \in VPage : Val(p, v)' = F[v]
    PROVE  Vals' = [Vals EXCEPT ![p] = F]
<1>1. [v \in VPage |-> Val(p, v)'] = F
    BY ZenonT(60)
<1> QED
    BY <1>1, ZenonT(60) DEF Vals

\* The load of a program gives it a stack of zeroes.
LEMMA LoadRefines ==
    ASSUME VmInv, VmInv', NEW p \in Proc, Load(p)
    PROVE  Spaces!Load(p)
<1> DEFINE F == [v \in VPage |-> IF v \in StackBottom..(NumPages - 1) THEN "rw" ELSE "none"]
<1>1. /\ VmmAssumption /\ TypeOK /\ p \notin live /\ live' = live \cup {p}
      /\ areas' = [areas EXCEPT ![p] = <<StackArea>>]
      /\ UNCHANGED <<swapped, pt, brk, content, slots>>
    BY ZenonT(60) DEF VmInv, Load, StackArea
<1>2. areas'[p] = <<StackArea>> /\ \A q \in Proc : q # p => areas'[q] = areas[q]
    BY <1>1, ZenonT(60) DEF TypeOK
<1>3. \A v \in VPage : Right(p, v)' = F[v]
    <2> SUFFICES ASSUME NEW v \in VPage
                 PROVE  Right(p, v)' = F[v]
        BY Zenon
    <2>1. v \in StackBottom..(NumPages - 1) <=> v >= StackBottom
        BY <1>1, Pages, SMTT(60)
    <2>2. /\ HasArea(p, v)' <=> v >= StackBottom
          /\ HasArea(p, v)' => AreaOf(p, v)'.write = TRUE
        BY <1>1, <1>2, StackOnly, ZenonT(60) DEF HasArea, AreaOf
    <2> QED
        BY <2>1, <2>2, ZenonT(60) DEF Right
<1>4. Perms' = [Perms EXCEPT ![p] = F]
    <2>1. F \in [VPage -> {"rw", "none"}]
        BY Zenon
    <2> HIDE DEF F
    <2> QED
        BY <1>2, <1>3, <2>1, PermsMove, ZenonT(60)
<1>5. Vals' = Vals
    BY <1>1, ValsSame, ZenonT(60) DEF Val
<1> QED
    BY <1>1, <1>4, <1>5, ZenonT(60) DEF Spaces!Load, Spaces!VPage, Spaces!Stack, VPage

\* A write reaches the page of the writer and no other: its frame is not shared.
LEMMA WriteRefines ==
    ASSUME VmInv, VmInv', NEW p \in Proc, NEW v \in VPage, NEW x \in Value, Write(p, v, x)
    PROVE  Spaces!Write(p, v, x)
<1> DEFINE f == pt[p][v].frame
<1>1. /\ TypeOK /\ FrameInv /\ SlotInv /\ PageInv /\ pt[p][v] # None /\ pt[p][v].write
      /\ content' = [content EXCEPT ![f] = x]
      /\ UNCHANGED <<live, areas, swapped, pt, brk, slots>>
    BY ZenonT(60) DEF VmInv, Write
<1>2. HasArea(p, v) /\ AreaOf(p, v).write
    BY <1>1, ZenonT(60) DEF PageInv
<1>3. p \in live /\ Perms[p][v] = "rw"
    BY <1>2, AreaFacts, PermIsRight, ZenonT(60) DEF Right, Perms
<1>4. Perms' = Perms
    BY <1>1, PermsSame, ZenonT(60)
<1>5. f \in Frame
    <2>1. pt[p][v] \in Entry
        BY <1>1, ZenonT(60) DEF TypeOK
    <2> QED
        BY <2>1, ZenonT(60) DEF Entry
<1>6. Val(p, v)' = x
    <2>1. swapped[p][v] = None /\ content'[f] = x
        BY <1>1, <1>5, ZenonT(60) DEF SlotInv, TypeOK
    <2> QED
        BY <1>1, <2>1, Zenon DEF Val
<1>7. ASSUME NEW q \in Proc, NEW u \in VPage, ~(q = p /\ u = v) PROVE Val(q, u)' = Val(q, u)
    <2>1. CASE swapped[q][u] # None \/ pt[q][u] = None
        BY <1>1, <2>1, ZenonT(60) DEF Val
    <2>2. CASE swapped[q][u] = None /\ pt[q][u] # None
        <3>1. pt[q][u].frame # f
            BY <1>1, <1>7, <2>2, ZenonT(60) DEF FrameInv
        <3>2. pt[q][u] \in Entry
            BY <1>1, <2>2, SMTT(60) DEF TypeOK
        <3>3. content'[pt[q][u].frame] = content[pt[q][u].frame]
            BY <1>1, <3>1, <3>2, Zenon DEF TypeOK, Entry
        <3> QED
            BY <1>1, <2>2, <3>3, ZenonT(60) DEF Val
    <2> QED
        BY <2>1, <2>2, ZenonT(60)
<1>8. Vals' = [Vals EXCEPT ![p][v] = x]
    BY <1>6, <1>7, Zenon DEF Vals
<1> QED
    BY <1>1, <1>3, <1>4, <1>8, ZenonT(60) DEF Spaces!Write

\* A frame taken from the free list is nobody's: what others find stays.
LEMMA FillRefines ==
    ASSUME VmInv, VmInv', NEW p \in Proc, NEW v \in VPage, NEW w \in BOOLEAN,
           MapNew(p, v, Val(p, v), w),
           swapped'[p][v] = None,
           \A q \in Proc, u \in VPage : q # p \/ u # v =>
             /\ swapped'[q][u] = swapped[q][u]
             /\ swapped[q][u] # None => slots'[swapped[q][u].slot] = slots[swapped[q][u].slot]
    PROVE  UNCHANGED <<live, brk, Perms, Vals>>
<1> DEFINE h == Head(free)
           e == [frame |-> h, write |-> w]
<1>1. /\ VmmAssumption /\ TypeOK /\ TypeOK' /\ FrameInv /\ free # << >>
      /\ content' = [content EXCEPT ![h] = Val(p, v)]
      /\ pt' = [pt EXCEPT ![p][v] = e]
      /\ UNCHANGED <<live, areas, brk>>
    BY ZenonT(60) DEF VmInv, MapNew
<1>2. h \in Frame /\ Contains(free, h)
    BY <1>1, TakeHead, ZenonT(60) DEF TypeOK, FrameInv
<1> HIDE DEF h
<1>3. Perms' = Perms
    BY <1>1, PermsSame, ZenonT(60)
<1>4. Val(p, v)' = Val(p, v)
    <2>1. pt'[p][v] = e /\ e.frame = h /\ content'[h] = Val(p, v)
        BY <1>1, <1>2, ZenonT(60) DEF TypeOK
    <2>2. e # None
        <3>1. e \in Entry
            BY <1>2, ZenonT(60) DEF Entry
        <3> QED
            BY <1>1, <3>1, ZenonT(60) DEF VmmAssumption
    <2> QED
        BY <2>1, <2>2, ZenonT(60) DEF Val
<1>5. ASSUME NEW q \in Proc, NEW u \in VPage, q # p \/ u # v PROVE Val(q, u)' = Val(q, u)
    <2>1. pt'[q][u] = pt[q][u] /\ swapped'[q][u] = swapped[q][u]
        BY <1>1, <1>5, ZenonT(60) DEF TypeOK
    <2>2. CASE swapped[q][u] # None \/ pt[q][u] = None
        BY <1>5, <2>1, <2>2, ZenonT(60) DEF Val
    <2>3. CASE swapped[q][u] = None /\ pt[q][u] # None
        <3>1. pt[q][u].frame # h
            BY <1>1, <1>2, <2>3, ZenonT(60) DEF FrameInv
        <3>2. pt[q][u] \in Entry
            BY <1>1, <2>3, SMTT(60) DEF TypeOK
        <3>3. content'[pt[q][u].frame] = content[pt[q][u].frame]
            BY <1>1, <3>1, <3>2, ZenonT(60) DEF TypeOK, Entry
        <3> QED
            BY <2>1, <2>3, <3>3, ZenonT(60) DEF Val
    <2> QED
        BY <2>2, <2>3, ZenonT(60)
<1>6. Vals' = Vals
    BY <1>4, <1>5, ValsSame, ZenonT(60)
<1> QED
    BY <1>1, <1>3, <1>6, Zenon

\* Page faults are not to be seen: what they bring is what was there.
LEMMA FaultRefines ==
    ASSUME VmInv, VmInv', NEW p \in Proc, NEW v \in VPage, NEW write \in BOOLEAN, Fault(p, v, write)
    PROVE  UNCHANGED <<live, brk, Perms, Vals>>
<1>1. VmmAssumption /\ TypeOK /\ SlotInv
    BY ZenonT(60) DEF VmInv
<1>2. CASE SwapIn(p, v)
    <2> DEFINE s == swapped[p][v].slot
    <2>1. /\ swapped[p][v] # None /\ MapNew(p, v, slots[s], swapped[p][v].write)
          /\ swapped' = [swapped EXCEPT ![p][v] = None]
          /\ slots' = [slots EXCEPT ![s] = None]
        BY <1>2, ZenonT(60) DEF SwapIn
    <2>2. Val(p, v) = slots[s]
        BY <2>1, ZenonT(60) DEF Val
    <2>3. /\ swapped'[p][v] = None
          /\ \A q \in Proc, u \in VPage : q # p \/ u # v => swapped'[q][u] = swapped[q][u]
        BY <1>1, <2>1, ZenonT(60) DEF TypeOK
    <2>4. ASSUME NEW q \in Proc, NEW u \in VPage, q # p \/ u # v, swapped[q][u] # None
          PROVE  slots'[swapped[q][u].slot] = slots[swapped[q][u].slot]
        <3>1. swapped[q][u].slot # s
            BY <1>1, <2>1, <2>4, ZenonT(60) DEF SlotInv
        <3>2. swapped[q][u] \in SwapEntry
            BY <1>1, <2>4, SMTT(60) DEF TypeOK
        <3> QED
            BY <1>1, <2>1, <3>1, <3>2, ZenonT(60) DEF TypeOK, SwapEntry
    <2>5. swapped[p][v] \in SwapEntry
        BY <1>1, <2>1, SMTT(60) DEF TypeOK
    <2>6. swapped[p][v].write \in BOOLEAN
        BY <2>5, Zenon DEF SwapEntry
    <2> QED
        BY <2>1, <2>2, <2>3, <2>4, <2>6, FillRefines, SMTT(60)
<1>3. CASE ZeroFill(p, v)
    <2>1. /\ swapped[p][v] = None /\ pt[p][v] = None /\ UNCHANGED <<swapped, slots>>
          /\ HasArea(p, v) /\ MapNew(p, v, 0, AreaOf(p, v).write)
        BY <1>3, ZenonT(60) DEF ZeroFill
    <2>2. Val(p, v) = 0
        BY <2>1, ZenonT(60) DEF Val
    <2>3. AreaOf(p, v).write \in BOOLEAN
        BY <1>1, <2>1, AreaFacts, AreaInts, ZenonT(60)
    <2> QED
        BY <2>1, <2>2, <2>3, FillRefines, ZenonT(60)
<1>4. CASE CopyOnWrite(p, v)
    <2>1. /\ swapped[p][v] = None /\ pt[p][v] # None /\ UNCHANGED <<swapped, slots>>
          /\ MapNew(p, v, content[pt[p][v].frame], TRUE)
        BY <1>4, ZenonT(60) DEF CopyOnWrite
    <2>2. Val(p, v) = content[pt[p][v].frame]
        BY <2>1, ZenonT(60) DEF Val
    <2> QED
        BY <2>1, <2>2, FillRefines, ZenonT(60)
<1>5. CASE Panic(p, v, write)
    <2>1. UNCHANGED <<live, areas, swapped, pt, brk, content, slots>>
        BY <1>5, ZenonT(60) DEF Panic
    <2> QED
        BY <2>1, PermsSame, ValsSame, ZenonT(60) DEF Val
<1> QED
    BY <1>2, <1>3, <1>4, <1>5, ZenonT(60) DEF Fault

\* Eviction is not to be seen: the slot has what the frame had.
LEMMA EvictRefines ==
    ASSUME VmInv, VmInv', NEW p \in Proc, NEW v \in VPage, Evict(p, v)
    PROVE  UNCHANGED <<live, brk, Perms, Vals>>
<1> DEFINE f == pt[p][v].frame
<1>1. /\ VmmAssumption /\ Apart /\ TypeOK /\ FrameInv /\ SlotInv
      /\ "evict" \in ops /\ pt[p][v] # None
      /\ pt' = [pt EXCEPT ![p][v] = None]
      /\ content' = [content EXCEPT ![f] = Junk]
      /\ UNCHANGED <<live, areas, brk>>
    BY Zenon DEF VmInv, Evict
<1>2. PICK s \in Slot : /\ slots[s] = None
                        /\ slots' = [slots EXCEPT ![s] = content[f]]
                        /\ swapped' = [swapped EXCEPT ![p][v] = [slot |-> s, write |-> pt[p][v].write]]
    BY ZenonT(60) DEF Evict
<1>3. "fork" \notin ops
    BY <1>1, ZenonT(60) DEF Apart
<1>4. Val(p, v)' = Val(p, v)
    <2>1. pt[p][v] \in Entry /\ swapped[p][v] = None
        BY <1>1, SMTT(60) DEF TypeOK, SlotInv
    <2>2. pt[p][v].write \in BOOLEAN
        BY <2>1, Zenon DEF Entry
    <2>3. [slot |-> s, write |-> pt[p][v].write] \in SwapEntry
        BY <2>2, Zenon DEF SwapEntry
    <2>4. /\ swapped'[p][v] = [slot |-> s, write |-> pt[p][v].write] /\ swapped'[p][v] # None
          /\ slots'[s] = content[f]
        BY <1>1, <1>2, <2>3, ZenonT(60) DEF TypeOK, VmmAssumption
    <2>5. Val(p, v) = content[f]
        BY <1>1, <2>1, ZenonT(60) DEF Val
    <2> QED
        BY <2>4, <2>5, SMTT(60) DEF Val
<1>5. ASSUME NEW q \in Proc, NEW u \in VPage, q # p \/ u # v PROVE Val(q, u)' = Val(q, u)
    <2>1. pt'[q][u] = pt[q][u] /\ swapped'[q][u] = swapped[q][u]
        BY <1>1, <1>2, <1>5, ZenonT(60) DEF TypeOK
    <2>2. CASE swapped[q][u] # None
        <3>1. swapped[q][u].slot # s
            BY <1>1, <1>2, <2>2, ZenonT(60) DEF SlotInv
        <3>2. swapped[q][u] \in SwapEntry
            BY <1>1, <2>2, SMTT(60) DEF TypeOK
        <3>3. slots'[swapped[q][u].slot] = slots[swapped[q][u].slot]
            BY <1>1, <1>2, <3>1, <3>2, Zenon DEF TypeOK, SwapEntry
        <3> QED
            BY <2>1, <2>2, <3>3, ZenonT(60) DEF Val
    <2>3. CASE swapped[q][u] = None /\ pt[q][u] # None
        <3>1. pt[q][u].frame # f
            BY <1>1, <1>3, <1>5, <2>3, ZenonT(60) DEF FrameInv
        <3>2. pt[q][u] \in Entry
            BY <1>1, <2>3, SMTT(60) DEF TypeOK
        <3>3. content'[pt[q][u].frame] = content[pt[q][u].frame]
            BY <1>1, <3>1, <3>2, Zenon DEF TypeOK, Entry
        <3> QED
            BY <2>1, <2>3, <3>3, ZenonT(60) DEF Val
    <2>4. CASE swapped[q][u] = None /\ pt[q][u] = None
        BY <2>1, <2>4, Zenon DEF Val
    <2> QED
        BY <2>2, <2>3, <2>4, ZenonT(60)
<1>6. Perms' = Perms /\ Vals' = Vals
    BY <1>1, <1>4, <1>5, PermsSame, ValsSame, ZenonT(60)
<1> QED
    BY <1>1, <1>6, ZenonT(60)

\* SYS_BRK gives or takes pages of the heap: those that come or go hold zeroes.
LEMMA BrkRefines ==
    ASSUME VmInv, VmInv', panic = None, NEW p \in Proc, NEW b \in VPage, Brk(p, b), UNCHANGED ops
    PROVE  Spaces!SetBrk(p, b)
<1> DEFINE moved == brk[p]..(b - 1) \cup b..(brk[p] - 1)
           F == [v \in VPage |-> IF v \notin moved THEN Perms[p][v] ELSE IF v < b THEN "rw" ELSE "none"]
           G == [v \in VPage |-> IF v \in moved THEN 0 ELSE Vals[p][v]]
<1>1. /\ VmmAssumption /\ TypeOK /\ SlotInv /\ PageInv /\ Apart /\ p \in live
      /\ b \in 0..(StackBottom - 1) /\ SetHeapEnd(p, b)
      /\ brk' = [brk EXCEPT ![p] = b]
      /\ UNCHANGED <<live, loaded, swapped, slots, panic, ops>>
    BY Zenon DEF VmInv, Brk
<1>2. /\ b \in Int /\ brk[p] \in Int /\ b < StackBottom /\ brk[p] < StackBottom /\ StackBottom \in Int
      /\ \A v \in VPage : v \in Int /\ (v \in moved <=> (brk[p] <= v /\ v < b) \/ (b <= v /\ v < brk[p]))
    BY <1>1, Pages, SMTT(60) DEF TypeOK
<1>3. /\ HeapAt(p, b) /\ "mprotect" \notin ops
      /\ \A q \in Proc, v \in VPage :
           /\ q = p /\ v \in moved => Val(q, v)' = 0
           /\ ~(q = p /\ v \in moved) => Val(q, v)' = Val(q, v)
    <2>1. CASE "brk" \in ops /\ b > brk[p] /\ UNCHANGED <<pt, content, free>>
        <3>1. HeapAt(p, b)
            BY <1>1, <2>1, GrowSound, ZenonT(60)
        <3>2. \A q \in Proc, v \in VPage : Val(q, v)' = Val(q, v)
            BY <1>1, <2>1, ZenonT(60) DEF Val
        <3>3. ASSUME NEW v \in VPage, v \in moved PROVE Val(p, v) = 0
            <4>1. ~(v >= StackBottom \/ v < brk[p])
                BY <1>2, <2>1, <3>3, SMTT(60)
            <4>2. ~HasArea(p, v)
                BY <4>1, AreaFacts, ZenonT(60)
            <4> QED
                BY <1>1, <4>2, ZenonT(60) DEF PageInv, Val
        <3> QED
            BY <1>1, <2>1, <3>1, <3>2, <3>3, Zenon DEF Apart
    <2>2. CASE "shrink" \in ops /\ b < brk[p] /\ Shrink(p, b)
        <3>1. /\ HeapAt(p, b)
              /\ \A q \in Proc, v \in VPage :
                   /\ q = p /\ b <= v /\ v < brk[p] => pt'[q][v] = None
                   /\ ~(q = p /\ b <= v /\ v < brk[p]) => pt'[q][v] = pt[q][v]
                   /\ pt'[q][v] # None => content'[pt'[q][v].frame] = content[pt[q][v].frame]
            BY <1>1, <2>2, ShrinkSound, ZenonT(60)
        <3>2. \A q \in Proc, v \in VPage : swapped[q][v] = None /\ swapped'[q][v] = None
            BY <1>1, <2>2, ZenonT(60) DEF Apart, SlotInv
        <3>3. \A v \in VPage : v \in moved <=> b <= v /\ v < brk[p]
            BY <1>2, <2>2, SMTT(60)
        <3>4. "mprotect" \notin ops
            BY <1>2, <2>2, <1>1, SMTT(60) DEF VmInv, AreaInv, TypeOK
        <3> HIDE DEF moved
        <3> QED
            BY <3>1, <3>2, <3>3, <3>4, ZenonT(60) DEF Val
    <2> QED
        BY <2>1, <2>2, Zenon DEF Brk
<1> HIDE DEF moved
<1>4. \A v \in VPage : Right(p, v)' = F[v]
    <2> SUFFICES ASSUME NEW v \in VPage
                 PROVE  Right(p, v)' = F[v]
        BY Zenon
    <2>1. /\ HasArea(p, v)' <=> v >= StackBottom \/ v < b
          /\ HasArea(p, v)' => AreaOf(p, v)'.write = TRUE
        BY <1>3, Zenon DEF HeapAt
    <2>2. /\ HasArea(p, v) <=> v >= StackBottom \/ v < brk[p]
          /\ HasArea(p, v) => AreaOf(p, v).write = TRUE
        BY <1>1, <1>3, AreaFacts, ZenonT(60)
    <2>3. Perms[p][v] = IF v >= StackBottom \/ v < brk[p] THEN "rw" ELSE "none"
        BY <2>2, PermIsRight, ZenonT(60) DEF Perms, Right
    <2>4. Right(p, v)' = IF v >= StackBottom \/ v < b THEN "rw" ELSE "none"
        BY <2>1, ZenonT(60) DEF Right
    <2>5. F[v] = IF v \notin moved THEN Perms[p][v] ELSE IF v < b THEN "rw" ELSE "none"
        BY ZenonT(60)
    <2>6. v \notin moved => (v >= StackBottom \/ v < b <=> v >= StackBottom \/ v < brk[p])
        BY <1>2, SMTT(60)
    <2>7. v \in moved => (v >= StackBottom \/ v < b <=> v < b)
        BY <1>2, SMTT(60)
    <2> HIDE DEF F
    <2>8. CASE v \notin moved
        BY <2>3, <2>4, <2>5, <2>6, <2>8, ZenonT(60)
    <2>9. CASE v \in moved
        BY <2>4, <2>5, <2>7, <2>9, SMTT(60)
    <2> QED
        BY <2>8, <2>9, Zenon
<1>5. Perms' = [Perms EXCEPT ![p] = F]
    <2>1. \A v \in VPage : Perms[p][v] \in {"rw", "r", "none"}
        BY ZenonT(60) DEF Perms, Perm
    <2>2. F \in [VPage -> {"rw", "r", "none"}]
        BY <2>1, ZenonT(60)
    <2>3. \A q \in Proc : q # p => areas'[q] = areas[q]
        BY <1>3, ZenonT(60) DEF HeapAt
    <2> HIDE DEF F
    <2> QED
        BY <1>4, <2>2, <2>3, PermsMove, ZenonT(60)
<1>6. Vals' = [Vals EXCEPT ![p] = G]
    <2>1. \A v \in VPage : Val(p, v)' = G[v]
        BY <1>3, ZenonT(60) DEF Vals
    <2>2. G \in [VPage -> {G[v] : v \in VPage}]
        BY ZenonT(60)
    <2> HIDE DEF G
    <2> QED
        BY <1>3, <2>1, <2>2, ValsMove, ZenonT(60)
<1> QED
    BY <1>1, <1>2, <1>5, <1>6, ZenonT(60) DEF Spaces!SetBrk, Spaces!VPage, VPage, moved

\* SYS_MPROTECT changes the rights of its range, and what is on the pages stays.
LEMMA MprotectRefines ==
    ASSUME VmInv, VmInv', panic = None, NEW p \in Proc, NEW first \in VPage, NEW end \in 1..NumPages,
           NEW write \in BOOLEAN, Mprotect(p, first, end, write), UNCHANGED ops
    PROVE  Spaces!Mprotect(p, first..(end - 1), write)
<1> DEFINE range == first..(end - 1)
           F == [v \in VPage |-> IF v \notin range THEN Perms[p][v] ELSE IF write THEN "rw" ELSE "r"]
<1>1. /\ VmmAssumption /\ TypeOK /\ p \in live
      /\ UNCHANGED <<live, swapped, brk, content, slots>>
    BY Zenon DEF VmInv, Mprotect
<1>2. /\ \A v \in VPage :
           /\ HasArea(p, v)' <=> HasArea(p, v)
           /\ HasArea(p, v) => AreaOf(p, v)'.write = IF v \in range THEN write ELSE AreaOf(p, v).write
           /\ v \in range => HasArea(p, v)
      /\ \A q \in Proc : q # p => areas'[q] = areas[q]
      /\ \A q \in Proc, v \in VPage :
           /\ pt'[q][v] # None <=> pt[q][v] # None
           /\ pt[q][v] # None => pt'[q][v].frame = pt[q][v].frame
    BY MprotectSound, ZenonT(60)
<1>3. range \subseteq VPage
    BY <1>1, Pages, SMTT(60) DEF VPage
<1> HIDE DEF range
<1>4. Vals' = Vals
    <2>1. \A q \in Proc, v \in VPage : Val(q, v)' = Val(q, v)
        BY <1>1, <1>2, ZenonT(60) DEF Val
    <2> QED
        BY <2>1, ValsSame, Zenon
<1>5. \A v \in VPage : Perms[p][v] = Right(p, v)
    BY PermIsRight, ZenonT(60) DEF Perms
<1>6. \A v \in VPage : Right(p, v)' = F[v]
    <2> SUFFICES ASSUME NEW v \in VPage
                 PROVE  Right(p, v)' = F[v]
        BY Zenon
    <2>1. CASE v \in range
        <3>1. Right(p, v)' = IF write THEN "rw" ELSE "r"
            BY <1>2, <2>1, ZenonT(60) DEF Right
        <3> QED
            BY <2>1, <3>1, ZenonT(60)
    <2>2. CASE v \notin range
        <3>1. Right(p, v)' = Right(p, v)
            BY <1>2, <2>2, ZenonT(60) DEF Right
        <3> QED
            BY <1>5, <2>2, <3>1, ZenonT(60)
    <2> QED
        BY <2>1, <2>2, ZenonT(60)
<1>7. Perms' = [Perms EXCEPT ![p] = F]
    <2>1. F \in [VPage -> {"rw", "r", "none"}]
        BY <1>5, ZenonT(60) DEF Right
    <2> HIDE DEF F
    <2> QED
        BY <1>2, <1>6, <2>1, PermsMove, ZenonT(60)
<1>8. \A v \in range : Perms[p][v] # "none"
    BY <1>2, <1>3, <1>5, ZenonT(60) DEF Right
<1> QED
    BY <1>1, <1>4, <1>7, <1>8, ZenonT(60) DEF Spaces!Mprotect, Spaces!VPage, VPage, range

\* SYS_FORK copies the address space, although it copies no page.
LEMMA ForkRefines ==
    ASSUME VmInv, VmInv', panic = None, NEW p \in Proc, NEW c \in Proc, Fork(p, c), UNCHANGED ops
    PROVE  Spaces!Fork(p, c)
<1> DEFINE S(q) == Source(q, p, c)
<1>1. /\ TypeOK /\ p \in live /\ c \notin live /\ live' = live \cup {c}
      /\ brk' = [brk EXCEPT ![c] = brk[p]]
      /\ UNCHANGED <<swapped, content>>
    BY ZenonT(60) DEF VmInv, Fork
<1>2. /\ \A q \in Proc, v \in VPage :
           /\ pt'[q][v] # None <=> pt[S(q)][v] # None
           /\ pt'[q][v] # None => pt'[q][v].frame = pt[S(q)][v].frame
      /\ \A q \in Proc : areas'[q] = areas[S(q)]
      /\ \A q \in Proc, v \in VPage : swapped[q][v] = None
    BY ForkSound, ZenonT(60)
<1>3. \A q \in Proc : S(q) \in Proc /\ S(c) = p /\ (q # c => S(q) = q)
    BY Zenon DEF Source
<1> HIDE DEF S
<1>4. \A q \in Proc, v \in VPage : Val(q, v)' = Val(S(q), v)
    BY <1>1, <1>2, <1>3, ZenonT(60) DEF Val
<1>5. \A q \in Proc, v \in VPage : Perm(q, v)' = Perm(S(q), v)
    <2>1. \A q \in Proc, v \in VPage : Right(q, v)' = Right(S(q), v)
        BY <1>2, Zenon DEF Right, HasArea, AreaOf
    <2> QED
        BY <1>3, <2>1, PermIsRight, PermIsRightNext, SMTT(60)
<1>6. Vals' = [Vals EXCEPT ![c] = Vals[p]]
    BY <1>3, <1>4, ZenonT(60) DEF Vals
<1>7. Perms' = [Perms EXCEPT ![c] = Perms[p]]
    BY <1>3, <1>5, Zenon DEF Perms
<1> QED
    BY <1>1, <1>6, <1>7, ZenonT(60) DEF Spaces!Fork

LEMMA InitRefines ==
    ASSUME Init
    PROVE  Spaces!Init
<1>1. \A p \in Proc, v \in VPage : areas[p] = << >> /\ pt[p][v] = None /\ swapped[p][v] = None
    BY ZenonT(60) DEF Init, NoEntries
<1>2. \A p \in Proc, v \in VPage : Perm(p, v) = "none" /\ Val(p, v) = 0
    BY <1>1, SMTT(60) DEF Perm, Val, HasArea, Has
<1>3. /\ Perms = [p \in Proc |-> [v \in VPage |-> "none"]]
      /\ Vals = [p \in Proc |-> [v \in VPage |-> 0]]
    BY <1>2, ZenonT(60) DEF Perms, Vals
<1> QED
    BY <1>3, ZenonT(60) DEF Init, Spaces!Init, Spaces!Unused, Spaces!Zero, Spaces!VPage, VPage

LEMMA StepRefines ==
    ASSUME VmInv, VmInv', [Next]_vars
    PROVE  [Spaces!Next]_(Spaces!vars)
<1> DEFINE Seen == Spaces!Next \/ UNCHANGED <<live, brk, Perms, Vals>>
<1>1. CASE Next
    <2>1. PICK p \in Proc : Step(p)
        BY <1>1, ZenonT(60) DEF Next
    <2>2. panic = None /\ UNCHANGED ops
        BY <1>1, ZenonT(60) DEF Next
    <2>3. ASSUME Load(p) PROVE Seen
        BY <2>3, LoadRefines, ZenonT(60) DEF Spaces!Next
    <2>4. ASSUME NEW v \in VPage, NEW x \in Value, Write(p, v, x) PROVE Seen
        BY <2>4, WriteRefines, ZenonT(60) DEF Spaces!Next, Spaces!VPage, VPage
    <2>5. ASSUME NEW v \in VPage, NEW write \in BOOLEAN, Fault(p, v, write)
          PROVE  Seen
        BY <2>5, FaultRefines, ZenonT(60)
    <2>6. ASSUME NEW v \in VPage, NEW write \in BOOLEAN, ThreadFault(p, v, write)
          PROVE  Seen
        <3>1. UNCHANGED <<live, areas, swapped, pt, brk, content, slots>>
            BY <2>6, ZenonT(60) DEF ThreadFault, Panic
        <3> QED
            BY <3>1, PermsSame, ValsSame, ZenonT(60) DEF Val
    <2>7. ASSUME NEW v \in VPage, Evict(p, v) PROVE Seen
        BY <2>7, EvictRefines, ZenonT(60)
    <2>8. ASSUME NEW b \in VPage, Brk(p, b) PROVE Seen
        BY <2>2, <2>8, BrkRefines, ZenonT(60) DEF Spaces!Next, Spaces!VPage, VPage
    <2>9. ASSUME NEW first \in VPage, NEW end \in 1..NumPages, NEW write \in BOOLEAN,
                 Mprotect(p, first, end, write)
          PROVE  Seen
        <3>1. Spaces!Mprotect(p, first..(end - 1), write)
            BY <2>2, <2>9, MprotectRefines, ZenonT(60)
        <3>2. end - 1 \in VPage
            BY Pages, SMTT(60) DEF VmInv, VPage
        <3> QED
            BY <3>1, <3>2, ZenonT(60) DEF Spaces!Next, Spaces!VPage, VPage
    <2>10. ASSUME NEW c \in Proc, Fork(p, c) PROVE Seen
        BY <2>2, <2>10, ForkRefines, ZenonT(60) DEF Spaces!Next
    <2> HIDE DEF Seen
    <2>11. Seen
        BY <2>1, <2>3, <2>4, <2>5, <2>6, <2>7, <2>8, <2>9, <2>10, ZenonT(60) DEF Step
    <2> QED
        BY <2>11, ZenonT(60) DEF Seen, Spaces!vars
<1>2. CASE UNCHANGED vars
    <2>1. UNCHANGED <<live, areas, swapped, pt, brk, content, slots>>
        BY <1>2, ZenonT(60) DEF vars
    <2>2. \A p \in Proc, v \in VPage : Val(p, v)' = Val(p, v)
        BY <2>1, ZenonT(60) DEF Val
    <2>3. UNCHANGED <<live, brk, Perms, Vals>>
        BY <2>1, <2>2, PermsSame, ValsSame, ZenonT(60)
    <2> QED
        BY <2>3, ZenonT(60) DEF Spaces!vars
<1> QED
    BY <1>1, <1>2, ZenonT(60)

\* Page tables, copy-on-write sharing, the free list and swap implement private address
\* spaces, for any processes, pages, frames and slots: every access reads the last write
\* of its own process, or zeroes, or what the parent had at the fork, and no fault or
\* eviction is to be seen.
THEOREM VmmImplementsSpaces == VmmAssumption /\ Compatible /\ Spec => ImplementsSpaces
<1>1. Init => Spaces!Init
    BY InitRefines, ZenonT(60)
<1>2. VmInv /\ VmInv' /\ [Next]_vars => [Spaces!Next]_(Spaces!vars)
    BY StepRefines, ZenonT(60)
<1> QED
    BY <1>1, <1>2, VmInvHolds, PTL DEF Spec, ImplementsSpaces, Spaces!Spec
=============================================================================
