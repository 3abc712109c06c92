--------------------------- MODULE AddressSpaces ---------------------------
(***************************************************************************)
(* What virtual memory promises to processes: each has pages of its own,   *)
(* zero when they are first used, that only its own writes change; brk and *)
(* mprotect change which pages may be used, fork copies everything.        *)
(* Frames, sharing, faults and swapping are not to be seen.                *)
(***************************************************************************)
EXTENDS Integers

CONSTANTS Proc,         \* processes
          Value,        \* contents of a page, 0 included
          NumPages,     \* pages of the lower half, the heap begins at page 0
          StackBottom   \* the first page of the stack

VPage == 0..(NumPages - 1)
Stack == StackBottom..(NumPages - 1)

VARIABLES live,   \* processes that exist
          brk,    \* the page after the heap, for each process
          prot,   \* what each process may do with each page
          mem     \* what it finds there

vars == <<live, brk, prot, mem>>

Unused == [v \in VPage |-> "none"]
Zero   == [v \in VPage |-> 0]

Init ==
    /\ live = {}
    /\ brk = [p \in Proc |-> 0]
    /\ prot = [p \in Proc |-> Unused]
    /\ mem = [p \in Proc |-> Zero]

Load(p) ==
    /\ p \notin live
    /\ live' = live \cup {p}
    /\ prot' = [prot EXCEPT ![p] = [v \in VPage |-> IF v \in Stack THEN "rw" ELSE "none"]]
    /\ UNCHANGED <<brk, mem>>

Write(p, v, x) ==
    /\ p \in live
    /\ prot[p][v] = "rw"
    /\ mem' = [mem EXCEPT ![p][v] = x]
    /\ UNCHANGED <<live, brk, prot>>

\* Pages that enter the heap are zero and writable, pages that leave it are gone.
SetBrk(p, b) ==
    LET moved == brk[p]..(b - 1) \cup b..(brk[p] - 1)
    IN  /\ p \in live
        /\ b < StackBottom
        /\ brk' = [brk EXCEPT ![p] = b]
        /\ prot' = [prot EXCEPT ![p] = [v \in VPage |-> IF v \notin moved THEN @[v]
                                                        ELSE IF v < b THEN "rw" ELSE "none"]]
        /\ mem' = [mem EXCEPT ![p] = [v \in VPage |-> IF v \in moved THEN 0 ELSE @[v]]]
        /\ UNCHANGED live

Mprotect(p, range, write) ==
    /\ p \in live
    /\ \A v \in range : prot[p][v] # "none"
    /\ prot' = [prot EXCEPT ![p] = [v \in VPage |-> IF v \notin range THEN @[v]
                                                    ELSE IF write THEN "rw" ELSE "r"]]
    /\ UNCHANGED <<live, brk, mem>>

Fork(p, c) ==
    /\ p \in live /\ c \notin live
    /\ live' = live \cup {c}
    /\ brk' = [brk EXCEPT ![c] = brk[p]]
    /\ prot' = [prot EXCEPT ![c] = prot[p]]
    /\ mem' = [mem EXCEPT ![c] = mem[p]]

Next ==
    \E p \in Proc :
      \/ Load(p)
      \/ \E v \in VPage, x \in Value : Write(p, v, x)
      \/ \E b \in VPage : SetBrk(p, b)
      \/ \E a, b \in VPage, write \in BOOLEAN : Mprotect(p, a..b, write)
      \/ \E c \in Proc : Fork(p, c)

Spec == Init /\ [][Next]_vars
=============================================================================
