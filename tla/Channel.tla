------------------------------ MODULE Channel ------------------------------
(***************************************************************************)
(* What an IpcChannel (src/kernel/src/ipc/channel.rs) promises: a bounded  *)
(* queue that delivers what was accepted, in order and once, and accepts   *)
(* nothing after it was closed.  The state is the whole history of the     *)
(* channel: what was accepted, what of it was delivered.                   *)
(***************************************************************************)
EXTENDS Integers, Sequences

CONSTANTS Item,      \* what is sent: bytes, or messages
          Capacity   \* items accepted and not yet delivered

VARIABLES sent,      \* accepted, in order
          taken,     \* delivered, in order
          open

vars == <<sent, taken, open>>

Init == sent = << >> /\ taken = << >> /\ open = TRUE

\* Some items are accepted behind the others.
Put(items) ==
    /\ open
    /\ Len(sent) + Len(items) - Len(taken) <= Capacity
    /\ sent' = sent \o items
    /\ UNCHANGED <<taken, open>>

\* The oldest n items that are left are delivered, also after the close.
Take(n) ==
    /\ n <= Len(sent) - Len(taken)
    /\ taken' = SubSeq(sent, 1, Len(taken) + n)
    /\ UNCHANGED <<sent, open>>

Close == open' = FALSE /\ UNCHANGED <<sent, taken>>

Next ==
    \/ \E n \in 1..Capacity : \E items \in [1..n -> Item] : Put(items)
    \/ \E n \in 1..Capacity : Take(n)
    \/ Close

Spec == Init /\ [][Next]_vars
=============================================================================
