------------------------------ MODULE TaskPool ------------------------------
(***************************************************************************)
(* What a scheduler for one processor core promises, whatever its policy:  *)
(* a task is ready, running, or not its business.  The MLFQ of the kernel  *)
(* is shown to implement this.                                             *)
(***************************************************************************)
CONSTANTS Tid, None

VARIABLES ready,    \* the tasks waiting for the CPU
          running   \* the task that has it, or None

TypeOK == ready \subseteq Tid /\ running \in Tid \cup {None}

Init == ready \subseteq Tid /\ running \in Tid \ ready

\* A new task becomes ready.
Admit(t) ==
    /\ t \notin ready
    /\ t # running
    /\ ready' = ready \cup {t}
    /\ UNCHANGED running

\* Task t gets the CPU; the task it takes it from is ready again.
Dispatch(t) ==
    /\ t \in ready
    /\ running' = t
    /\ ready' = (ready \ {t}) \cup ({running} \ {None})

\* The running task ends.
Leave ==
    /\ running # None
    /\ running' = None
    /\ UNCHANGED ready

Next == Leave \/ \E t \in Tid : Admit(t) \/ Dispatch(t)

Spec == Init /\ [][Next]_<<ready, running>>
=============================================================================
