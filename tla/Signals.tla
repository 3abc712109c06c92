------------------------------- MODULE Signals -------------------------------
(***************************************************************************)
(* Signals: kill, signal and sigreturn (dispatch.rs), and the delivery of  *)
(* one pending signal on the way back from every system call (signal.rs).  *)
(* System calls run with interrupts off, so the processor changes hands    *)
(* only in user code, in a call that blocks, and when a thread is gone.    *)
(* A user context is the signal whose handler runs, or Main; delivery puts *)
(* the interrupted context on the user stack and sigreturn takes it back.  *)
(***************************************************************************)
EXTENDS Integers, Sequences, FiniteSets, FiniteSetsExt

CONSTANTS NumThreads,  \* threads are numbered by tid
          PidOf,       \* the process of each thread
          Signal,      \* signal numbers
          MaxKills     \* bound on kill calls

SignalsAssumption ==
    /\ NumThreads \in Nat \ {0} /\ PidOf \in [1..NumThreads -> Nat]
    /\ Signal \subseteq 0..31 /\ MaxKills \in Nat

Thread == 1..NumThreads
Main == 32

VARIABLES cpu,       \* the thread on the processor
          state,     \* "user", "call" (in the kernel), "blocked" or "zombie"
          pending,   \* SignalState.pending
          handlers,  \* signals with a handler
          context,   \* what the user code of a thread is doing
          stack,     \* contexts saved on its user stack, innermost last
          sent,      \* history: how often a signal was sent to a thread
          taken      \* history: how often it was delivered

vars == <<cpu, state, pending, handlers, context, stack, sent, taken>>

Zeroes == [t \in Thread |-> [s \in Signal |-> 0]]

TypeOK ==
    /\ cpu \in Thread
    /\ state \in [Thread -> {"user", "call", "blocked", "zombie"}]
    /\ pending \in [Thread -> SUBSET Signal] /\ handlers \in [Thread -> SUBSET Signal]
    /\ context \in [Thread -> Signal \cup {Main}]
    /\ \A t \in Thread : Len(stack[t]) <= MaxKills

Init ==
    /\ cpu = 1
    /\ state = [t \in Thread |-> "user"]
    /\ pending = [t \in Thread |-> {}] /\ handlers = [t \in Thread |-> {}]
    /\ context = [t \in Thread |-> Main] /\ stack = [t \in Thread |-> << >>]
    /\ sent = Zeroes /\ taken = Zeroes

Kills == MapThenSumSet(LAMBDA t : MapThenSumSet(LAMBDA s : sent[t][s], Signal), Thread)
-----------------------------------------------------------------------------
\* The processor goes to another thread: a timer tick in user code, or schedule()
\* in a call that blocks or ends.
Switch(t) ==
    /\ state[cpu] # "call" /\ t # cpu /\ state[t] \in {"user", "call"}
    /\ cpu' = t
    /\ UNCHANGED <<state, pending, handlers, context, stack, sent, taken>>

Enter == state[cpu] = "user" /\ state' = [state EXCEPT ![cpu] = "call"]

\* kill looks for the first task with the pid, in the order of tids, zombies too.
Target(pid) == IF \E t \in Thread : PidOf[t] = pid
               THEN {Min({t \in Thread : PidOf[t] = pid})} ELSE {}

\* kill: the signal is pending, and a blocked target becomes ready.
Kill(pid, s) ==
    /\ state[cpu] = "user" /\ Kills < MaxKills
    /\ pending' = [t \in Thread |-> IF t \in Target(pid) THEN pending[t] \cup {s} ELSE pending[t]]
    /\ sent' = [t \in Thread |-> [sent[t] EXCEPT ![s] = @ + (IF t \in Target(pid) THEN 1 ELSE 0)]]
    /\ state' = [t \in Thread |-> IF t = cpu \/ (t \in Target(pid) /\ state[t] = "blocked")
                                  THEN "call" ELSE state[t]]
    /\ UNCHANGED <<cpu, handlers, context, stack, taken>>

\* signal: a handler is set, or taken away with 0.
SetHandler(s) ==
    /\ Enter
    /\ \/ handlers' = [handlers EXCEPT ![cpu] = @ \cup {s}]
       \/ handlers' = [handlers EXCEPT ![cpu] = @ \ {s}]
    /\ UNCHANGED <<cpu, pending, context, stack, sent, taken>>

\* A call of another module blocks; whoever wakes it makes it look again.
Block ==
    /\ state[cpu] \in {"user", "call"}
    /\ \E t \in Thread \ {cpu} : state[t] \in {"user", "call"}
    /\ state' = [state EXCEPT ![cpu] = "blocked"]
    /\ UNCHANGED <<cpu, pending, handlers, context, stack, sent, taken>>

Wake(t) ==
    /\ state[cpu] = "user" /\ state[t] = "blocked"
    /\ state' = [state EXCEPT ![t] = "call", ![cpu] = "call"]
    /\ UNCHANGED <<cpu, pending, handlers, context, stack, sent, taken>>

\* exit, or any other call that does not concern signals.
Exit ==
    /\ state[cpu] = "user"
    /\ \E t \in Thread \ {cpu} : state[t] \in {"user", "call"}
    /\ state' = [state EXCEPT ![cpu] = "zombie"]
    /\ UNCHANGED <<cpu, pending, handlers, context, stack, sent, taken>>

OtherCall == Enter /\ UNCHANGED <<cpu, pending, handlers, context, stack, sent, taken>>

\* Mutant: the frame is read at the wrong end of the user stack.
SigreturnOldest ==
    /\ Enter /\ context[cpu] # Main
    /\ context' = [context EXCEPT ![cpu] = stack[cpu][1]]
    /\ stack' = [stack EXCEPT ![cpu] = Tail(@)]
    /\ UNCHANGED <<cpu, pending, handlers, sent, taken>>

\* sigreturn, called by the trampoline when a handler returns.
Sigreturn ==
    /\ Enter /\ context[cpu] # Main
    /\ context' = [context EXCEPT ![cpu] = stack[cpu][Len(stack[cpu])]]
    /\ stack' = [stack EXCEPT ![cpu] = SubSeq(@, 1, Len(@) - 1)]
    /\ UNCHANGED <<cpu, pending, handlers, sent, taken>>

\* Mutant: the signal that is delivered stays pending.
DeliverKeepsPending ==
    /\ state[cpu] = "call" /\ pending[cpu] # {}
    /\ LET s == Min(pending[cpu])
       IN  /\ taken' = [taken EXCEPT ![cpu][s] = @ + 1]
           /\ IF s \in handlers[cpu]
              THEN /\ state' = [state EXCEPT ![cpu] = "user"]
                   /\ stack' = [stack EXCEPT ![cpu] = Append(@, context[cpu])]
                   /\ context' = [context EXCEPT ![cpu] = s]
              ELSE state' = [state EXCEPT ![cpu] = "zombie"] /\ UNCHANGED <<stack, context>>
    /\ UNCHANGED <<cpu, pending, handlers, sent>>

\* deliver_pending_signal: the lowest pending signal, or exit without a handler.
Deliver ==
    /\ state[cpu] = "call" /\ pending[cpu] # {}
    /\ LET s == Min(pending[cpu])
       IN  /\ pending' = [pending EXCEPT ![cpu] = @ \ {s}]
           /\ taken' = [taken EXCEPT ![cpu][s] = @ + 1]
           /\ IF s \in handlers[cpu]
              THEN /\ state' = [state EXCEPT ![cpu] = "user"]
                   /\ stack' = [stack EXCEPT ![cpu] = Append(@, context[cpu])]
                   /\ context' = [context EXCEPT ![cpu] = s]
              ELSE state' = [state EXCEPT ![cpu] = "zombie"] /\ UNCHANGED <<stack, context>>
    /\ UNCHANGED <<cpu, handlers, sent>>

\* Mutant: a return to user code does not look for signals.
ReturnBlindly ==
    /\ state[cpu] = "call"
    /\ state' = [state EXCEPT ![cpu] = "user"]
    /\ UNCHANGED <<cpu, pending, handlers, context, stack, sent, taken>>

\* Nothing is pending: back to user code.
Return ==
    /\ state[cpu] = "call" /\ pending[cpu] = {}
    /\ state' = [state EXCEPT ![cpu] = "user"]
    /\ UNCHANGED <<cpu, pending, handlers, context, stack, sent, taken>>
-----------------------------------------------------------------------------
Call ==
    \/ \E s \in Signal : SetHandler(s) \/ \E t \in Thread : Kill(PidOf[t], s)
    \/ Sigreturn \/ OtherCall \/ Exit

Next == (\E t \in Thread : Switch(t) \/ Wake(t)) \/ Call \/ Block \/ Deliver \/ Return

Spec == Init /\ [][Next]_vars

\* User code keeps calling the kernel, the scheduler starves nobody.
FairSpec ==
    /\ Spec
    /\ WF_vars(Deliver \/ Return)
    /\ \A t \in Thread : SF_vars(cpu = t /\ OtherCall) /\ SF_vars(Switch(t))
-----------------------------------------------------------------------------
\* A delivery has its own kill: a signal is delivered no more often than it was
\* sent, also when it is sent again while its handler runs.
DeliveriesWereSent ==
    \A t \in Thread, s \in Signal :
        taken[t][s] + (IF s \in pending[t] THEN 1 ELSE 0) <= sent[t][s]

OneKillPerDelivery == TypeOK /\ DeliveriesWereSent

\* Handlers nest: the contexts on the user stack go back to the main program, and
\* sigreturn resumes the one that was interrupted last.
HandlersNest ==
    [][\A t \in Thread :
          /\ context[t] = Main <=> stack[t] = << >>
          /\ Len(stack'[t]) > Len(stack[t]) => stack'[t] = Append(stack[t], context[t])
          /\ Len(stack'[t]) < Len(stack[t]) => stack[t] = Append(stack'[t], context'[t])]_vars

\* A signal that is pending for a thread that runs is delivered, unless the
\* thread ends or blocks: every return from a call delivers one.
PendingIsDelivered ==
    \A t \in Thread, s \in Signal :
        s \in pending[t] ~> s \notin pending[t] \/ state[t] \in {"blocked", "zombie"}

\* "send signal to task": a signal is not left with a thread that has ended while
\* the process has others.
KillFindsLiveThread ==
    [][\A t \in Thread, s \in Signal :
          s \notin pending[t] /\ s \in pending'[t] /\ state[t] = "zombie"
             => \A u \in Thread : PidOf[u] = PidOf[t] => state[u] = "zombie"]_vars
=============================================================================
