-------------------------------- MODULE MCIpc --------------------------------
(***************************************************************************)
(* Small instances of what tasks say to each other: the table of handles,  *)
(* a pipe, and signals.  The three have no variable in common, so a        *)
(* behaviour has one of them at work while the others stay in an initial   *)
(* state.                                                                  *)
(***************************************************************************)
EXTENDS IpcTable, PipePart, SignalPart, Sequences

CONSTANT Parts   \* which of the parts to check

\* Two processes of one thread.
TwoProcesses == <<1, 2>>

VARIABLE part

\* Beside the pipe that kernel code calls, one that is called through the dispatcher.
ByCall == INSTANCE Pipe WITH Dispatched <- TRUE, cpu <- pcpu, sent <- psent, taken <- ptaken

ASSUME PartsAssumption ==
    /\ Parts \subseteq {"table", "pipe", "calls", "signals"}
    /\ ~Dispatched /\ Conduit!PipeAssumption /\ Notices!SignalsAssumption

pipeVars   == <<buf, closed, table, pcpu, pc, data, want, calls, psent, ptaken>>
signalVars == <<cpu, state, pending, handlers, context, stack, sent, taken>>
allVars    == <<part, vars, pipeVars, signalVars>>

MCInit ==
    /\ part \in Parts
    /\ Init /\ Conduit!Init /\ Notices!Init
    /\ part \notin {"pipe", "calls"} => pcpu = Closer

OnlyTable   == part = "table" /\ UNCHANGED <<part, pipeVars, signalVars>>
OnlyPipe    == part = "pipe" /\ UNCHANGED <<part, vars, signalVars>>
OnlyCalls   == part = "calls" /\ UNCHANGED <<part, vars, signalVars>>
OnlySignals == part = "signals" /\ UNCHANGED <<part, vars, pipeVars>>

MCNext ==
    \/ OnlyTable   /\ Next
    \/ OnlyPipe    /\ Conduit!Next
    \/ OnlyCalls   /\ ByCall!Next
    \/ OnlySignals /\ Notices!Next
-----------------------------------------------------------------------------
\* The fairness of the parts: FairSpec of Pipe and of Signals.  Threads are
\* numbered, and so are the tasks of the pipe.
GoesOn(t) ==
    \/ OnlyPipe    /\ (Conduit!Continue(t) \/ (t = Closer /\ Conduit!CallClose(t)))
    \/ OnlySignals /\ cpu = t /\ Notices!OtherCall

GetsCpu(t) ==
    \/ OnlyPipe    /\ Conduit!Preempt(t)
    \/ OnlySignals /\ t \in Notices!Thread /\ Notices!Switch(t)

MCSpec ==
    /\ MCInit /\ [][MCNext]_allVars
    /\ \A t \in Task : SF_allVars(GoesOn(t)) /\ SF_allVars(GetsCpu(t))
    /\ WF_allVars(OnlySignals /\ (Notices!Deliver \/ Notices!Return))
-----------------------------------------------------------------------------
\* Pipe::close lets go everyone who blocks in send or recv.  (Not so for the
\* system calls, which block with IPC_TABLE locked.)
CallReturns == part = "pipe" => Conduit!CallReturns

\* SYS_KILL, deliver_pending_signal and SYS_SIGRETURN: a signal is delivered no
\* more often than it was sent; a handler returns to the context it interrupted;
\* and a signal that is pending for a thread that runs is delivered, unless the
\* thread ends or blocks.
SignalsHandled ==
    /\ []Notices!OneKillPerDelivery
    /\ Notices!HandlersNest
    /\ Notices!PendingIsDelivered
=============================================================================
