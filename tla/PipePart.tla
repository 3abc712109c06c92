------------------------------ MODULE PipePart ------------------------------
(***************************************************************************)
(* A pipe as a part that stands beside others, and what is claimed of it.  *)
(***************************************************************************)
CONSTANTS Task, None, Closer, PipeBuf, SendLens, RecvLens, Dispatched, MaxCalls

VARIABLES buf, closed, table, pcpu, pc, data, want, calls, psent, ptaken

Conduit == INSTANCE Pipe WITH cpu <- pcpu, sent <- psent, taken <- ptaken

\* Pipe::send, recv and close in any interleaving are a bounded FIFO channel.
ImplementsChannel == Conduit!ImplementsChannel
=============================================================================
