----------------------------- MODULE SignalPart -----------------------------
(***************************************************************************)
(* Signals as a part that stands beside others.                            *)
(***************************************************************************)
CONSTANTS NumThreads, PidOf, Signal, MaxKills

VARIABLES cpu, state, pending, handlers, context, stack, sent, taken

Notices == INSTANCE Signals
=============================================================================
