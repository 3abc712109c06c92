---------------------------- MODULE ConsolePart -----------------------------
(***************************************************************************)
(* Keyboard and console as a part that stands beside others.               *)
(***************************************************************************)
CONSTANTS Char, Newline, KeyUp, RingSize, LineSize, ReadLens, MaxKeys

VARIABLES ring, head, tail, line, ready, readyPos, blocking, result, typed, drained, got

Keys == INSTANCE Console
=============================================================================
