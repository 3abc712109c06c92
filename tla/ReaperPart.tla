----------------------------- MODULE ReaperPart -----------------------------
(***************************************************************************)
(* The reaper and its pool of free frames as a part that stands beside     *)
(* others.                                                                 *)
(***************************************************************************)
CONSTANTS NumProc, VSize, Frames, Slots, PoolMin, PoolMax, MaxTouches

VARIABLES resident, onDisk, accessed, dirty, touches,
          ppc, todo, found, cands, sweep, pos, progress, full

Pool == INSTANCE Reaper WITH pc <- ppc
=============================================================================
