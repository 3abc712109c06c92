----------------------------- MODULE DomainPart -----------------------------
(***************************************************************************)
(* The overlay files at boot as a part that stands beside others, and what *)
(* is claimed of them.                                                     *)
(***************************************************************************)
CONSTANTS NumKeys, Setting, Absent, MaxRecords, Faults

VARIABLES file, torn, garbled, before, table, spc, spos, dirty, todo, faulty

Domains == INSTANCE SystemDomain WITH Value <- Setting, None <- Absent, pc <- spc, pos <- spos

\* load_at_boot: without faults table and file agree afterwards, and both are what
\* the clean records of the file said; with faults of reads and writes, every entry
\* of table and file was a clean record before.
RepairSound == Domains!TypeOK /\ Domains!BootRepairs /\ Domains!NothingMadeUp
=============================================================================
