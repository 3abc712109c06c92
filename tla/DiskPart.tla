------------------------------ MODULE DiskPart ------------------------------
(***************************************************************************)
(* The RAM disk as a part that stands beside others, and what is claimed   *)
(* of it.                                                                  *)
(***************************************************************************)
CONSTANTS NumSectors, SectorSize, Byte, Zero, MaxLen

VARIABLES bytes, crcs, dpos, dbuf, done, dpc, written, old, hurt

Drive == INSTANCE Disk WITH data <- bytes, buf <- dbuf, pos <- dpos, pc <- dpc

\* DiskIo and RamDisk: a read that succeeds gives the bytes last written, whatever
\* happened to the memory under the disk; a write changes the bytes it is given and
\* no others, also when it fails half-way; a CRC is that of the bytes last written.
DiskSound == Drive!DiskSound
=============================================================================
