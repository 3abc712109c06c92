--------------------------------- MODULE Disk ---------------------------------
(***************************************************************************)
(* The RAM disk (io/disk.rs) under the cursor that fatfs drives it with    *)
(* (fs/fat.rs, DiskIo).  A transfer goes sector by sector: a whole sector  *)
(* is written straight from the buffer, a part of one by reading it,       *)
(* changing the part and writing it back.  Every sector has a CRC, which a *)
(* read compares; memory under the disk may change in the meantime.  A CRC *)
(* is modelled by the bytes it was taken over: crc32 tells sectors of up   *)
(* to four bytes apart.                                                    *)
(***************************************************************************)
EXTENDS Integers, Sequences

CONSTANTS NumSectors, SectorSize, Byte, Zero,
          MaxLen   \* bound on the bytes of one transfer

DiskAssumption ==
    NumSectors \in Nat \ {0} /\ SectorSize \in Nat \ {0} /\ Zero \in Byte /\ MaxLen \in Nat

Size == NumSectors * SectorSize
Sector == 0..NumSectors - 1
Addr == 0..Size - 1

VARIABLES data,     \* [Addr -> Byte], the mapped region
          crcs,     \* sector -> the bytes its CRC was taken over
          pos,      \* DiskIo's cursor
          buf,      \* the buffer of the transfer
          done,     \* bytes_read or bytes_written
          pc,       \* "idle", "read", "write", or how the last transfer ended
          written,  \* history: [Addr -> Byte], the byte last written
          old,      \* history: written and pos when the transfer began
          hurt      \* history: bytes that changed by themselves

vars == <<data, crcs, pos, buf, done, pc, written, old, hurt>>

\* The bytes of a sector.
Bytes(d, lba) == [i \in 1..SectorSize |-> d[lba * SectorSize + i - 1]]

TypeOK ==
    /\ data \in [Addr -> Byte] /\ crcs \in [Sector -> [1..SectorSize -> Byte]]
    /\ pos \in 0..Size + 1 /\ done \in 0..Len(buf)
    /\ pc \in {"idle", "read", "write", "readOk", "writeOk", "error"}

Init ==
    /\ data = [a \in Addr |-> Zero] /\ crcs = [s \in Sector |-> [i \in 1..SectorSize |-> Zero]]
    /\ pos = 0 /\ buf = << >> /\ done = 0 /\ pc = "idle"
    /\ written = data /\ old = [written |-> data, pos |-> 0] /\ hurt = {}
-----------------------------------------------------------------------------
Idle == pc \notin {"read", "write"}

\* seek: anywhere, the end of the disk and behind it included.
Seek(p) ==
    /\ Idle
    /\ pos' = p /\ pc' = "idle" /\ buf' = << >> /\ done' = 0
    /\ UNCHANGED <<data, crcs, written, old, hurt>>

\* read and write are called with a buffer.
Call(op, b) ==
    /\ Idle
    /\ pc' = op /\ buf' = b /\ done' = 0 /\ old' = [written |-> written, pos |-> pos]
    /\ UNCHANGED <<data, crcs, pos, written, hurt>>

Lba == pos \div SectorSize
Offset == pos % SectorSize
ToCopy == LET available == SectorSize - Offset
          IN  IF available < Len(buf) - done THEN available ELSE Len(buf) - done
InBounds == (Lba + 1) * SectorSize <= Size

\* read_sector succeeds.
ReadSector == IF InBounds THEN Bytes(data, Lba) = crcs[Lba] ELSE FALSE

\* Mutant: the cursor moves on by the length of the buffer.
ReadChunkOverruns ==
    /\ pc = "read" /\ done < Len(buf) /\ ReadSector
    /\ buf' = [i \in 1..Len(buf) |-> IF i \in done + 1..done + ToCopy
                                     THEN data[pos + i - done - 1] ELSE buf[i]]
    /\ done' = done + ToCopy /\ pos' = pos + Len(buf)
    /\ UNCHANGED <<data, crcs, pc, written, old, hurt>>

\* Mutant: the CRC is not compared.
ReadChunkUnchecked ==
    /\ pc = "read" /\ done < Len(buf) /\ InBounds
    /\ buf' = [i \in 1..Len(buf) |-> IF i \in done + 1..done + ToCopy
                                     THEN data[pos + i - done - 1] ELSE buf[i]]
    /\ done' = done + ToCopy /\ pos' = pos + ToCopy
    /\ UNCHANGED <<data, crcs, pc, written, old, hurt>>

\* One round of the loop of read.
ReadChunk ==
    /\ pc = "read" /\ done < Len(buf) /\ ReadSector
    /\ buf' = [i \in 1..Len(buf) |-> IF i \in done + 1..done + ToCopy
                                     THEN data[pos + i - done - 1] ELSE buf[i]]
    /\ done' = done + ToCopy /\ pos' = pos + ToCopy
    /\ UNCHANGED <<data, crcs, pc, written, old, hurt>>

\* The sector with the part that is written changed, from a copy d of the sector.
Patched(d) ==
    [i \in 1..SectorSize |-> IF i - 1 \in Offset..Offset + ToCopy - 1
                             THEN buf[done + i - Offset] ELSE d[i]]

WholeSector == Offset = 0 /\ ToCopy = SectorSize

\* Mutant: the CRC stays as it is.
WriteSectorKeepsCrc(bytes) ==
    /\ data' = [a \in Addr |-> IF a \div SectorSize = Lba THEN bytes[(a % SectorSize) + 1] ELSE data[a]]
    /\ UNCHANGED crcs

\* write_sector: the CRC, then the bytes.
WriteSector(bytes) ==
    /\ crcs' = [crcs EXCEPT ![Lba] = bytes]
    /\ data' = [a \in Addr |-> IF a \div SectorSize = Lba THEN bytes[(a % SectorSize) + 1] ELSE data[a]]

\* Mutant: a part of a sector is written without reading the rest first.
WriteChunkBlank ==
    /\ pc = "write" /\ done < Len(buf)
    /\ IF WholeSector THEN InBounds ELSE ReadSector
    /\ WriteSector(Patched([i \in 1..SectorSize |-> Zero]))
    /\ done' = done + ToCopy /\ pos' = pos + ToCopy
    /\ written' = [a \in Addr |-> IF a \in pos..pos + ToCopy - 1 THEN buf[done + 1 + a - pos] ELSE written[a]]
    /\ hurt' = hurt \ (pos..pos + ToCopy - 1)
    /\ UNCHANGED <<buf, pc, old>>

\* One round of the loop of write.
WriteChunk ==
    /\ pc = "write" /\ done < Len(buf)
    /\ IF WholeSector THEN InBounds ELSE ReadSector
    /\ WriteSector(Patched(Bytes(data, Lba)))
    /\ done' = done + ToCopy /\ pos' = pos + ToCopy
    /\ written' = [a \in Addr |-> IF a \in pos..pos + ToCopy - 1 THEN buf[done + 1 + a - pos] ELSE written[a]]
    /\ hurt' = hurt \ (pos..pos + ToCopy - 1)
    /\ UNCHANGED <<buf, pc, old>>

\* A sector out of bounds, or a CRC that differs: FatIoError.
Fail ==
    /\ ~Idle /\ done < Len(buf)
    /\ ~(IF pc = "write" /\ WholeSector THEN InBounds ELSE ReadSector)
    /\ pc' = "error"
    /\ UNCHANGED <<data, crcs, pos, buf, done, written, old, hurt>>

Return ==
    /\ ~Idle /\ done = Len(buf)
    /\ pc' = (IF pc = "read" THEN "readOk" ELSE "writeOk")
    /\ UNCHANGED <<data, crcs, pos, buf, done, written, old, hurt>>

\* A byte of the region changes by itself, one at a time.
Corrupt(a, b) ==
    /\ Idle /\ b # data[a] /\ hurt = {}
    /\ data' = [data EXCEPT ![a] = b] /\ hurt' = {a}
    /\ UNCHANGED <<crcs, pos, buf, done, pc, written, old>>

Next ==
    \/ \E p \in 0..Size + 1 : Seek(p)
    \/ \E n \in 1..MaxLen : \/ Call("read", [i \in 1..n |-> Zero])
                            \/ \E b \in [1..n -> Byte] : Call("write", b)
    \/ ReadChunk \/ WriteChunk \/ Fail \/ Return
    \/ \E a \in Addr, b \in Byte : Corrupt(a, b)

Spec == Init /\ [][Next]_vars
-----------------------------------------------------------------------------
\* The CRC of a sector is that of the bytes last written to it, so a sector
\* without a changed byte can be read.
CrcsCurrent == \A s \in Sector : crcs[s] = Bytes(written, s)

\* A read that succeeds gives the bytes last written from its starting place on,
\* also when it crosses sectors and when memory under the disk has changed.
ReadIsTrue == pc = "readOk" => \A i \in 1..Len(buf) : buf[i] = written[old.pos + i - 1]

\* A write changes the bytes from its starting place on and no others: all of
\* them when it succeeds, and those before the failing sector otherwise.
WriteIsExact ==
    pc \in {"writeOk", "write"} =>
        \A a \in Addr \ hurt :
            data[a] = IF a \in old.pos..old.pos + done - 1 THEN buf[a - old.pos + 1] ELSE old.written[a]

\* The disk is sound: transfers are exact whatever sectors they cross, and no
\* changed byte is ever taken for one that was written.
DiskSound == TypeOK /\ WriteIsExact /\ CrcsCurrent /\ ReadIsTrue
=============================================================================
