--------------------------- MODULE ServiceProofs ----------------------------
(***************************************************************************)
(* Services of the kernel for any number of tasks, names and bytes: the    *)
(* disk gives back what was written to it, a pipe is a channel, an IPC     *)
(* handle never comes to mean another object, signal handlers nest, and    *)
(* the ring of scancodes is a queue.                                       *)
(***************************************************************************)
EXTENDS IpcTable, DiskPart, PipePart, SignalPart, ConsolePart, Sequences, FiniteSetTheorems,
        WellFoundedInduction, TLAPS

\* Division with remainder.
LEMMA DivMod ==
    ASSUME NEW n \in Nat \ {0}, NEW a \in Nat
    PROVE  a \div n \in Nat /\ a % n \in 0..(n - 1) /\ a = n * (a \div n) + (a % n)
<1>1. a % n \in 0..(n - 1)
  BY SMTT(60)
<1>2. a \div n \in Int
  BY SMTT(60)
<1>3. a = n * (a \div n) + (a % n)
  BY SMTT(60)
<1>4. a \div n >= 0
  BY SMTT(60)
<1> QED
  BY <1>1, <1>2, <1>3, <1>4, SMTT(60)

LEMMA DivUnique ==
    ASSUME NEW n \in Nat \ {0}, NEW q \in Nat, NEW r \in 0..(n - 1)
    PROVE  n * q \in Nat /\ (n * q + r) \div n = q /\ (n * q + r) % n = r
<1>1. (n * q + r) \div n = q
  BY SMTT(60)
<1>2. (n * q + r) % n = r
  BY SMTT(60)
<1>3. n * q \in Nat
  BY SMTT(60)
<1> QED
  BY <1>1, <1>2, <1>3, Zenon

LEMMA NextMultiple ==
    ASSUME NEW n \in Nat \ {0}, NEW p \in Nat, NEW q \in Nat
    PROVE  /\ p < q => n * p + n <= n * q
           /\ n * p < n * q => p < q
           /\ (p + 1) * n = n * p + n /\ n * p = p * n /\ n * q = q * n
<1>1. p < q => n * p + n <= n * q
  BY SMTT(60)
<1>2. q <= p => n * q <= n * p
  BY SMTT(60)
<1>3. (p + 1) * n = n * p + n /\ n * p = p * n /\ n * q = q * n
  BY SMTT(60)
<1>4. n * p \in Nat /\ n * q \in Nat
  BY SMTT(60)
<1> QED
  BY <1>1, <1>2, <1>3, <1>4, SMTT(60)

\* An address is a sector and a place in it.
LEMMA SectorOf ==
    ASSUME Drive!DiskAssumption, NEW a \in Nat
    PROVE  /\ a \div SectorSize \in Nat /\ a % SectorSize \in 0..(SectorSize - 1)
           /\ a = (a \div SectorSize) * SectorSize + (a % SectorSize)
           /\ ((a \div SectorSize) + 1) * SectorSize <= Drive!Size => a \div SectorSize \in Drive!Sector
           /\ a \in Drive!Addr => a \div SectorSize \in Drive!Sector
<1> DEFINE l == a \div SectorSize
           o == a % SectorSize
<1>1. SectorSize \in Nat \ {0} /\ NumSectors \in Nat
  BY Zenon DEF Drive!DiskAssumption
<1>2. l \in Nat /\ o \in 0..(SectorSize - 1) /\ a = SectorSize * l + o
  BY <1>1, DivMod, Zenon
<1> HIDE DEF l, o
<1>3. /\ (l + 1) * SectorSize = SectorSize * l + SectorSize /\ SectorSize * l = l * SectorSize
      /\ SectorSize * l < SectorSize * NumSectors => l < NumSectors
      /\ SectorSize * NumSectors = NumSectors * SectorSize
  BY <1>1, <1>2, NextMultiple, Zenon
<1> DEFINE x == SectorSize * l
           y == SectorSize * NumSectors
<1>4. x \in Nat /\ y \in Nat
  BY <1>1, <1>2, SMTT(60)
<1> HIDE DEF x, y
<1>5. a = x + o /\ (l + 1) * SectorSize = x + SectorSize /\ l * SectorSize = x /\ (x < y => l < NumSectors)
      /\ Drive!Size = y
  BY <1>2, <1>3, Zenon DEF x, y, Drive!Size
<1>6. (l + 1) * SectorSize <= Drive!Size => l \in Drive!Sector
  BY <1>1, <1>2, <1>4, <1>5, SMTT(60) DEF Drive!Sector
<1>7. a \in Drive!Addr => l \in Drive!Sector
  BY <1>1, <1>2, <1>4, <1>5, SMTT(60) DEF Drive!Sector, Drive!Addr
<1> QED
  BY <1>2, <1>5, <1>6, <1>7, Zenon DEF l, o

\* A sector and a place in it are an address.
LEMMA AddrOf ==
    ASSUME Drive!DiskAssumption, NEW s \in Drive!Sector, NEW i \in 0..(SectorSize - 1)
    PROVE  /\ s * SectorSize + i \in Drive!Addr
           /\ (s * SectorSize + i) \div SectorSize = s
           /\ (s * SectorSize + i) % SectorSize = i
           /\ (s + 1) * SectorSize <= Drive!Size
<1>1. SectorSize \in Nat \ {0} /\ NumSectors \in Nat /\ s \in Nat /\ s < NumSectors
  BY SMTT(60) DEF Drive!DiskAssumption, Drive!Sector
<1>2. /\ (s + 1) * SectorSize = SectorSize * s + SectorSize /\ SectorSize * s = s * SectorSize
      /\ SectorSize * s + SectorSize <= SectorSize * NumSectors
      /\ SectorSize * NumSectors = NumSectors * SectorSize
  BY <1>1, NextMultiple, Zenon
<1>3. (SectorSize * s + i) \div SectorSize = s /\ (SectorSize * s + i) % SectorSize = i
  BY <1>1, DivUnique, Zenon
<1> DEFINE x == SectorSize * s
           y == SectorSize * NumSectors
<1>4. x \in Nat /\ y \in Nat
  BY <1>1, SMTT(60)
<1> HIDE DEF x, y
<1>5. s * SectorSize = x /\ (s + 1) * SectorSize = x + SectorSize /\ x + SectorSize <= y /\ Drive!Size = y
  BY <1>2, Zenon DEF x, y, Drive!Size
<1>6. x + i \in Drive!Addr
  BY <1>1, <1>4, <1>5, SMTT(60) DEF Drive!Addr
<1> QED
  BY <1>2, <1>3, <1>4, <1>5, <1>6, Zenon DEF x

\* The inductive invariant of the disk: what is at an address that was not hurt is
\* what was last written there, and a transfer is at the place it has come to.
DiskInv ==
    /\ Drive!DiskAssumption
    /\ bytes \in [Drive!Addr -> Byte] /\ written \in [Drive!Addr -> Byte]
    /\ crcs \in [Drive!Sector -> [1..SectorSize -> Byte]]
    /\ dpos \in 0..Drive!Size + 1 /\ dbuf \in Seq(Byte) /\ done \in 0..Len(dbuf)
    /\ dpc \in {"idle", "read", "write", "readOk", "writeOk", "error"}
    /\ old.pos \in Nat /\ hurt \subseteq Drive!Addr
    /\ \A a \in Drive!Addr \ hurt : bytes[a] = written[a]
    /\ Drive!CrcsCurrent
    /\ dpc \in {"read", "readOk", "write", "writeOk"} => dpos = old.pos + done
    /\ dpc = "readOk" => done = Len(dbuf)
    /\ dpc \in {"read", "readOk"} => \A i \in 1..done : dbuf[i] = written[old.pos + i - 1]
    /\ dpc \in {"write", "writeOk"} =>
          \A a \in Drive!Addr :
              written[a] = IF a \in old.pos..old.pos + done - 1 THEN dbuf[a - old.pos + 1] ELSE old.written[a]

LEMMA DiskInitSound == Drive!DiskAssumption /\ Drive!Init => DiskInv
<1> SUFFICES ASSUME Drive!DiskAssumption, Drive!Init PROVE DiskInv
  BY Zenon
<1>1. Drive!Size \in Nat
  BY SMTT(60) DEF Drive!DiskAssumption, Drive!Size
<1>2. Drive!CrcsCurrent
  <2> SUFFICES ASSUME NEW s \in Drive!Sector PROVE crcs[s] = Drive!Bytes(written, s)
    BY Zenon DEF Drive!CrcsCurrent
  <2>1. \A i \in 1..SectorSize : i - 1 \in 0..(SectorSize - 1) /\ s * SectorSize + i - 1 = s * SectorSize + (i - 1)
    BY SMTT(60) DEF Drive!DiskAssumption, Drive!Sector
  <2>2. \A i \in 1..SectorSize : s * SectorSize + i - 1 \in Drive!Addr
    BY <2>1, AddrOf, Zenon
  <2> QED
    BY <2>2, Zenon DEF Drive!Init, Drive!Bytes
<1> QED
  BY <1>1, <1>2, SMTT(60) DEF DiskInv, Drive!Init, Drive!DiskAssumption

\* One round of a transfer stays in one sector and within the buffer.
LEMMA ChunkFits ==
    ASSUME DiskInv, done < Len(dbuf)
    PROVE  /\ Drive!Lba \in Nat /\ Drive!Offset \in 0..(SectorSize - 1)
           /\ dpos = Drive!Lba * SectorSize + Drive!Offset
           /\ Drive!ToCopy \in Nat /\ Drive!ToCopy > 0
           /\ done + Drive!ToCopy <= Len(dbuf) /\ Drive!Offset + Drive!ToCopy <= SectorSize
           /\ Drive!InBounds => /\ Drive!Lba \in Drive!Sector
                                /\ dpos + Drive!ToCopy \in 0..Drive!Size
                                /\ dpos..(dpos + Drive!ToCopy - 1) \subseteq Drive!Addr
<1>1. Drive!DiskAssumption /\ dpos \in Nat /\ Len(dbuf) \in Nat /\ done \in Nat /\ SectorSize \in Nat /\ Drive!Size \in Nat
  BY SMTT(60) DEF DiskInv, Drive!DiskAssumption, Drive!Size
<1>2. /\ Drive!Lba \in Nat /\ Drive!Offset \in 0..(SectorSize - 1)
      /\ dpos = Drive!Lba * SectorSize + Drive!Offset
      /\ Drive!InBounds => Drive!Lba \in Drive!Sector
  BY <1>1, SectorOf, Zenon DEF Drive!Lba, Drive!Offset, Drive!InBounds
<1>3. /\ Drive!ToCopy \in Nat /\ Drive!ToCopy > 0
      /\ done + Drive!ToCopy <= Len(dbuf) /\ Drive!Offset + Drive!ToCopy <= SectorSize
  BY <1>1, <1>2, SMTT(60) DEF Drive!ToCopy
<1>4. ASSUME Drive!InBounds PROVE dpos + Drive!ToCopy <= Drive!Size
  <2>1. (Drive!Lba + 1) * SectorSize = Drive!Lba * SectorSize + SectorSize
    BY <1>1, <1>2, SMTT(60)
  <2>2. Drive!Lba * SectorSize \in Nat
    BY <1>1, <1>2, SMTT(60)
  <2> QED
    BY <1>1, <1>2, <1>3, <1>4, <2>1, <2>2, SMTT(60) DEF Drive!InBounds
<1> QED
  BY <1>1, <1>2, <1>3, <1>4, SMTT(60) DEF Drive!Addr

\* The addresses of a round are in its sector.
LEMMA ChunkInSector ==
    ASSUME DiskInv, done < Len(dbuf), Drive!InBounds, NEW a \in dpos..(dpos + Drive!ToCopy - 1)
    PROVE  a \div SectorSize = Drive!Lba
<1> DEFINE b == Drive!Lba * SectorSize
           n == Drive!ToCopy
           o == Drive!Offset
<1>1. /\ Drive!DiskAssumption /\ Drive!Lba \in Drive!Sector /\ SectorSize \in Nat /\ dpos = b + o
      /\ b \in Nat /\ n \in Nat /\ o \in 0..(SectorSize - 1) /\ o + n <= SectorSize
  <2>1. Drive!DiskAssumption /\ SectorSize \in Nat
    BY Zenon DEF DiskInv, Drive!DiskAssumption
  <2>2. Drive!Lba * SectorSize \in Nat
    BY <2>1, ChunkFits, SMTT(60)
  <2> QED
    BY <2>1, <2>2, ChunkFits, Zenon
<1> HIDE DEF b, n, o
<1>2. a - b \in 0..(SectorSize - 1) /\ a = b + (a - b)
  <2>1. a \in dpos..(dpos + n - 1)
    BY Zenon DEF n
  <2> QED
    BY <1>1, <2>1, SMTT(60)
<1> QED
  BY <1>1, <1>2, AddrOf, Zenon DEF b

\* The bytes of a sector.
LEMMA BytesAt ==
    ASSUME Drive!DiskAssumption, NEW s \in Drive!Sector, NEW i \in 1..SectorSize
    PROVE  /\ s * SectorSize + i - 1 \in Drive!Addr
           /\ \A d : Drive!Bytes(d, s)[i] = d[s * SectorSize + i - 1]
<1>1. i - 1 \in 0..(SectorSize - 1) /\ s * SectorSize + i - 1 = s * SectorSize + (i - 1)
  BY SMTT(60) DEF Drive!DiskAssumption, Drive!Sector
<1> QED
  BY <1>1, AddrOf, Zenon DEF Drive!Bytes

\* A sector that is read has the bytes last written to it.
LEMMA ReadSectorTrue ==
    ASSUME DiskInv, Drive!ReadSector, Drive!Lba \in Drive!Sector, NEW i \in 1..SectorSize
    PROVE  bytes[Drive!Lba * SectorSize + i - 1] = written[Drive!Lba * SectorSize + i - 1]
<1>1. Drive!Bytes(bytes, Drive!Lba) = Drive!Bytes(written, Drive!Lba)
  BY Zenon DEF DiskInv, Drive!ReadSector, Drive!CrcsCurrent
<1> QED
  BY <1>1, BytesAt, SMTT(60) DEF DiskInv

\* A round of a read fills the buffer with bytes that were written.
LEMMA ReadChunkSound == DiskInv /\ Drive!ReadChunk => DiskInv'
<1> SUFFICES ASSUME DiskInv, Drive!ReadChunk PROVE DiskInv'
  BY Zenon
<1> DEFINE n == Drive!ToCopy
           p == dpos
           o == Drive!Offset
           b == Drive!Lba * SectorSize
<1>1. /\ Drive!DiskAssumption /\ bytes \in [Drive!Addr -> Byte] /\ dbuf \in Seq(Byte)
      /\ p \in Nat /\ done \in Nat /\ Len(dbuf) \in Nat /\ SectorSize \in Nat
      /\ dpc = "read" /\ done < Len(dbuf)
  BY SMTT(60) DEF DiskInv, Drive!ReadChunk, Drive!DiskAssumption, Drive!Size
<1>2. /\ Drive!InBounds /\ Drive!ReadSector
      /\ dbuf' = [i \in 1..Len(dbuf) |-> IF i \in done + 1..done + n THEN bytes[p + i - done - 1] ELSE dbuf[i]]
      /\ done' = done + n /\ dpos' = p + n
      /\ UNCHANGED <<bytes, crcs, dpc, written, old, hurt>>
  BY Zenon DEF Drive!ReadChunk, Drive!ReadSector
<1>3. /\ Drive!Lba \in Drive!Sector /\ o \in 0..(SectorSize - 1) /\ p = b + o /\ b \in Nat
      /\ n \in Nat /\ n > 0 /\ done + n <= Len(dbuf) /\ o + n <= SectorSize
  BY <1>1, <1>2, ChunkFits, SMTT(60) DEF Drive!Sector
<1> HIDE DEF n, p, o, b
<1>4. p..(p + n - 1) \subseteq Drive!Addr
  BY <1>1, <1>2, ChunkFits, Zenon DEF n, p
<1>5. ASSUME NEW a \in p..(p + n - 1) PROVE bytes[a] = written[a]
  <2> DEFINE i == a - p + o + 1
  <2>1. i \in 1..SectorSize /\ a = b + i - 1
    BY <1>1, <1>3, SMTT(60)
  <2> HIDE DEF i
  <2> QED
    BY <1>2, <1>3, <2>1, ReadSectorTrue, Zenon DEF b
<1>6. dbuf' \in Seq(Byte) /\ Len(dbuf') = Len(dbuf)
  <2>1. \A i \in 1..Len(dbuf) : (IF i \in done + 1..done + n THEN bytes[p + i - done - 1] ELSE dbuf[i]) \in Byte
    <3> SUFFICES ASSUME NEW i \in 1..Len(dbuf), i \in done + 1..done + n PROVE bytes[p + i - done - 1] \in Byte
      BY <1>1, SMTT(60)
    <3>1. p + i - done - 1 \in p..(p + n - 1)
      BY <1>1, <1>3, SMTT(60)
    <3> QED
      BY <1>1, <1>4, <3>1, Zenon
  <2> QED
    BY <1>1, <1>2, <2>1, SMTT(60)
<1>7. ASSUME NEW i \in 1..(done + n) PROVE dbuf'[i] = written[old.pos + i - 1]
  <2>1. i \in 1..Len(dbuf)
    BY <1>1, <1>3, SMTT(60)
  <2>2. CASE i \in done + 1..done + n
    <3>1. dbuf'[i] = bytes[p + i - done - 1] /\ p + i - done - 1 \in p..(p + n - 1)
      BY <1>1, <1>2, <1>3, <2>1, <2>2, SMTT(60)
    <3>2. p = old.pos + done /\ old.pos \in Nat
      BY <1>1, Zenon DEF DiskInv, p
    <3>3. p + i - done - 1 = old.pos + i - 1
      BY <1>1, <3>2, SMTT(60)
    <3> QED
      BY <1>5, <3>1, <3>3, Zenon
  <2>3. CASE i \in 1..done
    <3>1. dbuf[i] = written[old.pos + i - 1]
      BY <1>1, <2>3, Zenon DEF DiskInv
    <3> QED
      BY <1>1, <1>2, <2>1, <2>3, <3>1, SMTT(60)
  <2> QED
    BY <1>1, <1>3, <2>2, <2>3, SMTT(60)
<1>8. done' \in 0..Len(dbuf') /\ dpos' = old.pos + done' /\ dpos' \in 0..Drive!Size + 1
  <2>1. p = old.pos + done /\ old.pos \in Nat
    BY <1>1, Zenon DEF DiskInv, p
  <2>2. p + n \in 0..Drive!Size /\ Drive!Size \in Nat
    BY <1>1, <1>2, ChunkFits, SMTT(60) DEF n, p, Drive!Size, Drive!DiskAssumption
  <2>3. dpos' = old.pos + done'
    <3>1. dpos' = p + n /\ done' = done + n /\ done \in Nat /\ n \in Nat
      BY <1>1, <1>2, <1>3, Zenon
    <3> QED
      BY <2>1, <3>1, SMTT(60)
  <2>4. done' \in 0..Len(dbuf')
    BY <1>1, <1>2, <1>3, <1>6, SMTT(60)
  <2> QED
    BY <1>2, <2>2, <2>3, <2>4, SMTT(60)
<1>9. Drive!CrcsCurrent'
  BY <1>2, SMTT(60) DEF DiskInv, Drive!CrcsCurrent, Drive!Bytes
<1> QED
  BY <1>1, <1>2, <1>6, <1>7, <1>8, <1>9, Zenon DEF DiskInv

\* A round of a write changes the bytes it is at, in memory and in what was written.
LEMMA WriteChunkExact ==
    ASSUME DiskInv, Drive!WriteChunk
    PROVE  /\ Drive!InBounds /\ Drive!Lba \in Drive!Sector
           /\ \A a \in Drive!Addr :
                 bytes'[a] = IF a \in dpos..(dpos + Drive!ToCopy - 1) THEN dbuf[done + 1 + a - dpos] ELSE bytes[a]
           /\ crcs' = [crcs EXCEPT ![Drive!Lba] = Drive!Bytes(written', Drive!Lba)]
<1> DEFINE n == Drive!ToCopy
           o == Drive!Offset
           l == Drive!Lba
           b == Drive!Lba * SectorSize
           new == Drive!Patched(Drive!Bytes(bytes, l))
           at(a) == a \in dpos..(dpos + n - 1)
<1>1. /\ Drive!DiskAssumption /\ dpos \in Nat /\ done \in Nat /\ Len(dbuf) \in Nat /\ done < Len(dbuf)
      /\ SectorSize \in Nat /\ SectorSize > 0
  BY SMTT(60) DEF DiskInv, Drive!WriteChunk, Drive!DiskAssumption
<1>2. /\ Drive!InBounds /\ (Drive!WholeSector \/ Drive!ReadSector)
      /\ crcs' = [crcs EXCEPT ![l] = new]
      /\ bytes' = [a \in Drive!Addr |-> IF a \div SectorSize = l THEN new[(a % SectorSize) + 1] ELSE bytes[a]]
      /\ written' = [a \in Drive!Addr |-> IF at(a) THEN dbuf[done + 1 + a - dpos] ELSE written[a]]
  BY Zenon DEF Drive!WriteChunk, Drive!WriteSector, Drive!ReadSector
<1>3. /\ l \in Drive!Sector /\ o \in 0..(SectorSize - 1) /\ dpos = b + o /\ b \in Nat
      /\ n \in Nat /\ n > 0 /\ o + n <= SectorSize
  BY <1>1, <1>2, ChunkFits, SMTT(60) DEF Drive!Sector
<1>4. new = [i \in 1..SectorSize |-> IF i - 1 \in o..(o + n - 1) THEN dbuf[done + i - o] ELSE Drive!Bytes(bytes, l)[i]]
  BY Zenon DEF Drive!Patched
<1> HIDE DEF n, o, l, b, new
<1>5. ASSUME NEW i \in 1..SectorSize
      PROVE  /\ b + i - 1 \in Drive!Addr
             /\ new[i] = IF at(b + i - 1) THEN dbuf[done + 1 + (b + i - 1) - dpos] ELSE bytes[b + i - 1]
  <2>1. b + i - 1 \in Drive!Addr /\ Drive!Bytes(bytes, l)[i] = bytes[b + i - 1]
    BY <1>1, <1>3, BytesAt, Zenon DEF b, l
  <2>2. (i - 1 \in o..(o + n - 1)) <=> at(b + i - 1)
    BY <1>3, SMTT(60)
  <2>3. done + i - o = done + 1 + (b + i - 1) - dpos
    BY <1>1, <1>3, SMTT(60)
  <2> QED
    BY <1>4, <2>1, <2>2, <2>3, Zenon
<1>6. ASSUME NEW a \in Drive!Addr
      PROVE  bytes'[a] = IF at(a) THEN dbuf[done + 1 + a - dpos] ELSE bytes[a]
  <2> DEFINE q == (a \div SectorSize) * SectorSize
             r == a % SectorSize
  <2>1. a \in Nat /\ r \in 0..(SectorSize - 1) /\ a = q + r
    BY <1>1, SectorOf, SMTT(60) DEF Drive!Addr
  <2> HIDE DEF q, r
  <2>2. CASE a \div SectorSize = l
    <3>1. q = b
      BY <2>2, Zenon DEF q, b, l
    <3>2. r + 1 \in 1..SectorSize /\ a = b + (r + 1) - 1
      BY <1>1, <1>3, <2>1, <3>1, SMTT(60)
    <3>3. bytes'[a] = new[r + 1]
      BY <1>2, <2>2, Zenon DEF r
    <3> QED
      BY <1>5, <3>2, <3>3, Zenon
  <2>3. CASE a \div SectorSize # l
    <3>1. ~at(a)
      BY <1>1, <1>2, <2>3, ChunkInSector, Zenon DEF n, l
    <3> QED
      BY <1>2, <2>3, <3>1, Zenon
  <2> QED
    BY <2>2, <2>3, Zenon
<1>7. new = Drive!Bytes(written', l)
  <2>1. ASSUME NEW i \in 1..SectorSize PROVE new[i] = written'[b + i - 1]
    <3>1. written'[b + i - 1] = IF at(b + i - 1) THEN dbuf[done + 1 + (b + i - 1) - dpos] ELSE written[b + i - 1]
      BY <1>2, <1>5, Zenon
    <3>2. CASE Drive!WholeSector
      <4>1. at(b + i - 1)
        BY <1>1, <1>3, <3>2, SMTT(60) DEF Drive!WholeSector, o, n
      <4> QED
        BY <1>5, <3>1, <4>1, Zenon
    <3>3. CASE Drive!ReadSector
      <4>1. bytes[b + i - 1] = written[b + i - 1]
        BY <1>3, <3>3, ReadSectorTrue, Zenon DEF b, l
      <4> QED
        BY <1>5, <3>1, <4>1, SMTT(60)
    <3> QED
      BY <1>2, <3>2, <3>3, Zenon
  <2>2. Drive!Bytes(written', l) = [i \in 1..SectorSize |-> written'[b + i - 1]]
    BY Zenon DEF Drive!Bytes, b, l
  <2>3. new = [i \in 1..SectorSize |-> new[i]]
    BY <1>4, Zenon
  <2> QED
    BY <2>1, <2>2, <2>3, Zenon
<1> QED
  BY <1>2, <1>3, <1>6, <1>7, Zenon DEF n, l

\* The chunk of n bytes at q + d continues the d bytes at q.
LEMMA ChunkAfter ==
  ASSUME NEW a \in Int, NEW q \in Nat, NEW d \in Nat, NEW n \in Nat
  PROVE  /\ a \in (q + d)..(q + d + n - 1) => a \in q..(q + (d + n) - 1) /\ d + 1 + a - (q + d) = a - q + 1
         /\ a \notin (q + d)..(q + d + n - 1) => (a \in q..(q + (d + n) - 1) <=> a \in q..(q + d - 1))
<1>1. ASSUME a \in (q + d)..(q + d + n - 1) PROVE a \in q..(q + (d + n) - 1) /\ d + 1 + a - (q + d) = a - q + 1
  BY <1>1, SMTT(60)
<1>2. ASSUME a \notin (q + d)..(q + d + n - 1) PROVE a \in q..(q + (d + n) - 1) <=> a \in q..(q + d - 1)
  BY <1>2, SMTT(60)
<1> QED
  BY <1>1, <1>2, Zenon

\* So the invariant holds after a round of a write.
LEMMA WriteChunkSound == DiskInv /\ Drive!WriteChunk => DiskInv'
<1> SUFFICES ASSUME DiskInv, Drive!WriteChunk PROVE DiskInv'
  BY Zenon
<1> DEFINE n == Drive!ToCopy
           l == Drive!Lba
           range == dpos..(dpos + n - 1)
<1>1. /\ Drive!DiskAssumption /\ done < Len(dbuf) /\ dbuf \in Seq(Byte) /\ dpc = "write"
      /\ bytes \in [Drive!Addr -> Byte] /\ written \in [Drive!Addr -> Byte]
  BY Zenon DEF DiskInv, Drive!WriteChunk
<1>2. /\ done' = done + n /\ dpos' = dpos + n /\ hurt' = hurt \ range
      /\ written' = [a \in Drive!Addr |-> IF a \in range THEN dbuf[done + 1 + a - dpos] ELSE written[a]]
      /\ UNCHANGED <<dbuf, dpc, old>>
  BY Zenon DEF Drive!WriteChunk
<1>3. /\ l \in Drive!Sector
      /\ \A a \in Drive!Addr : bytes'[a] = IF a \in range THEN dbuf[done + 1 + a - dpos] ELSE bytes[a]
      /\ crcs' = [crcs EXCEPT ![l] = Drive!Bytes(written', l)]
      /\ Drive!InBounds
  BY WriteChunkExact, Zenon
<1>4. /\ n \in Nat /\ n > 0 /\ done + n <= Len(dbuf)
      /\ dpos \in Nat /\ done \in Nat /\ Len(dbuf) \in Nat
  BY <1>1, <1>3, ChunkFits, SMTT(60) DEF DiskInv
<1> HIDE DEF n, l
<1>5. \A a \in range : dbuf[done + 1 + a - dpos] \in Byte
  <2> SUFFICES ASSUME NEW a \in range PROVE dbuf[done + 1 + a - dpos] \in Byte
    BY Zenon
  <2>1. done + 1 + a - dpos \in 1..Len(dbuf)
    BY <1>4, SMTT(60)
  <2> QED
    BY <1>1, <2>1, SMTT(60)
<1>6. written' \in [Drive!Addr -> Byte]
  BY <1>1, <1>2, <1>5, Zenon
<1>7. bytes' \in [Drive!Addr -> Byte]
  <2>1. bytes' = [a \in Drive!Addr |-> bytes'[a]]
    BY Zenon DEF Drive!WriteChunk, Drive!WriteSector
  <2> QED
    BY <1>1, <1>3, <1>5, <2>1, Zenon
<1>8. \A a \in Drive!Addr \ hurt' : bytes'[a] = written'[a]
  BY <1>2, <1>3, Zenon DEF DiskInv
<1>9. crcs' \in [Drive!Sector -> [1..SectorSize -> Byte]]
  <2>1. Drive!Bytes(written', l) \in [1..SectorSize -> Byte]
    BY <1>1, <1>3, <1>6, BytesAt, Zenon DEF Drive!Bytes
  <2> QED
    BY <1>3, <2>1, Zenon DEF DiskInv
<1>10. Drive!CrcsCurrent'
  <2> SUFFICES ASSUME NEW s \in Drive!Sector PROVE crcs'[s] = Drive!Bytes(written', s)
    BY Zenon DEF Drive!CrcsCurrent, Drive!Bytes
  <2>1. CASE s = l
    BY <1>3, <2>1, Zenon DEF DiskInv
  <2>2. CASE s # l
    <3>1. crcs'[s] = Drive!Bytes(written, s)
      BY <1>3, <2>2, Zenon DEF DiskInv, Drive!CrcsCurrent
    <3>2. ASSUME NEW i \in 1..SectorSize
          PROVE  written'[s * SectorSize + i - 1] = written[s * SectorSize + i - 1]
      <4> DEFINE a == s * SectorSize + i - 1
      <4>1. a \in Drive!Addr /\ a \div SectorSize = s
        <5>1. i - 1 \in 0..(SectorSize - 1) /\ a = s * SectorSize + (i - 1)
          BY <1>1, SMTT(60) DEF Drive!DiskAssumption, Drive!Sector
        <5> QED
          BY <1>1, <5>1, AddrOf, Zenon
      <4> HIDE DEF a
      <4>2. a \notin range
        BY <1>1, <1>3, <2>2, <4>1, ChunkInSector, Zenon DEF n, l
      <4> QED
        BY <1>2, <4>1, <4>2, Zenon DEF a
    <3> QED
      BY <3>1, <3>2, Zenon DEF Drive!Bytes
  <2> QED
    BY <2>1, <2>2, Zenon
<1>11. old.pos \in Nat /\ dpos = old.pos + done
  BY <1>1, Zenon DEF DiskInv
<1>12. ASSUME NEW a \in Drive!Addr
       PROVE  written'[a] = IF a \in old.pos..old.pos + done' - 1 THEN dbuf[a - old.pos + 1] ELSE old.written[a]
  <2>1. a \in Int /\ done' = done + n
    BY <1>2, SMTT(60) DEF Drive!Addr
  <2>2. written[a] = IF a \in old.pos..old.pos + done - 1 THEN dbuf[a - old.pos + 1] ELSE old.written[a]
    BY <1>1, Zenon DEF DiskInv
  <2>3. CASE a \in range
    <3>1. a \in old.pos..old.pos + done' - 1 /\ done + 1 + a - dpos = a - old.pos + 1
      BY <1>4, <1>11, <2>1, <2>3, ChunkAfter, ZenonT(60)
    <3> QED
      BY <1>2, <2>3, <3>1, Zenon
  <2>4. CASE a \notin range
    <3>1. (a \in old.pos..old.pos + done' - 1) <=> (a \in old.pos..old.pos + done - 1)
      BY <1>4, <1>11, <2>1, <2>4, ChunkAfter, Zenon
    <3> QED
      BY <1>2, <2>2, <2>4, <3>1, Zenon
  <2> QED
    BY <2>3, <2>4, Zenon
<1>13. done' \in 0..Len(dbuf') /\ dpos' = old.pos + done' /\ dpos' \in 0..Drive!Size + 1
  <2>1. dpos + n \in 0..Drive!Size /\ Drive!Size \in Nat
    BY <1>1, <1>3, ChunkFits, SMTT(60) DEF n, Drive!Size, Drive!DiskAssumption
  <2>2. done' = done + n /\ dpos' = dpos + n /\ dbuf' = dbuf
    BY <1>2, Zenon
  <2> QED
    BY <1>4, <1>11, <2>1, <2>2, SMTT(60)
<1>14. hurt' \subseteq Drive!Addr
  BY <1>2, Zenon DEF DiskInv
<1> HIDE DEF range
<1> QED
  BY <1>1, <1>2, <1>6, <1>7, <1>8, <1>9, <1>10, <1>11, <1>12, <1>13, <1>14, ZenonT(60) DEF DiskInv

\* Every step keeps the invariant.
LEMMA DiskStep == DiskInv /\ [Drive!Next]_(Drive!vars) => DiskInv'
<1> SUFFICES ASSUME DiskInv, [Drive!Next]_(Drive!vars) PROVE DiskInv'
  BY Zenon
<1>1. ASSUME UNCHANGED <<crcs, written>> PROVE Drive!CrcsCurrent'
  BY <1>1, SMTT(60) DEF DiskInv, Drive!CrcsCurrent, Drive!Bytes
<1>2. ASSUME NEW p \in 0..Drive!Size + 1, Drive!Seek(p) PROVE DiskInv'
  BY <1>1, <1>2, SMTT(60) DEF DiskInv, Drive!Seek
<1>3. ASSUME NEW b \in Seq(Byte), NEW op \in {"read", "write"}, Drive!Call(op, b) PROVE DiskInv'
  BY <1>1, <1>3, SMTT(60) DEF DiskInv, Drive!Call
<1>4. CASE Drive!Fail \/ Drive!Return
  BY <1>1, <1>4, Zenon DEF DiskInv, Drive!Fail, Drive!Return, Drive!Idle
<1>5. ASSUME NEW a \in Drive!Addr, NEW b \in Byte, Drive!Corrupt(a, b) PROVE DiskInv'
  BY <1>1, <1>5, Zenon DEF DiskInv, Drive!Corrupt, Drive!Idle
<1>6. CASE UNCHANGED Drive!vars
  BY <1>1, <1>6, Zenon DEF DiskInv, Drive!vars
<1>7. CASE \E n \in 1..MaxLen : \/ Drive!Call("read", [i \in 1..n |-> Zero])
                               \/ \E b \in [1..n -> Byte] : Drive!Call("write", b)
  <2>1. \A n \in Nat : \A b \in [1..n -> Byte] : b \in Seq(Byte)
    BY SMTT(60)
  <2>2. \A n \in 1..MaxLen : n \in Nat /\ [i \in 1..n |-> Zero] \in [1..n -> Byte]
    BY SMTT(60) DEF DiskInv, Drive!DiskAssumption
  <2> QED
    BY <1>3, <1>7, <2>1, <2>2, Zenon
<1> QED
  BY <1>2, <1>4, <1>5, <1>6, <1>7, ReadChunkSound, WriteChunkSound, Zenon DEF Drive!Next

\* A read that succeeds gives what was last written, a write changes the bytes it is
\* given and no others, and every CRC is that of what was written, however transfers
\* cross sectors and whatever happens to the memory under the disk.
THEOREM DiskStaysSound == Drive!DiskAssumption /\ Drive!Spec => []DiskSound
<1>1. DiskInv => DiskSound
  BY Zenon DEF DiskSound, DiskInv, Drive!DiskSound, Drive!TypeOK, Drive!WriteIsExact, Drive!ReadIsTrue
<1> QED
  BY DiskInitSound, DiskStep, <1>1, PTL DEF Drive!Spec
-----------------------------------------------------------------------------
\* The inductive invariant of a pipe: what was accepted is what was delivered and
\* what is in the buffer, which is bounded.
PipeInv ==
    /\ Conduit!PipeAssumption
    /\ buf \in Seq(Conduit!Byte) /\ psent \in Seq(Conduit!Byte) /\ ptaken \in Seq(Conduit!Byte)
    /\ closed \in BOOLEAN
    /\ data \in [Task -> Seq(Conduit!Byte)]
    /\ want \in [Task -> Nat]
    /\ calls \in [Task -> 0..MaxCalls]
    /\ Len(buf) <= PipeBuf
    /\ psent = ptaken \o buf

\* The first n elements of a sequence and the others.
LEMMA SplitAt ==
    ASSUME NEW S, NEW b \in Seq(S), NEW n \in Nat, n <= Len(b)
    PROVE  /\ SubSeq(b, 1, n) \in Seq(S) /\ Len(SubSeq(b, 1, n)) = n
           /\ SubSeq(b, 1, n) \in [1..n -> S]
           /\ \A i \in 1..n : SubSeq(b, 1, n)[i] = b[i]
           /\ SubSeq(b, n + 1, Len(b)) \in Seq(S) /\ Len(SubSeq(b, n + 1, Len(b))) = Len(b) - n
           /\ \A i \in 1..(Len(b) - n) : SubSeq(b, n + 1, Len(b))[i] = b[n + i]
<1>1. SubSeq(b, 1, n) \in Seq(S) /\ Len(SubSeq(b, 1, n)) = n /\ \A i \in 1..n : SubSeq(b, 1, n)[i] = b[i]
  BY SMTT(60)
<1>2. SubSeq(b, n + 1, Len(b)) \in Seq(S) /\ Len(SubSeq(b, n + 1, Len(b))) = Len(b) - n
  BY SMTT(60)
<1>3. \A i \in 1..(Len(b) - n) : SubSeq(b, n + 1, Len(b))[i] = b[n + i]
  BY SMTT(60)
<1>4. SubSeq(b, 1, n) \in [1..n -> S]
  <2>1. \A f \in Seq(S) : f \in [1..Len(f) -> S]
    BY SMTT(60)
  <2> QED
    BY <1>1, <2>1, Zenon
<1> QED
  BY <1>1, <1>2, <1>3, <1>4, Zenon

\* Two sequences behind each other.
LEMMA Joined ==
    ASSUME NEW S, NEW a \in Seq(S), NEW b \in Seq(S)
    PROVE  /\ a \o b \in Seq(S) /\ Len(a \o b) = Len(a) + Len(b)
           /\ \A i \in 1..Len(a) : (a \o b)[i] = a[i]
           /\ \A i \in 1..Len(b) : (a \o b)[Len(a) + i] = b[i]
           /\ b = << >> => a \o b = a
<1>1. a \o b \in Seq(S) /\ Len(a \o b) = Len(a) + Len(b)
  BY SMTT(60)
<1>2. \A i \in 1..Len(a) : (a \o b)[i] = a[i]
  BY SMTT(60)
<1>3. \A i \in 1..Len(b) : (a \o b)[Len(a) + i] = b[i]
  BY SMTT(60)
<1>4. ASSUME b = << >> PROVE a \o b = a
  BY <1>4, SMTT(60)
<1> QED
  BY <1>1, <1>2, <1>3, <1>4, Zenon

\* Sequences are equal when they have the same elements.
LEMMA SameSeq ==
    ASSUME NEW S, NEW a \in Seq(S), NEW b \in Seq(S), Len(a) = Len(b),
           \A i \in 1..Len(a) : a[i] = b[i]
    PROVE  a = b
  BY SMTT(60)

\* Taking n elements from the front of b and putting them behind a.
LEMMA MoveFront ==
    ASSUME NEW S, NEW a \in Seq(S), NEW b \in Seq(S), NEW n \in Nat, n <= Len(b)
    PROVE  /\ a \o SubSeq(b, 1, n) = SubSeq(a \o b, 1, Len(a) + n)
           /\ (a \o SubSeq(b, 1, n)) \o SubSeq(b, n + 1, Len(b)) = a \o b
<1> DEFINE x == SubSeq(b, 1, n)
           y == SubSeq(b, n + 1, Len(b))
<1>1. /\ x \in Seq(S) /\ Len(x) = n /\ \A i \in 1..n : x[i] = b[i]
      /\ y \in Seq(S) /\ Len(y) = Len(b) - n /\ \A i \in 1..(Len(b) - n) : y[i] = b[n + i]
  BY SplitAt, SMTT(60)
<1> HIDE DEF x, y
<1>2. a \o x = SubSeq(a \o b, 1, Len(a) + n)
  <2>1. a \o b \in Seq(S) /\ Len(a \o b) = Len(a) + Len(b) /\ a \o x \in Seq(S) /\ Len(a \o x) = Len(a) + n
    BY <1>1, Joined, Zenon
  <2>2. /\ SubSeq(a \o b, 1, Len(a) + n) \in Seq(S) /\ Len(SubSeq(a \o b, 1, Len(a) + n)) = Len(a) + n
        /\ \A i \in 1..(Len(a) + n) : SubSeq(a \o b, 1, Len(a) + n)[i] = (a \o b)[i]
    <3> DEFINE ab == a \o b
               k == Len(a) + n
    <3>1. ab \in Seq(S) /\ k \in Nat /\ k <= Len(ab)
      BY <2>1, SMTT(60)
    <3> HIDE DEF ab, k
    <3>2. /\ SubSeq(ab, 1, k) \in Seq(S) /\ Len(SubSeq(ab, 1, k)) = k
          /\ \A i \in 1..k : SubSeq(ab, 1, k)[i] = ab[i]
      BY <3>1, SplitAt, SMTT(60)
    <3> QED
      BY <3>2, Zenon DEF ab, k
  <2>3. \A i \in 1..(Len(a) + n) : (a \o x)[i] = (a \o b)[i]
    BY <1>1, SMTT(60)
  <2> QED
    BY <2>1, <2>2, <2>3, SameSeq, Zenon
<1>3. (a \o x) \o y = a \o b
  <2>0. Len(a) \in Nat /\ Len(b) \in Nat
    BY SMTT(60)
  <2>1. a \o x \in Seq(S) /\ Len(a \o x) = Len(a) + n
    <3>1. x \in Seq(S) /\ Len(x) = n
      BY <1>1, Zenon
    <3> QED
      BY <3>1, SMTT(60)
  <2>2. (a \o x) \o y \in Seq(S) /\ Len((a \o x) \o y) = Len(a) + Len(b)
    <3> DEFINE ax == a \o x
    <3>1. ax \in Seq(S) /\ Len(ax) = Len(a) + n /\ y \in Seq(S) /\ Len(y) = Len(b) - n
      BY <1>1, <2>1, Zenon
    <3> HIDE DEF ax
    <3>2. ax \o y \in Seq(S) /\ Len(ax \o y) = Len(ax) + Len(y)
      <4>1. ax \in Seq(S) /\ y \in Seq(S)
        BY <3>1, Zenon
      <4> QED
        BY <4>1, Joined, Zenon
    <3>3. Len(ax) + Len(y) = Len(a) + Len(b)
      BY <2>0, <3>1, SMTT(60)
    <3> QED
      BY <3>2, <3>3, Zenon DEF ax
  <2>3. a \o b \in Seq(S) /\ Len(a \o b) = Len(a) + Len(b)
    BY Joined, Zenon
  <2>4. ASSUME NEW i \in 1..(Len(a) + Len(b)) PROVE ((a \o x) \o y)[i] = (a \o b)[i]
    <3>1. CASE i <= Len(a) + n
      <4>1. ((a \o x) \o y)[i] = (a \o x)[i]
        BY <1>1, <2>0, <2>1, <3>1, Joined, SMTT(60)
      <4> QED
        BY <1>1, <3>1, <4>1, SMTT(60)
    <3>2. CASE i > Len(a) + n
      <4> DEFINE j == i - (Len(a) + n)
      <4>1. j \in 1..(Len(b) - n) /\ i = Len(a) + n + j /\ n + j \in 1..Len(b) /\ i = Len(a) + (n + j)
        BY <2>0, <3>2, SMTT(60)
      <4> HIDE DEF j
      <4>2. ((a \o x) \o y)[i] = y[j]
        BY <1>1, <2>0, <2>1, <4>1, Joined, SMTT(60)
      <4>3. (a \o b)[i] = b[n + j]
        BY <4>1, Joined, SMTT(60)
      <4> QED
        BY <1>1, <4>1, <4>2, <4>3, Zenon
    <3>3. i <= Len(a) + n \/ i > Len(a) + n
      BY <2>0, SMTT(60)
    <3> QED
      BY <3>1, <3>2, <3>3, Zenon
  <2> QED
    BY <2>2, <2>3, <2>4, SameSeq, Zenon
<1> QED
  BY <1>2, <1>3, Zenon DEF x, y

LEMMA PipeInit == Conduit!PipeAssumption /\ Conduit!Init => PipeInv /\ Conduit!Fifo!Init
<1> SUFFICES ASSUME Conduit!PipeAssumption, Conduit!Init PROVE PipeInv /\ Conduit!Fifo!Init
  BY Zenon
<1>1. << >> \in Seq(Conduit!Byte) /\ << >> \o << >> = << >> /\ Len(<< >>) = 0
  BY SMTT(60)
<1>2. PipeInv
  <2>1. /\ data \in [Task -> Seq(Conduit!Byte)] /\ want \in [Task -> Nat]
        /\ calls \in [Task -> 0..MaxCalls]
    BY SMTT(60) DEF Conduit!Init, Conduit!PipeAssumption
  <2>2. Len(buf) <= PipeBuf
    BY <1>1, SMTT(60) DEF Conduit!Init, Conduit!PipeAssumption
  <2> QED
    BY <1>1, <2>1, <2>2, Zenon DEF PipeInv, Conduit!Init
<1> QED
  BY <1>2, Zenon DEF Conduit!Init, Conduit!Fifo!Init

\* send writes the part that fits, and that is a Put.
LEMMA SendPuts == ASSUME NEW t \in Task PROVE PipeInv /\ Conduit!Send(t) => PipeInv' /\ [Conduit!Fifo!Next]_(Conduit!Fifo!vars)
<1> SUFFICES ASSUME PipeInv, Conduit!Send(t) PROVE PipeInv' /\ [Conduit!Fifo!Next]_(Conduit!Fifo!vars)
  BY Zenon
<1> DEFINE d == data[t]
           n == Conduit!Lesser(Len(d), PipeBuf - Len(buf))
           part == SubSeq(d, 1, n)
<1>1. d \in Seq(Conduit!Byte) /\ Len(d) \in Nat /\ PipeBuf \in Nat /\ Len(buf) \in Nat /\ Len(buf) <= PipeBuf
  BY SMTT(60) DEF PipeInv, Conduit!PipeAssumption
<1>2. n \in Nat /\ n <= Len(d) /\ Len(buf) + n <= PipeBuf
  BY <1>1, SMTT(60) DEF Conduit!Lesser
<1>3. UNCHANGED <<closed, want, calls, ptaken>>
  BY Zenon DEF Conduit!Send
<1>4. CASE UNCHANGED <<buf, psent>> /\ data' = [data EXCEPT ![t] = << >>]
  BY <1>3, <1>4, SMTT(60) DEF PipeInv, Conduit!Fifo!vars
<1>5. CASE /\ d # << >> /\ ~closed
           /\ buf' = buf \o part /\ psent' = psent \o part
           /\ data' = [data EXCEPT ![t] = SubSeq(d, n + 1, Len(d))]
  <2> HIDE DEF d, n
  <2>1. /\ part \in Seq(Conduit!Byte) /\ Len(part) = n /\ part \in [1..n -> Conduit!Byte]
        /\ SubSeq(d, n + 1, Len(d)) \in Seq(Conduit!Byte)
    BY <1>1, <1>2, SplitAt, SMTT(60)
  <2> HIDE DEF part
  <2>2. /\ buf' \in Seq(Conduit!Byte) /\ psent' \in Seq(Conduit!Byte) /\ Len(buf') = Len(buf) + n
        /\ data' \in [Task -> Seq(Conduit!Byte)]
    <3>1. buf \in Seq(Conduit!Byte) /\ psent \in Seq(Conduit!Byte) /\ data \in [Task -> Seq(Conduit!Byte)]
      BY Zenon DEF PipeInv
    <3>2. buf' \in Seq(Conduit!Byte) /\ psent' \in Seq(Conduit!Byte) /\ Len(buf') = Len(buf) + n
      BY <1>5, <2>1, <3>1, Joined, Zenon
    <3> QED
      BY <1>5, <2>1, <3>1, <3>2, Zenon
  <2>3. psent' = ptaken \o buf'
    <3>1. (ptaken \o buf) \o part = ptaken \o (buf \o part)
      BY <2>1, SMTT(60) DEF PipeInv
    <3> QED
      BY <1>5, <3>1, Zenon DEF PipeInv
  <2>4. PipeInv'
    BY <1>1, <1>2, <1>3, <2>2, <2>3, Zenon DEF PipeInv, Conduit!PipeAssumption
  <2>5. CASE n = 0
    <3>1. part = << >>
      BY <2>1, <2>5, SMTT(60)
    <3>2. psent' = psent
      BY <1>5, <2>1, <3>1, Joined, Zenon DEF PipeInv
    <3> QED
      BY <1>3, <2>4, <3>2, Zenon DEF Conduit!Fifo!vars
  <2>6. CASE n > 0
    <3>1. Len(psent) = Len(ptaken) + Len(buf) /\ Len(ptaken) \in Nat
      BY SMTT(60) DEF PipeInv
    <3>2. n \in 1..PipeBuf
      BY <1>1, <1>2, <2>6, SMTT(60)
    <3>3. Len(psent) + Len(part) - Len(ptaken) <= PipeBuf
      BY <1>1, <1>2, <2>1, <3>1, SMTT(60)
    <3>4. Conduit!Fifo!Put(part)
      BY <1>3, <1>5, <3>3, Zenon DEF Conduit!Fifo!Put
    <3> QED
      BY <2>1, <2>4, <3>2, <3>4, Zenon DEF Conduit!Fifo!Next
  <2> QED
    BY <1>2, <2>5, <2>6, SMTT(60)
<1> QED
  BY <1>4, <1>5, Zenon DEF Conduit!Send

\* recv takes what is there, and that is a Take.
LEMMA RecvTakes == ASSUME NEW t \in Task PROVE PipeInv /\ Conduit!Recv(t) => PipeInv' /\ [Conduit!Fifo!Next]_(Conduit!Fifo!vars)
<1> SUFFICES ASSUME PipeInv, Conduit!Recv(t) PROVE PipeInv' /\ [Conduit!Fifo!Next]_(Conduit!Fifo!vars)
  BY Zenon
<1> DEFINE n == Conduit!Lesser(want[t], Len(buf))
<1>1. want[t] \in Nat /\ PipeBuf \in Nat /\ Len(buf) \in Nat /\ Len(buf) <= PipeBuf
  BY SMTT(60) DEF PipeInv, Conduit!PipeAssumption
<1>2. n \in Nat /\ n <= Len(buf)
  BY <1>1, SMTT(60) DEF Conduit!Lesser
<1>3. UNCHANGED <<closed, data, want, calls, psent>>
  BY Zenon DEF Conduit!Recv
<1>4. CASE UNCHANGED <<buf, ptaken>>
  BY <1>3, <1>4, Zenon DEF PipeInv, Conduit!Fifo!vars
<1>5. CASE ptaken' = ptaken \o SubSeq(buf, 1, n) /\ buf' = SubSeq(buf, n + 1, Len(buf))
  <2> HIDE DEF n
  <2>1. /\ SubSeq(buf, 1, n) \in Seq(Conduit!Byte) /\ Len(SubSeq(buf, 1, n)) = n
        /\ buf' \in Seq(Conduit!Byte) /\ Len(buf') = Len(buf) - n
    <3>1. buf \in Seq(Conduit!Byte)
      BY Zenon DEF PipeInv
    <3> QED
      BY <1>2, <1>5, <3>1, SplitAt, SMTT(60)
  <2>2. ptaken' = SubSeq(psent, 1, Len(ptaken) + n) /\ ptaken' \o buf' = psent
    <3>1. ptaken \in Seq(Conduit!Byte) /\ buf \in Seq(Conduit!Byte) /\ psent = ptaken \o buf
      BY Zenon DEF PipeInv
    <3> QED
      BY <1>2, <1>5, <3>1, MoveFront, Zenon
  <2>3. ptaken' \in Seq(Conduit!Byte) /\ Len(buf') <= PipeBuf
    <3>1. ptaken' \in Seq(Conduit!Byte)
      BY <1>5, <2>1, SMTT(60) DEF PipeInv
    <3> QED
      BY <1>1, <1>2, <2>1, <3>1, SMTT(60)
  <2>4. PipeInv'
    BY <1>3, <2>1, <2>2, <2>3, Zenon DEF PipeInv, Conduit!PipeAssumption
  <2>5. CASE n = 0
    <3>1. SubSeq(buf, 1, n) = << >>
      BY <2>1, <2>5, SMTT(60)
    <3>2. ptaken' = ptaken
      BY <1>5, <2>1, <3>1, Joined, Zenon DEF PipeInv
    <3> QED
      BY <1>3, <2>4, <3>2, Zenon DEF Conduit!Fifo!vars
  <2>6. CASE n > 0
    <3>1. Len(psent) = Len(ptaken) + Len(buf) /\ Len(ptaken) \in Nat
      BY SMTT(60) DEF PipeInv
    <3>2. n \in 1..PipeBuf /\ n <= Len(psent) - Len(ptaken)
      BY <1>1, <1>2, <2>6, <3>1, SMTT(60)
    <3>3. Conduit!Fifo!Take(n)
      BY <1>3, <2>2, <3>2, Zenon DEF Conduit!Fifo!Take
    <3> QED
      BY <2>4, <3>2, <3>3, Zenon DEF Conduit!Fifo!Next
  <2> QED
    BY <1>2, <2>5, <2>6, SMTT(60)
<1> QED
  BY <1>4, <1>5, Zenon DEF Conduit!Recv

\* What a call brings is made of bytes.
LEMMA CallBrings == ASSUME NEW t \in Task PROVE PipeInv /\ Conduit!CallSend(t) => PipeInv'
<1> SUFFICES ASSUME PipeInv, Conduit!CallSend(t) PROVE PipeInv'
  BY Zenon
<1>1. PICK n \in SendLens : data' = [data EXCEPT ![t] = [i \in 1..n |-> <<t, calls[t], i>>]]
  BY Zenon DEF Conduit!CallSend
<1>2. t \in Task \ {Closer} /\ calls[t] \in 0..(MaxCalls - 1) /\ calls' = [calls EXCEPT ![t] = calls[t] + 1]
      /\ UNCHANGED <<buf, closed, psent, ptaken, want>>
  BY SMTT(60) DEF PipeInv, Conduit!CallSend, Conduit!Call, Conduit!pipe, Conduit!PipeAssumption
<1>3. n \in Nat
  BY Zenon DEF PipeInv, Conduit!PipeAssumption
<1>4. \A i \in 1..n : <<t, calls[t], i>> \in Conduit!Byte
  BY <1>2, Zenon DEF Conduit!Byte
<1>5. [i \in 1..n |-> <<t, calls[t], i>>] \in Seq(Conduit!Byte)
  BY <1>3, <1>4, SMTT(60)
<1>6. data' \in [Task -> Seq(Conduit!Byte)] /\ calls' \in [Task -> 0..MaxCalls]
  <2>1. calls[t] + 1 \in 0..MaxCalls
    BY <1>2, SMTT(60) DEF PipeInv, Conduit!PipeAssumption
  <2> QED
    BY <1>1, <1>2, <1>5, <2>1, Zenon DEF PipeInv
<1> QED
  BY <1>2, <1>6, Zenon DEF PipeInv, Conduit!PipeAssumption

\* Every step of a pipe keeps the invariant and is one of a channel, or none.
LEMMA PipeStep == PipeInv /\ [Conduit!Next]_(Conduit!vars) => PipeInv' /\ [Conduit!Fifo!Next]_(Conduit!Fifo!vars)
<1> SUFFICES ASSUME PipeInv, [Conduit!Next]_(Conduit!vars) PROVE PipeInv' /\ [Conduit!Fifo!Next]_(Conduit!Fifo!vars)
  BY Zenon
<1>1. ASSUME UNCHANGED <<buf, closed, data, want, calls, psent, ptaken>> PROVE PipeInv' /\ [Conduit!Fifo!Next]_(Conduit!Fifo!vars)
  BY <1>1, Zenon DEF PipeInv, Conduit!PipeAssumption, Conduit!Fifo!vars
<1>2. CASE UNCHANGED Conduit!vars
  BY <1>1, <1>2, Zenon DEF Conduit!vars
<1>3. ASSUME NEW t \in Task, Conduit!CallSend(t) PROVE PipeInv' /\ [Conduit!Fifo!Next]_(Conduit!Fifo!vars)
  BY <1>3, CallBrings, Zenon DEF Conduit!CallSend, Conduit!Call, Conduit!pipe, Conduit!Fifo!vars
<1>4. ASSUME NEW t \in Task, Conduit!CallRecv(t) \/ Conduit!CallClose(t) PROVE PipeInv' /\ [Conduit!Fifo!Next]_(Conduit!Fifo!vars)
  <2>1. UNCHANGED <<buf, closed, psent, ptaken, data>> /\ calls[t] < MaxCalls /\ calls' = [calls EXCEPT ![t] = calls[t] + 1]
    BY <1>4, Zenon DEF Conduit!CallRecv, Conduit!CallClose, Conduit!Call, Conduit!pipe
  <2>2. want' \in [Task -> Nat]
    BY <1>4, Zenon DEF Conduit!CallRecv, Conduit!CallClose, PipeInv, Conduit!PipeAssumption
  <2>3. calls' \in [Task -> 0..MaxCalls]
    BY <2>1, SMTT(60) DEF PipeInv, Conduit!PipeAssumption
  <2> QED
    BY <2>1, <2>2, <2>3, Zenon DEF PipeInv, Conduit!PipeAssumption, Conduit!Fifo!vars
<1>5. ASSUME NEW t \in Task, Conduit!Wait(t) \/ Conduit!Preempt(t) PROVE PipeInv' /\ [Conduit!Fifo!Next]_(Conduit!Fifo!vars)
  BY <1>1, <1>5, Zenon DEF Conduit!Wait, Conduit!Preempt, Conduit!pipe
<1>6. ASSUME NEW t \in Task, Conduit!Close(t) PROVE PipeInv' /\ [Conduit!Fifo!Next]_(Conduit!Fifo!vars)
  <2>1. closed' = TRUE /\ UNCHANGED <<buf, data, want, calls, psent, ptaken>>
    BY <1>6, Zenon DEF Conduit!Close
  <2>2. PipeInv'
    BY <2>1, Zenon DEF PipeInv, Conduit!PipeAssumption
  <2>3. Conduit!Fifo!Close
    BY <2>1, Zenon DEF Conduit!Fifo!Close
  <2> QED
    BY <2>2, <2>3, Zenon DEF Conduit!Fifo!Next
<1> QED
  BY <1>2, <1>3, <1>4, <1>5, <1>6, SendPuts, RecvTakes, Zenon DEF Conduit!Next, Conduit!Continue

\* Whatever senders, receivers and the closer do, in any interleaving and called
\* directly or through the dispatcher, a pipe is a bounded FIFO channel.
THEOREM PipeIsChannel == Conduit!PipeAssumption /\ Conduit!Spec => ImplementsChannel
  BY PipeInit, PipeStep, PTL DEF ImplementsChannel, Conduit!Spec, Conduit!ImplementsChannel, Conduit!Fifo!Spec
-----------------------------------------------------------------------------
\* Handles and objects are numbered without gaps.
Numbered ==
    /\ next_handle \in Nat
    /\ DOMAIN map \subseteq 0..(next_handle - 1)
    /\ DOMAIN opened = 0..(next_handle - 1)
    /\ NewObject \in Nat
    /\ DOMAIN objects = 0..(NewObject - 1)

\* The registry and the table refer to objects that were made, the registry to
\* another one for every name; a handle opened with a name is the object of the
\* name, and the object of a pipe has this one handle and no name.
Linked ==
    /\ \A n \in DOMAIN registry : n \in Name /\ registry[n] \in DOMAIN objects
    /\ \A m, n \in DOMAIN registry : registry[m] = registry[n] => m = n
    /\ \A h \in DOMAIN map :
          /\ map[h] \in DOMAIN objects
          /\ \/ opened[h] \in DOMAIN registry /\ map[h] = registry[opened[h]]
             \/ /\ opened[h] = "pipe"
                /\ \A n \in DOMAIN registry : registry[n] # map[h]
                /\ \A g \in DOMAIN map : map[g] = map[h] => g = h

IpcInv == Numbered /\ Linked

\* What a function is after an entry was put into it, or taken out of it.
LEMMA WithEntry ==
    ASSUME NEW f, NEW x, NEW y
    PROVE  /\ DOMAIN With(f, x, y) = DOMAIN f \cup {x}
           /\ With(f, x, y)[x] = y
           /\ \A z \in DOMAIN f : z # x => With(f, x, y)[z] = f[z]
    BY Zenon DEF With

LEMMA WithoutEntry ==
    ASSUME NEW f, NEW x
    PROVE  /\ DOMAIN Without(f, x) = DOMAIN f \ {x}
           /\ \A z \in DOMAIN f \ {x} : Without(f, x)[z] = f[z]
    BY Zenon DEF Without, Restrict

\* The number of a new object is free, and the numbering goes on with it.
LEMMA NewObjectFree ==
    ASSUME Numbered, NEW y, objects' = With(objects, NewObject, y)
    PROVE  /\ NewObject \notin DOMAIN objects
           /\ NewObject' \in Nat /\ DOMAIN objects' = 0..(NewObject' - 1)
           /\ DOMAIN objects' = DOMAIN objects \cup {NewObject}
<1> DEFINE c == NewObject
<1>1. c \in Nat /\ DOMAIN objects = 0..(c - 1)
    BY Zenon DEF Numbered
<1>2. DOMAIN objects' = DOMAIN objects \cup {c}
    BY WithEntry, Zenon
<1> HIDE DEF c
<1>3. DOMAIN objects' = 0..c
    BY <1>1, <1>2, SMTT(60)
<1>4. Cardinality(0..c) = c + 1
    BY <1>1, FS_Interval, SMTT(60)
<1>5. NewObject' = c + 1
    BY <1>3, <1>4, Zenon DEF NewObject
<1>6. c \notin DOMAIN objects
    BY <1>1, SMTT(60)
<1>7. DOMAIN objects' = 0..(NewObject' - 1)
    BY <1>1, <1>3, <1>5, SMTT(60)
<1> QED
    BY <1>1, <1>2, <1>5, <1>6, <1>7, SMTT(60) DEF c

\* A handle that insert gives out was never in use.
LEMMA InsertNumbers ==
    ASSUME Numbered, NEW o, NEW as, Insert(o, as)
    PROVE  /\ next_handle' = next_handle + 1 /\ next_handle' \in Nat
           /\ next_handle \notin DOMAIN map
           /\ DOMAIN map' = DOMAIN map \cup {next_handle}
           /\ DOMAIN map' \subseteq 0..(next_handle' - 1)
           /\ DOMAIN opened' = 0..(next_handle' - 1)
           /\ map'[next_handle] = o /\ opened'[next_handle] = as
           /\ \A h \in DOMAIN map : map'[h] = map[h] /\ opened'[h] = opened[h]
<1>1. /\ next_handle' = next_handle + 1
      /\ map' = With(map, next_handle, o) /\ opened' = With(opened, next_handle, as)
    BY Zenon DEF Insert
<1>2. /\ next_handle \in Nat /\ DOMAIN map \subseteq 0..(next_handle - 1)
      /\ DOMAIN opened = 0..(next_handle - 1)
    BY Zenon DEF Numbered
<1>3. next_handle \notin 0..(next_handle - 1)
    BY <1>2, SMTT(60)
<1>4. /\ DOMAIN map' = DOMAIN map \cup {next_handle}
      /\ DOMAIN opened' = DOMAIN opened \cup {next_handle}
      /\ map'[next_handle] = o /\ opened'[next_handle] = as
      /\ \A h \in DOMAIN map : h # next_handle => map'[h] = map[h]
      /\ \A h \in DOMAIN opened : h # next_handle => opened'[h] = opened[h]
    <2>1. /\ DOMAIN map' = DOMAIN map \cup {next_handle} /\ map'[next_handle] = o
          /\ \A h \in DOMAIN map : h # next_handle => map'[h] = map[h]
        BY <1>1, Zenon DEF With
    <2>2. /\ DOMAIN opened' = DOMAIN opened \cup {next_handle} /\ opened'[next_handle] = as
          /\ \A h \in DOMAIN opened : h # next_handle => opened'[h] = opened[h]
        BY <1>1, Zenon DEF With
    <2> QED
        BY <2>1, <2>2, Zenon
<1>5. next_handle' \in Nat /\ 0..(next_handle' - 1) = 0..(next_handle - 1) \cup {next_handle}
    BY <1>1, <1>2, SMTT(60)
<1>6. next_handle \notin DOMAIN map /\ DOMAIN map \subseteq DOMAIN opened /\ next_handle \notin DOMAIN opened
    BY <1>2, <1>3, Zenon
<1>7. \A h \in DOMAIN map : map'[h] = map[h] /\ opened'[h] = opened[h]
    BY <1>4, <1>6, Zenon
<1>8. DOMAIN map' \subseteq 0..(next_handle' - 1) /\ DOMAIN opened' = 0..(next_handle' - 1)
    BY <1>2, <1>4, <1>5, Zenon
<1> QED
    BY <1>1, <1>4, <1>5, <1>6, <1>7, <1>8, Zenon

\* A pipe is a new object with one handle.
LEMMA PipeCreateSound == IpcInv /\ PipeCreate => IpcInv'
<1> SUFFICES ASSUME IpcInv, PipeCreate PROVE IpcInv'
    BY Zenon
<1> DEFINE c == NewObject
           k == next_handle
<1>1. Numbered /\ Linked /\ Insert(c, "pipe") /\ registry' = registry
    BY Zenon DEF IpcInv, PipeCreate
<1>2. /\ c \notin DOMAIN objects /\ DOMAIN objects' = DOMAIN objects \cup {c}
      /\ NewObject' \in Nat /\ DOMAIN objects' = 0..(NewObject' - 1)
    BY <1>1, NewObjectFree, Zenon DEF PipeCreate
<1>3. /\ next_handle' \in Nat /\ k \notin DOMAIN map
      /\ DOMAIN map' = DOMAIN map \cup {k}
      /\ DOMAIN map' \subseteq 0..(next_handle' - 1) /\ DOMAIN opened' = 0..(next_handle' - 1)
      /\ map'[k] = c /\ opened'[k] = "pipe"
      /\ \A h \in DOMAIN map : map'[h] = map[h] /\ opened'[h] = opened[h]
    BY <1>1, InsertNumbers, Zenon
<1>4. Numbered'
    BY <1>2, <1>3, Zenon DEF Numbered
<1> HIDE DEF c, k
<1>5. Linked'
    <2>1. \A n \in DOMAIN registry : registry[n] # c
        BY <1>1, <1>2, ZenonT(60) DEF Linked
    <2>2. \A h \in DOMAIN map : map[h] # c
        BY <1>1, <1>2, Zenon DEF Linked
    <2>3. ASSUME NEW h \in DOMAIN map'
          PROVE  /\ map'[h] \in DOMAIN objects'
                 /\ \/ opened'[h] \in DOMAIN registry' /\ map'[h] = registry'[opened'[h]]
                    \/ /\ opened'[h] = "pipe"
                       /\ \A n \in DOMAIN registry' : registry'[n] # map'[h]
                       /\ \A g \in DOMAIN map' : map'[g] = map'[h] => g = h
        <3>1. CASE h = k
            BY <1>1, <1>2, <1>3, <2>1, <2>2, <3>1, ZenonT(60)
        <3>2. CASE h \in DOMAIN map
            BY <1>1, <1>2, <1>3, <2>2, <3>2, SMTT(60) DEF Linked
        <3> QED
            BY <1>3, <3>1, <3>2, Zenon
    <2> QED
        BY <1>1, <1>2, <2>3, Zenon DEF Linked
<1> QED
    BY <1>4, <1>5, Zenon DEF IpcInv

\* Shared memory opened by a name that is registered: one more handle.
LEMMA ShmOpenOldSound ==
    ASSUME IpcInv, NEW n \in Name, NEW size \in Size, ShmOpen(n, size), n \in DOMAIN registry
    PROVE  IpcInv'
<1> DEFINE k == next_handle
           r == registry[n]
<1>1. Numbered /\ Linked /\ Insert(r, n) /\ registry' = registry /\ objects' = objects
    BY Zenon DEF IpcInv, ShmOpen
<1>2. /\ next_handle' \in Nat /\ k \notin DOMAIN map
      /\ DOMAIN map' = DOMAIN map \cup {k}
      /\ DOMAIN map' \subseteq 0..(next_handle' - 1) /\ DOMAIN opened' = 0..(next_handle' - 1)
      /\ map'[k] = r /\ opened'[k] = n
      /\ \A h \in DOMAIN map : map'[h] = map[h] /\ opened'[h] = opened[h]
    BY <1>1, InsertNumbers, Zenon
<1>3. Numbered'
    BY <1>1, <1>2, Zenon DEF Numbered, NewObject
<1> HIDE DEF k
<1>4. Linked'
    <2>1. ASSUME NEW h \in DOMAIN map'
          PROVE  /\ map'[h] \in DOMAIN objects'
                 /\ \/ opened'[h] \in DOMAIN registry' /\ map'[h] = registry'[opened'[h]]
                    \/ /\ opened'[h] = "pipe"
                       /\ \A m \in DOMAIN registry' : registry'[m] # map'[h]
                       /\ \A g \in DOMAIN map' : map'[g] = map'[h] => g = h
        <3>1. CASE h = k
            BY <1>1, <1>2, <3>1, ZenonT(60) DEF Linked
        <3>2. CASE h \in DOMAIN map
            BY <1>1, <1>2, <3>2, SMTT(60) DEF Linked
        <3> QED
            BY <1>2, <3>1, <3>2, Zenon
    <2> QED
        BY <1>1, <2>1, Zenon DEF Linked
<1> QED
    BY <1>3, <1>4, Zenon DEF IpcInv

\* Shared memory opened by a new name: a new object, registered, with a handle.
LEMMA ShmOpenNewSound ==
    ASSUME IpcInv, NEW n \in Name, NEW size \in Size, ShmOpen(n, size), n \notin DOMAIN registry
    PROVE  IpcInv'
<1> DEFINE c == NewObject
           k == next_handle
<1>1. Numbered /\ Linked /\ Insert(c, n) /\ registry' = With(registry, n, c)
    BY Zenon DEF IpcInv, ShmOpen
<1>2. /\ c \notin DOMAIN objects /\ DOMAIN objects' = DOMAIN objects \cup {c}
      /\ NewObject' \in Nat /\ DOMAIN objects' = 0..(NewObject' - 1)
    BY <1>1, NewObjectFree, Zenon DEF ShmOpen
<1>3. /\ next_handle' \in Nat /\ k \notin DOMAIN map
      /\ DOMAIN map' = DOMAIN map \cup {k}
      /\ DOMAIN map' \subseteq 0..(next_handle' - 1) /\ DOMAIN opened' = 0..(next_handle' - 1)
      /\ map'[k] = c /\ opened'[k] = n
      /\ \A h \in DOMAIN map : map'[h] = map[h] /\ opened'[h] = opened[h]
    BY <1>1, InsertNumbers, Zenon
<1>4. Numbered'
    BY <1>2, <1>3, Zenon DEF Numbered
<1>5. /\ DOMAIN registry' = DOMAIN registry \cup {n} /\ registry'[n] = c
      /\ \A m \in DOMAIN registry : registry'[m] = registry[m]
    BY <1>1, Zenon DEF With
<1> HIDE DEF c, k
<1>6. \A m \in DOMAIN registry : m \in Name /\ registry[m] \in DOMAIN objects /\ registry[m] # c
    <2>1. \A m \in DOMAIN registry : m \in Name /\ registry[m] \in DOMAIN objects
        BY <1>1, Zenon DEF Linked
    <2> QED
        BY <1>2, <2>1, Zenon
<1>7. \A h \in DOMAIN map : map[h] \in DOMAIN objects /\ map[h] # c
    <2>1. \A h \in DOMAIN map : map[h] \in DOMAIN objects
        BY <1>1, Zenon DEF Linked
    <2> QED
        BY <1>2, <2>1, Zenon
<1>8. Linked'
    <2>1. \A m \in DOMAIN registry' : m \in Name /\ registry'[m] \in DOMAIN objects'
        BY <1>2, <1>5, <1>6, ZenonT(60)
    <2>2. ASSUME NEW l \in DOMAIN registry', NEW m \in DOMAIN registry', registry'[l] = registry'[m]
          PROVE  l = m
        <3>1. \A a, b \in DOMAIN registry : registry[a] = registry[b] => a = b
            BY <1>1, Zenon DEF Linked
        <3>2. CASE l = n
            BY <1>5, <1>6, <2>2, <3>2, ZenonT(60)
        <3>3. CASE m = n
            BY <1>5, <1>6, <2>2, <3>3, ZenonT(60)
        <3>4. CASE l # n /\ m # n
            BY <1>5, <2>2, <3>1, <3>4, ZenonT(60)
        <3> QED
            BY <3>2, <3>3, <3>4, Zenon
    <2>3. ASSUME NEW h \in DOMAIN map'
          PROVE  /\ map'[h] \in DOMAIN objects'
                 /\ \/ opened'[h] \in DOMAIN registry' /\ map'[h] = registry'[opened'[h]]
                    \/ /\ opened'[h] = "pipe"
                       /\ \A m \in DOMAIN registry' : registry'[m] # map'[h]
                       /\ \A g \in DOMAIN map' : map'[g] = map'[h] => g = h
        <3>1. CASE h = k
            BY <1>2, <1>3, <1>5, <3>1, Zenon
        <3>2. CASE h \in DOMAIN map
            <4>1. CASE opened[h] \in DOMAIN registry /\ map[h] = registry[opened[h]]
                BY <1>2, <1>3, <1>5, <1>7, <3>2, <4>1, Zenon
            <4>2. CASE /\ opened[h] = "pipe"
                       /\ \A m \in DOMAIN registry : registry[m] # map[h]
                       /\ \A g \in DOMAIN map : map[g] = map[h] => g = h
                BY <1>2, <1>3, <1>5, <1>7, <3>2, <4>2, ZenonT(60)
            <4> QED
                BY <1>1, <3>2, <4>1, <4>2, Zenon DEF Linked
        <3> QED
            BY <1>3, <3>1, <3>2, Zenon
    <2> QED
        BY <2>1, <2>2, <2>3, Zenon DEF Linked
<1> QED
    BY <1>4, <1>8, Zenon DEF IpcInv

\* Closing drops one entry of the table.
LEMMA ShmCloseSound ==
    ASSUME IpcInv, NEW h, ShmClose(h) PROVE IpcInv'
<1>1. /\ Numbered /\ Linked
      /\ next_handle' = next_handle /\ registry' = registry /\ objects' = objects /\ opened' = opened
    BY Zenon DEF IpcInv, ShmClose
<1>2. /\ DOMAIN map' = DOMAIN map \ {h}
      /\ \A g \in DOMAIN map' : map'[g] = map[g]
    BY WithoutEntry, Zenon DEF ShmClose
<1>3. Numbered'
    BY <1>1, <1>2, Zenon DEF Numbered, NewObject
<1>4. Linked'
    BY <1>1, <1>2, ZenonT(60) DEF Linked
<1> QED
    BY <1>3, <1>4, Zenon DEF IpcInv

\* The table, the registry and the objects fit together in every state.
THEOREM IpcInvariant == Spec => []IpcInv
<1>1. Init => IpcInv
    <2> SUFFICES ASSUME Init PROVE IpcInv
        BY Zenon
    <2>1. DOMAIN map = {} /\ DOMAIN registry = {} /\ DOMAIN objects = {} /\ DOMAIN opened = {}
        BY Zenon DEF Init, Empty
    <2>2. NewObject = 0
        BY <2>1, FS_EmptySet, Zenon DEF NewObject
    <2>3. Numbered
        BY <2>1, <2>2, SMTT(60) DEF Init, Numbered
    <2>4. Linked
        BY <2>1, Zenon DEF Linked
    <2> QED
        BY <2>3, <2>4, Zenon DEF IpcInv
<1>2. IpcInv /\ [Next]_vars => IpcInv'
    <2> SUFFICES ASSUME IpcInv, [Next]_vars PROVE IpcInv'
        BY Zenon
    <2>1. CASE UNCHANGED vars
        BY <2>1, Zenon DEF vars, IpcInv, Numbered, Linked, NewObject
    <2>2. CASE PipeCreate
        BY <2>2, PipeCreateSound, Zenon
    <2>3. ASSUME NEW n \in Name, NEW size \in Size, ShmOpen(n, size) PROVE IpcInv'
        BY <2>3, ShmOpenOldSound, ShmOpenNewSound, Zenon
    <2>4. ASSUME NEW h \in Handle, ShmClose(h) PROVE IpcInv'
        BY <2>4, ShmCloseSound, Zenon
    <2> QED
        BY <2>1, <2>2, <2>3, <2>4, Zenon DEF Next
<1> QED
    BY <1>1, <1>2, PTL DEF Spec

\* Two handles share their memory exactly if they were opened by one name.
THEOREM ShmSharedByName == Spec => []SharedByName
<1>1. IpcInv => SharedByName
    <2> SUFFICES ASSUME IpcInv, NEW g \in DOMAIN map, NEW h \in DOMAIN map, g # h
                 PROVE  map[g] = map[h] <=> opened[g] = opened[h] /\ opened[g] # "pipe"
        BY Zenon DEF SharedByName
    <2>1. Linked /\ "pipe" \notin DOMAIN registry
        BY IpcTableAssumption, Zenon DEF IpcInv, Linked
    <2>2. CASE opened[g] = "pipe" \/ opened[h] = "pipe"
        BY <2>1, <2>2, Zenon DEF Linked
    <2>3. CASE opened[g] # "pipe" /\ opened[h] # "pipe"
        BY <2>1, <2>3, Zenon DEF Linked
    <2> QED
        BY <2>2, <2>3, Zenon
<1> QED
    BY <1>1, IpcInvariant, PTL

\* A handle that was given out means the same object until it is closed, and
\* nothing from then on.
THEOREM HandlesAreStable == Spec => HandleIsStable
<1>1. IpcInv /\ [Next]_vars =>
          [\A h \in 0..(next_handle - 1) : h \in DOMAIN map' => h \in DOMAIN map /\ map'[h] = map[h]]_vars
    <2> SUFFICES ASSUME IpcInv, [Next]_vars, NEW h \in 0..(next_handle - 1), h \in DOMAIN map'
                 PROVE  (h \in DOMAIN map /\ map'[h] = map[h]) \/ UNCHANGED vars
        BY Zenon
    <2>1. h # next_handle /\ Numbered
        BY SMTT(60) DEF IpcInv, Numbered
    <2>2. ASSUME NEW o, NEW as, Insert(o, as) PROVE h \in DOMAIN map /\ map'[h] = map[h]
        BY <2>1, <2>2, InsertNumbers, Zenon
    <2>3. CASE PipeCreate
        BY <2>2, <2>3, Zenon DEF PipeCreate
    <2>4. ASSUME NEW n \in Name, NEW size \in Size, ShmOpen(n, size) PROVE h \in DOMAIN map /\ map'[h] = map[h]
        BY <2>2, <2>4, Zenon DEF ShmOpen
    <2>5. ASSUME NEW g \in Handle, ShmClose(g) PROVE h \in DOMAIN map /\ map'[h] = map[h]
        <3>1. map' = Without(map, g)
            BY <2>5, Zenon DEF ShmClose
        <3>2. DOMAIN map' = DOMAIN map \ {g} /\ \A z \in DOMAIN map \ {g} : map'[z] = map[z]
            BY <3>1, WithoutEntry, Zenon
        <3> QED
            BY <3>2, Zenon
    <2> QED
        BY <2>3, <2>4, <2>5, Zenon DEF Next
<1> QED
    BY <1>1, IpcInvariant, PTL DEF Spec, HandleIsStable
-----------------------------------------------------------------------------
\* The contexts of a thread go back to the main program.
Nested ==
    \A t \in Notices!Thread :
      /\ context[t] = Notices!Main <=> stack[t] = << >>
      /\ \A i \in 1..Len(stack[t]) : stack[t][i] = Notices!Main <=> i = 1

SigType ==
    /\ Notices!SignalsAssumption
    /\ cpu \in Notices!Thread
    /\ pending \in [Notices!Thread -> SUBSET Signal]
    /\ context \in [Notices!Thread -> Signal \cup {Notices!Main}]
    /\ stack \in [Notices!Thread -> Seq(Signal \cup {Notices!Main})]
    /\ sent \in [Notices!Thread -> [Signal -> Nat]]
    /\ taken \in [Notices!Thread -> [Signal -> Nat]]

SigInv == SigType /\ Nested /\ Notices!DeliveriesWereSent

\* What a step may do to the contexts of the threads, as HandlersNest says.
NestStep ==
    \A t \in Notices!Thread :
      /\ context[t] = Notices!Main <=> stack[t] = << >>
      /\ Len(stack'[t]) > Len(stack[t]) => stack'[t] = Append(stack[t], context[t])
      /\ Len(stack'[t]) < Len(stack[t]) => stack[t] = Append(stack'[t], context'[t])

LEMMA LowestSignal ==
    ASSUME Notices!SignalsAssumption, NEW S \in SUBSET Signal, S # {}
    PROVE  Notices!Min(S) \in S
<1>1. S \subseteq Nat
    BY SMTT(60) DEF Notices!SignalsAssumption
<1>2. PICK i \in S : \A j \in S : <<j, i>> \notin OpToRel(<, Nat)
    BY <1>1, WFMin, NatLessThanWellFounded, Zenon
<1>3. \A j \in S : ~(j < i)
    <2>1. \A j \in S : <<j, i>> \in Nat \X Nat
        BY <1>1, Zenon
    <2> QED
        BY <1>2, <2>1, Zenon DEF OpToRel
<1>4. \A j \in S : i <= j
    BY <1>1, <1>3, SMTT(60)
<1> QED
    BY <1>4, Zenon DEF Notices!Min

LEMMA MainIsNoSignal == Notices!SignalsAssumption => Notices!Main \notin Signal
    BY SMTT(60) DEF Notices!SignalsAssumption, Notices!Main

LEMMA SigInit == Notices!SignalsAssumption /\ Notices!Init => SigInv
<1> SUFFICES ASSUME Notices!SignalsAssumption, Notices!Init PROVE SigInv
    BY Zenon
<1>1. /\ cpu = 1
      /\ pending = [t \in Notices!Thread |-> {}]
      /\ context = [t \in Notices!Thread |-> Notices!Main]
      /\ stack = [t \in Notices!Thread |-> << >>]
      /\ sent = [t \in Notices!Thread |-> [s \in Signal |-> 0]]
      /\ taken = [t \in Notices!Thread |-> [s \in Signal |-> 0]]
    BY Zenon DEF Notices!Init, Notices!Zeroes
<1>2. cpu \in Notices!Thread
    BY <1>1, SMTT(60) DEF Notices!SignalsAssumption, Notices!Thread
<1>3. SigType
    BY <1>1, <1>2, SMTT(60) DEF SigType
<1>4. Nested
    BY <1>1, SMTT(60) DEF Nested
<1>5. Notices!DeliveriesWereSent
    BY <1>1, SMTT(60) DEF Notices!DeliveriesWereSent
<1> QED
    BY <1>3, <1>4, <1>5, Zenon DEF SigInv

\* A step that leaves contexts and user stacks alone.
LEMMA ContextsStay ==
    ASSUME SigInv, context' = context, stack' = stack
    PROVE  Nested' /\ NestStep
<1>1. Nested'
    BY Zenon DEF SigInv, Nested
<1>2. \A t \in Notices!Thread : Len(stack[t]) \in Nat
    BY SMTT(60) DEF SigInv, SigType
<1>3. \A t \in Notices!Thread : ~(Len(stack[t]) > Len(stack[t])) /\ ~(Len(stack[t]) < Len(stack[t]))
    BY <1>2, SMTT(60)
<1> QED
    BY <1>1, <1>3, Zenon DEF SigInv, Nested, NestStep

\* Steps that concern no signal.
LEMMA QuietStep ==
    ASSUME SigInv, cpu' \in Notices!Thread,
           UNCHANGED <<pending, context, stack, sent, taken>>
    PROVE  SigInv' /\ NestStep
<1>1. Nested' /\ NestStep
    BY ContextsStay, Zenon
<1>2. SigType' /\ Notices!DeliveriesWereSent'
    BY Zenon DEF SigInv, SigType, Notices!DeliveriesWereSent
<1> QED
    BY <1>1, <1>2, Zenon DEF SigInv

\* kill counts the signal for the target that has it pending.
LEMMA KillStep ==
    ASSUME SigInv, NEW pid, NEW s \in Signal, Notices!Kill(pid, s)
    PROVE  SigInv' /\ NestStep
<1>1. /\ pending' = [t \in Notices!Thread |-> IF t \in Notices!Target(pid)
                                              THEN pending[t] \cup {s} ELSE pending[t]]
      /\ sent' = [t \in Notices!Thread |->
                    [sent[t] EXCEPT ![s] = @ + (IF t \in Notices!Target(pid) THEN 1 ELSE 0)]]
      /\ cpu' = cpu /\ context' = context /\ stack' = stack /\ taken' = taken
    BY Zenon DEF Notices!Kill
<1>2. Nested' /\ NestStep
    BY <1>1, ContextsStay, Zenon
<1>3. pending' \in [Notices!Thread -> SUBSET Signal]
    BY <1>1, Zenon DEF SigInv, SigType
<1>4. ASSUME NEW t \in Notices!Thread
      PROVE  /\ sent'[t] \in [Signal -> Nat]
             /\ \A r \in Signal : r # s => sent'[t][r] = sent[t][r]
             /\ sent'[t][s] = sent[t][s] + (IF t \in Notices!Target(pid) THEN 1 ELSE 0)
    <2>1. sent[t] \in [Signal -> Nat]
        BY Zenon DEF SigInv, SigType
    <2>2. sent'[t] = [sent[t] EXCEPT ![s] = sent[t][s] + (IF t \in Notices!Target(pid) THEN 1 ELSE 0)]
        BY <1>1, Zenon
    <2> QED
        BY <2>1, <2>2, SMTT(60)
<1>5. sent' \in [Notices!Thread -> [Signal -> Nat]]
    BY <1>1, <1>4, Zenon
<1>6. SigType'
    BY <1>1, <1>3, <1>5, Zenon DEF SigInv, SigType
<1>7. Notices!DeliveriesWereSent'
    <2> SUFFICES ASSUME NEW t \in Notices!Thread, NEW r \in Signal
                 PROVE  taken'[t][r] + (IF r \in pending'[t] THEN 1 ELSE 0) <= sent'[t][r]
        BY Zenon DEF Notices!DeliveriesWereSent
    <2>1. /\ taken[t][r] \in Nat /\ sent[t][r] \in Nat
          /\ taken[t][r] + (IF r \in pending[t] THEN 1 ELSE 0) <= sent[t][r]
        BY SMTT(60) DEF SigInv, SigType, Notices!DeliveriesWereSent
    <2>2. CASE r = s /\ t \in Notices!Target(pid)
        BY <1>1, <1>4, <2>1, <2>2, SMTT(60)
    <2>3. CASE r # s \/ t \notin Notices!Target(pid)
        <3>1. sent'[t][r] = sent[t][r]
            BY <1>4, <2>1, <2>3, SMTT(60)
        <3>2. r \in pending'[t] <=> r \in pending[t]
            BY <1>1, <2>3, Zenon
        <3> QED
            BY <1>1, <2>1, <3>1, <3>2, ZenonT(60)
    <2> QED
        BY <2>2, <2>3, Zenon
<1> QED
    BY <1>2, <1>6, <1>7, Zenon DEF SigInv

LEMMA FirstOnes ==
    ASSUME NEW C, NEW q \in Seq(C), NEW n \in Nat, n <= Len(q)
    PROVE  /\ SubSeq(q, 1, n) \in Seq(C) /\ Len(SubSeq(q, 1, n)) = n
           /\ \A i \in 1..n : SubSeq(q, 1, n)[i] = q[i]
    BY SMTT(60)

LEMMA WithoutLast ==
    ASSUME NEW C, NEW q \in Seq(C), q # << >>
    PROVE  /\ Len(q) \in Nat \ {0} /\ q[Len(q)] \in C
           /\ SubSeq(q, 1, Len(q) - 1) \in Seq(C) /\ Len(SubSeq(q, 1, Len(q) - 1)) = Len(q) - 1
           /\ \A i \in 1..(Len(q) - 1) : SubSeq(q, 1, Len(q) - 1)[i] = q[i]
           /\ SubSeq(q, 1, Len(q) - 1) = << >> <=> Len(q) = 1
           /\ Append(SubSeq(q, 1, Len(q) - 1), q[Len(q)]) = q
<1> DEFINE f == SubSeq(q, 1, Len(q) - 1)
<1>1. Len(q) \in Nat \ {0} /\ q[Len(q)] \in C
    BY SMTT(60)
<1>2. f \in Seq(C) /\ Len(f) = Len(q) - 1 /\ \A i \in 1..(Len(q) - 1) : f[i] = q[i]
    <2>1. Len(q) - 1 \in Nat /\ Len(q) - 1 <= Len(q)
        BY <1>1, SMTT(60)
    <2> QED
        BY <2>1, FirstOnes, Zenon
<1> HIDE DEF f
<1>3. f = << >> <=> Len(f) = 0
    BY <1>2, SMTT(60)
<1>4. /\ Append(f, q[Len(q)]) \in Seq(C) /\ Len(Append(f, q[Len(q)])) = Len(q)
      /\ \A i \in 1..Len(q) : Append(f, q[Len(q)])[i] = q[i]
    BY <1>1, <1>2, SMTT(60)
<1>5. Append(f, q[Len(q)]) = q
    BY <1>1, <1>4, SMTT(60)
<1>6. Len(f) = 0 <=> Len(q) = 1
    BY <1>1, <1>2, SMTT(60)
<1> QED
    BY <1>1, <1>2, <1>3, <1>5, <1>6, Zenon DEF f

LEMMA WithOneMore ==
    ASSUME NEW C, NEW q \in Seq(C), NEW e \in C
    PROVE  /\ Len(q) \in Nat /\ Append(q, e) \in Seq(C) /\ Len(Append(q, e)) = Len(q) + 1
           /\ \A i \in 1..Len(q) : Append(q, e)[i] = q[i]
           /\ Append(q, e)[Len(q) + 1] = e /\ Append(q, e) # << >>
    BY SMTT(60)

\* The contexts of a thread that a step does not concern.
LEMMA OtherNested ==
    ASSUME SigInv, NEW t \in Notices!Thread, stack'[t] = stack[t], context'[t] = context[t]
    PROVE  /\ context'[t] = Notices!Main <=> stack'[t] = << >>
           /\ \A i \in 1..Len(stack'[t]) : stack'[t][i] = Notices!Main <=> i = 1
<1>1. /\ context[t] = Notices!Main <=> stack[t] = << >>
      /\ \A i \in 1..Len(stack[t]) : stack[t][i] = Notices!Main <=> i = 1
    BY Zenon DEF SigInv, Nested
<1> QED
    BY <1>1, Zenon

\* sigreturn resumes the context that was interrupted last.
LEMMA SigreturnStep ==
    ASSUME SigInv, Notices!Sigreturn
    PROVE  SigInv' /\ NestStep
<1> DEFINE q == stack[cpu]
           n == Len(stack[cpu])
           C == Signal \cup {Notices!Main}
<1>1. /\ context[cpu] # Notices!Main
      /\ context' = [context EXCEPT ![cpu] = q[n]]
      /\ stack' = [stack EXCEPT ![cpu] = SubSeq(q, 1, n - 1)]
      /\ cpu' = cpu /\ pending' = pending /\ sent' = sent /\ taken' = taken
    BY Zenon DEF Notices!Sigreturn
<1>2. /\ cpu \in Notices!Thread /\ q \in Seq(C)
      /\ stack \in [Notices!Thread -> Seq(C)] /\ context \in [Notices!Thread -> C]
    BY Zenon DEF SigInv, SigType
<1>3. q # << >> /\ \A i \in 1..n : q[i] = Notices!Main <=> i = 1
    BY <1>1, <1>2, Zenon DEF SigInv, Nested
<1> HIDE DEF C
<1>5. /\ n \in Nat \ {0} /\ q[n] \in C
      /\ SubSeq(q, 1, n - 1) \in Seq(C) /\ Len(SubSeq(q, 1, n - 1)) = n - 1
      /\ \A i \in 1..(n - 1) : SubSeq(q, 1, n - 1)[i] = q[i]
      /\ SubSeq(q, 1, n - 1) = << >> <=> n = 1
      /\ Append(SubSeq(q, 1, n - 1), q[n]) = q
    BY <1>2, <1>3, WithoutLast, Zenon
<1>4. n \in 1..n
    BY <1>5, SMTT(60)
<1>6. stack'[cpu] = SubSeq(q, 1, n - 1) /\ context'[cpu] = q[n]
    BY <1>1, <1>2, Zenon
<1>7. \A t \in Notices!Thread \ {cpu} : stack'[t] = stack[t] /\ context'[t] = context[t]
    BY <1>1, <1>2, Zenon
<1>8. stack' \in [Notices!Thread -> Seq(C)] /\ context' \in [Notices!Thread -> C]
    BY <1>1, <1>2, <1>5, Zenon
<1>9. SigType'
    BY <1>1, <1>8, Zenon DEF SigInv, SigType, C
<1>10. Notices!DeliveriesWereSent'
    BY <1>1, Zenon DEF SigInv, Notices!DeliveriesWereSent
<1> HIDE DEF q, n
<1>11. /\ context'[cpu] = Notices!Main <=> stack'[cpu] = << >>
       /\ \A i \in 1..Len(stack'[cpu]) : stack'[cpu][i] = Notices!Main <=> i = 1
    <2>1. q[n] = Notices!Main <=> n = 1
        BY <1>3, <1>4, Zenon
    <2>2. \A i \in 1..(n - 1) : i \in 1..n
        BY <1>5, SMTT(60)
    <2> QED
        BY <1>3, <1>5, <1>6, <2>1, <2>2, Zenon
<1>12. Nested'
    <2>1. ASSUME NEW t \in Notices!Thread \ {cpu}
          PROVE  /\ context'[t] = Notices!Main <=> stack'[t] = << >>
                 /\ \A i \in 1..Len(stack'[t]) : stack'[t][i] = Notices!Main <=> i = 1
        BY <1>7, OtherNested, Zenon
    <2> QED
        BY <1>11, <2>1, Zenon DEF Nested
<1>13. NestStep
    <2> SUFFICES ASSUME NEW t \in Notices!Thread
                 PROVE  /\ Len(stack'[t]) > Len(stack[t]) => stack'[t] = Append(stack[t], context[t])
                        /\ Len(stack'[t]) < Len(stack[t]) => stack[t] = Append(stack'[t], context'[t])
        BY Zenon DEF NestStep, SigInv, Nested
    <2>1. CASE t # cpu
        <3>1. Len(stack[t]) \in Nat /\ stack'[t] = stack[t]
            BY <1>2, <1>7, <2>1, SMTT(60)
        <3> QED
            BY <3>1, SMTT(60)
    <2>2. CASE t = cpu
        <3>1. ~(n - 1 > n)
            BY <1>5, SMTT(60)
        <3> QED
            BY <1>5, <1>6, <2>2, <3>1, ZenonT(60) DEF q, n
    <2> QED
        BY <2>1, <2>2, Zenon
<1> QED
    BY <1>9, <1>10, <1>12, <1>13, Zenon DEF SigInv

\* deliver_pending_signal takes a signal that was sent, and puts the interrupted
\* context on the user stack.
LEMMA DeliverStep ==
    ASSUME SigInv, Notices!Deliver
    PROVE  SigInv' /\ NestStep
<1> DEFINE s == Notices!Min(pending[cpu])
           q == stack[cpu]
           C == Signal \cup {Notices!Main}
<1>1. /\ pending[cpu] # {}
      /\ pending' = [pending EXCEPT ![cpu] = pending[cpu] \ {s}]
      /\ taken' = [taken EXCEPT ![cpu] = [taken[cpu] EXCEPT ![s] = taken[cpu][s] + 1]]
      /\ cpu' = cpu /\ sent' = sent
      /\ \/ /\ stack' = [stack EXCEPT ![cpu] = Append(q, context[cpu])]
            /\ context' = [context EXCEPT ![cpu] = s]
         \/ stack' = stack /\ context' = context
    BY Zenon DEF Notices!Deliver
<1>2. /\ cpu \in Notices!Thread /\ q \in Seq(C) /\ Notices!SignalsAssumption
      /\ stack \in [Notices!Thread -> Seq(C)] /\ context \in [Notices!Thread -> C]
      /\ pending \in [Notices!Thread -> SUBSET Signal]
      /\ taken \in [Notices!Thread -> [Signal -> Nat]]
    BY Zenon DEF SigInv, SigType
<1>3. s \in pending[cpu] /\ s \in Signal
    BY <1>1, <1>2, LowestSignal, Zenon
<1>4. s # Notices!Main
    BY <1>2, <1>3, MainIsNoSignal, Zenon
<1> HIDE DEF s
<1>5. pending' \in [Notices!Thread -> SUBSET Signal]
    BY <1>1, <1>2, ZenonT(60)
<1>6. /\ taken'[cpu] \in [Signal -> Nat] /\ taken'[cpu][s] = taken[cpu][s] + 1
      /\ \A r \in Signal : r # s => taken'[cpu][r] = taken[cpu][r]
      /\ \A t \in Notices!Thread \ {cpu} : taken'[t] = taken[t]
    BY <1>1, <1>2, <1>3, SMTT(60)
<1>7. taken' \in [Notices!Thread -> [Signal -> Nat]]
    BY <1>1, <1>2, <1>6, Zenon
<1>8. Notices!DeliveriesWereSent'
    <2> SUFFICES ASSUME NEW t \in Notices!Thread, NEW r \in Signal
                 PROVE  taken'[t][r] + (IF r \in pending'[t] THEN 1 ELSE 0) <= sent[t][r]
        BY <1>1, Zenon DEF Notices!DeliveriesWereSent
    <2>1. /\ taken[t][r] \in Nat /\ sent[t][r] \in Nat
          /\ taken[t][r] + (IF r \in pending[t] THEN 1 ELSE 0) <= sent[t][r]
        BY ZenonT(60) DEF SigInv, SigType, Notices!DeliveriesWereSent
    <2>2. CASE t = cpu /\ r = s
        <3>1. r \in pending[t] /\ r \notin pending'[t]
            BY <1>1, <1>2, <1>3, <2>2, Zenon
        <3>2. taken'[t][r] = taken[t][r] + 1
            BY <1>6, <2>2, Zenon
        <3> QED
            BY <2>1, <3>1, <3>2, SMTT(60)
    <2>3. CASE t # cpu \/ r # s
        <3>1. r \in pending'[t] <=> r \in pending[t]
            BY <1>1, <1>2, <2>3, Zenon
        <3>2. taken'[t][r] = taken[t][r]
            BY <1>6, <2>3, Zenon
        <3> QED
            BY <2>1, <3>1, <3>2, Zenon
    <2> QED
        BY <2>2, <2>3, Zenon
<1>9. CASE stack' = stack /\ context' = context
    <2>1. Nested' /\ NestStep
        BY <1>9, ContextsStay, Zenon
    <2>2. SigType'
        BY <1>1, <1>5, <1>7, <1>9, Zenon DEF SigInv, SigType
    <2> QED
        BY <1>8, <2>1, <2>2, Zenon DEF SigInv
<1>10. CASE /\ stack' = [stack EXCEPT ![cpu] = Append(q, context[cpu])]
            /\ context' = [context EXCEPT ![cpu] = s]
    <2> HIDE DEF C
    <2>1. context[cpu] \in C /\ s \in C
        BY <1>2, <1>3, Zenon DEF C
    <2>2. /\ Len(q) \in Nat /\ Append(q, context[cpu]) \in Seq(C)
          /\ Len(Append(q, context[cpu])) = Len(q) + 1
          /\ \A i \in 1..Len(q) : Append(q, context[cpu])[i] = q[i]
          /\ Append(q, context[cpu])[Len(q) + 1] = context[cpu]
          /\ Append(q, context[cpu]) # << >>
        <3>1. q \in Seq(C)
            BY <1>2, Zenon
        <3>2. PICK e \in C : e = context[cpu]
            BY <2>1, Zenon
        <3> HIDE DEF q
        <3>3. /\ Len(q) \in Nat /\ Append(q, e) \in Seq(C) /\ Len(Append(q, e)) = Len(q) + 1
              /\ \A i \in 1..Len(q) : Append(q, e)[i] = q[i]
              /\ Append(q, e)[Len(q) + 1] = e /\ Append(q, e) # << >>
            BY <3>1, WithOneMore, ZenonT(60)
        <3> QED
            BY <3>2, <3>3, Zenon
    <2>3. stack'[cpu] = Append(q, context[cpu]) /\ context'[cpu] = s
        BY <1>2, <1>10, Zenon
    <2>4. \A t \in Notices!Thread \ {cpu} : stack'[t] = stack[t] /\ context'[t] = context[t]
        BY <1>2, <1>10, Zenon
    <2>5. stack' \in [Notices!Thread -> Seq(C)] /\ context' \in [Notices!Thread -> C]
        BY <1>2, <1>10, <2>1, <2>2, Zenon
    <2>6. SigType'
        BY <1>1, <1>5, <1>7, <2>5, Zenon DEF SigInv, SigType, C
    <2>7. /\ context[cpu] = Notices!Main <=> q = << >>
          /\ \A i \in 1..Len(q) : q[i] = Notices!Main <=> i = 1
        BY <1>2, Zenon DEF SigInv, Nested
    <2>8. q = << >> <=> Len(q) + 1 = 1
        BY <1>2, SMTT(60)
    <2>9. \A i \in 1..(Len(q) + 1) : i \in 1..Len(q) \/ i = Len(q) + 1
        BY <2>2, SMTT(60)
    <2> HIDE DEF q
    <2>10. \A i \in 1..Len(stack'[cpu]) : stack'[cpu][i] = Notices!Main <=> i = 1
        <3> SUFFICES ASSUME NEW i \in 1..(Len(q) + 1)
                     PROVE  Append(q, context[cpu])[i] = Notices!Main <=> i = 1
            BY <2>2, <2>3, Zenon
        <3>1. CASE i \in 1..Len(q)
            BY <2>2, <2>7, <3>1, Zenon
        <3>2. CASE i = Len(q) + 1
            BY <2>2, <2>7, <2>8, <3>2, Zenon
        <3> QED
            BY <2>9, <3>1, <3>2, Zenon
    <2>11. Nested'
        <3>1. ASSUME NEW t \in Notices!Thread \ {cpu}
              PROVE  /\ context'[t] = Notices!Main <=> stack'[t] = << >>
                     /\ \A i \in 1..Len(stack'[t]) : stack'[t][i] = Notices!Main <=> i = 1
            BY <2>4, OtherNested, Zenon
        <3>2. context'[cpu] # Notices!Main /\ stack'[cpu] # << >>
            BY <1>4, <2>2, <2>3, Zenon
        <3> QED
            BY <2>10, <3>1, <3>2, Zenon DEF Nested
    <2>12. NestStep
        <3> SUFFICES ASSUME NEW t \in Notices!Thread
                     PROVE  /\ Len(stack'[t]) > Len(stack[t]) => stack'[t] = Append(stack[t], context[t])
                            /\ Len(stack'[t]) < Len(stack[t]) => stack[t] = Append(stack'[t], context'[t])
            BY Zenon DEF NestStep, SigInv, Nested
        <3>1. CASE t # cpu
            <4>1. Len(stack[t]) \in Nat /\ stack'[t] = stack[t]
                BY <1>2, <2>4, <3>1, SMTT(60)
            <4> QED
                BY <4>1, SMTT(60)
        <3>2. CASE t = cpu
            <4>1. ~(Len(stack'[t]) < Len(stack[t]))
                BY <2>2, <2>3, <3>2, SMTT(60) DEF q
            <4> QED
                BY <2>3, <3>2, <4>1, ZenonT(60) DEF q
        <3> QED
            BY <3>1, <3>2, Zenon
    <2> QED
        BY <1>8, <2>6, <2>11, <2>12, Zenon DEF SigInv
<1> QED
    BY <1>1, <1>9, <1>10, Zenon

\* SYS_KILL, deliver_pending_signal and SYS_SIGRETURN, for any threads, processes and
\* signals and any number of kills: a signal is delivered no more often than it was
\* sent, and the contexts on a user stack nest, so that sigreturn resumes the one that
\* was interrupted last.
THEOREM SignalsStaySafe ==
    Notices!SignalsAssumption /\ Notices!Spec => []Notices!DeliveriesWereSent /\ Notices!HandlersNest
<1>1. SigInv /\ [Notices!Next]_(Notices!vars) => SigInv' /\ NestStep
    <2> SUFFICES ASSUME SigInv, [Notices!Next]_(Notices!vars) PROVE SigInv' /\ NestStep
        BY Zenon
    <2>0. cpu \in Notices!Thread
        BY Zenon DEF SigInv, SigType
    <2>1. CASE UNCHANGED Notices!vars
        BY <2>0, <2>1, QuietStep, Zenon DEF Notices!vars
    <2>2. ASSUME NEW t \in Notices!Thread, Notices!Switch(t) PROVE SigInv' /\ NestStep
        BY <2>2, QuietStep, Zenon DEF Notices!Switch
    <2>3. ASSUME NEW t \in Notices!Thread, Notices!Wake(t) PROVE SigInv' /\ NestStep
        BY <2>0, <2>3, QuietStep, Zenon DEF Notices!Wake
    <2>4. ASSUME NEW s \in Signal, Notices!SetHandler(s) PROVE SigInv' /\ NestStep
        BY <2>0, <2>4, QuietStep, Zenon DEF Notices!SetHandler
    <2>5. ASSUME NEW s \in Signal, NEW t \in Notices!Thread, Notices!Kill(PidOf[t], s)
          PROVE  SigInv' /\ NestStep
        BY <2>5, KillStep, Zenon
    <2>6. CASE Notices!Sigreturn
        BY <2>6, SigreturnStep, Zenon
    <2>7. CASE Notices!OtherCall
        BY <2>0, <2>7, QuietStep, Zenon DEF Notices!OtherCall
    <2>8. CASE Notices!Exit
        BY <2>0, <2>8, QuietStep, Zenon DEF Notices!Exit
    <2>9. CASE Notices!Block
        BY <2>0, <2>9, QuietStep, Zenon DEF Notices!Block
    <2>10. CASE Notices!Deliver
        BY <2>10, DeliverStep, Zenon
    <2>11. CASE Notices!Return
        BY <2>0, <2>11, QuietStep, Zenon DEF Notices!Return
    <2> QED
        BY <2>1, <2>2, <2>3, <2>4, <2>5, <2>6, <2>7, <2>8, <2>9, <2>10, <2>11, Zenon DEF Notices!Next, Notices!Call
<1>2. SigInv => Notices!DeliveriesWereSent
    BY Zenon DEF SigInv
<1> QED
    BY SigInit, <1>1, <1>2, PTL DEF Notices!Spec, Notices!HandlersNest, NestStep
-----------------------------------------------------------------------------
\* A number below twice the size of a ring, as an index of it.
LEMMA Wraps ==
    ASSUME NEW N \in Nat \ {0}
    PROVE  \A x \in 0..(2 * N - 1) : (x < N => x % N = x) /\ (~(x < N) => x % N = x - N)
    BY SMTT(60)

\* The inductive invariant of the ring: it has as many scancodes as were typed and
\* not drained, each in its place.
Code == Char \cup {KeyUp}
Fill == (tail + RingSize - head) % RingSize

RingInv ==
    /\ Keys!ConsoleAssumption
    /\ head \in 0..(RingSize - 1) /\ tail \in 0..(RingSize - 1)
    /\ typed \in Seq(Code) /\ drained \in 0..Len(typed)
    /\ ring \in [0..(RingSize - 1) -> Code]
    /\ Len(typed) - drained = Fill
    /\ \A i \in 1..Fill : ring[(head + i - 1) % RingSize] = typed[drained + i]

\* push_scancode: a code that finds room goes behind the others, on none of them.
LEMMA KeyStep ==
    ASSUME RingInv, NEW c \in Code, Keys!Key(c)
    PROVE  RingInv'
<1>0. RingSize \in Nat \ {0} /\ RingSize \in Nat /\ RingSize > 1
    BY SMTT(60) DEF RingInv, Keys!ConsoleAssumption
<1>3. \A x \in 0..(2 * RingSize - 1) :
        (x < RingSize => x % RingSize = x) /\ (~(x < RingSize) => x % RingSize = x - RingSize)
    BY <1>0, Wraps, Zenon
<1>1. CASE Keys!Room
    <2>1. /\ ring' = [ring EXCEPT ![tail] = c] /\ tail' = (tail + 1) % RingSize
          /\ typed' = Append(typed, c) /\ head' = head /\ drained' = drained
          /\ (tail + 1) % RingSize # head
        BY <1>1, Zenon DEF Keys!Key, Keys!Room
    <2>2. /\ head \in 0..(RingSize - 1) /\ tail \in 0..(RingSize - 1)
          /\ typed \in Seq(Code) /\ Len(typed) \in Nat /\ drained \in 0..Len(typed)
          /\ ring \in [0..(RingSize - 1) -> Code]
        BY SMTT(60) DEF RingInv
    <2>3. tail' = IF tail + 1 < RingSize THEN tail + 1 ELSE 0
        <3>1. tail + 1 \in 0..(2 * RingSize - 1)
            BY <1>0, <2>2, SMTT(60)
        <3>2. /\ tail + 1 < RingSize => (tail + 1) % RingSize = tail + 1
              /\ ~(tail + 1 < RingSize) => (tail + 1) % RingSize = (tail + 1) - RingSize
            BY <1>3, <3>1, Zenon
        <3> QED
            BY <1>0, <2>1, <2>2, <3>2, SMTT(60)
    <2>4. Fill = IF tail < head THEN tail + RingSize - head ELSE tail - head
        <3>1. tail + RingSize - head \in 0..(2 * RingSize - 1)
            BY <1>0, <2>2, SMTT(60)
        <3>2. /\ tail + RingSize - head < RingSize => Fill = tail + RingSize - head
              /\ ~(tail + RingSize - head < RingSize) => Fill = (tail + RingSize - head) - RingSize
            BY <1>3, <3>1, Zenon DEF Fill
        <3> QED
            BY <1>0, <2>2, <3>2, SMTT(60)
    <2>5. Fill' = IF tail' < head THEN tail' + RingSize - head ELSE tail' - head
        <3>1. tail' + RingSize - head \in 0..(2 * RingSize - 1)
            BY <1>0, <2>2, <2>3, SMTT(60)
        <3>2. /\ tail' + RingSize - head < RingSize => Fill' = tail' + RingSize - head
              /\ ~(tail' + RingSize - head < RingSize) => Fill' = (tail' + RingSize - head) - RingSize
            BY <1>3, <2>1, <3>1, ZenonT(60) DEF Fill
        <3> QED
            BY <1>0, <2>2, <2>3, <3>2, SMTT(60)
    <2>6. Fill' = Fill + 1 /\ Fill \in 0..(RingSize - 2)
        BY <1>0, <2>1, <2>2, <2>3, <2>4, <2>5, SMTT(60)
    <2>7. /\ typed' \in Seq(Code) /\ Len(typed') = Len(typed) + 1
          /\ typed'[Len(typed) + 1] = c
          /\ \A k \in 1..Len(typed) : typed'[k] = typed[k]
        BY <2>1, <2>2, SMTT(60)
    <2>8. ASSUME NEW i \in 1..Fill'
          PROVE  ring'[(head + i - 1) % RingSize] = typed'[drained + i]
        <3> DEFINE at == (head + i - 1) % RingSize
        <3>1. /\ head + i - 1 < RingSize => at = head + i - 1
              /\ ~(head + i - 1 < RingSize) => at = (head + i - 1) - RingSize
            <4>1. head + i - 1 \in 0..(2 * RingSize - 1)
                BY <1>0, <2>2, <2>6, SMTT(60)
            <4> QED
                BY <1>3, <4>1, Zenon
        <3>2. Len(typed) = drained + Fill
            BY <2>2, <2>6, SMTT(60) DEF RingInv
        <3> HIDE DEF at
        <3>3. at \in 0..(RingSize - 1)
            BY <1>0, <2>2, <2>6, <3>1, SMTT(60)
        <3>4. CASE i = Fill + 1
            <4>1. at = tail
                BY <1>0, <2>2, <2>4, <2>6, <3>1, <3>4, SMTT(60)
            <4>2. drained + i = Len(typed) + 1
                BY <2>2, <2>6, <3>2, <3>4, SMTT(60)
            <4>3. ring'[at] = c
                BY <2>1, <2>2, <4>1, Zenon
            <4> QED
                BY <2>7, <4>2, <4>3, ZenonT(60) DEF at
        <3>5. CASE i # Fill + 1
            <4>1. i \in 1..Fill /\ drained + i \in 1..Len(typed)
                BY <2>2, <2>6, <3>2, <3>5, SMTT(60)
            <4>2. at # tail
                BY <1>0, <2>2, <2>4, <2>6, <3>1, <4>1, SMTT(60)
            <4>3. ring'[at] = ring[at]
                BY <2>1, <2>2, <3>3, <4>2, Zenon
            <4>4. ring[at] = typed[drained + i]
                BY <4>1, Zenon DEF RingInv, at
            <4> QED
                BY <2>7, <4>1, <4>3, <4>4, ZenonT(60) DEF at
        <3> QED
            BY <3>4, <3>5, Zenon
    <2>9. ring' \in [0..(RingSize - 1) -> Code] /\ tail' \in 0..(RingSize - 1)
        <3>1. tail' \in 0..(RingSize - 1)
            BY <1>0, <2>2, <2>3, SMTT(60)
        <3> QED
            BY <2>1, <2>2, <3>1, Zenon
    <2>10. Len(typed') - drained' = Fill' /\ drained' \in 0..Len(typed')
        <3>1. Len(typed) - drained = Fill
            BY Zenon DEF RingInv
        <3> QED
            BY <2>1, <2>2, <2>6, <2>7, <3>1, SMTT(60)
    <2> QED
        BY <2>1, <2>2, <2>7, <2>8, <2>9, <2>10, ZenonT(60) DEF RingInv
<1>2. CASE ~Keys!Room
    <2>1. /\ ring' = ring /\ tail' = tail /\ typed' = typed /\ head' = head /\ drained' = drained
        BY <1>2, Zenon DEF Keys!Key
    <2> QED
        BY <2>1, ZenonT(60) DEF RingInv, Fill
<1> QED
    BY <1>1, <1>2, Zenon

\* What the ring holds is what was typed last.
LEMMA RingInOrder == RingInv => Keys!RingKeepsOrder
<1> SUFFICES ASSUME RingInv PROVE Keys!RingKeepsOrder
    BY Zenon
<1> DEFINE rest == SubSeq(typed, drained + 1, Len(typed))
<1>1. /\ typed \in Seq(Code) /\ Len(typed) \in Nat /\ drained \in 0..Len(typed)
      /\ Len(typed) - drained = Fill
    BY SMTT(60) DEF RingInv
<1>2. rest \in Seq(Code) /\ Len(rest) = Len(typed) - drained
    BY <1>1, SMTT(60)
<1>3. \A i \in 1..(Len(typed) - drained) : rest[i] = typed[drained + i]
    BY <1>1, SMTT(60)
<1>4. rest = [i \in 1..Len(rest) |-> rest[i]]
    <2>1. \A q \in Seq(Code) : q = [i \in 1..Len(q) |-> q[i]]
        BY SMTT(60)
    <2> QED
        BY <1>2, <2>1, Zenon
<1>5. Keys!Waiting = [i \in 1..Fill |-> ring[(head + i - 1) % RingSize]]
    BY Zenon DEF Keys!Waiting, Fill
<1> HIDE DEF rest
<1>6. \A i \in 1..Fill : ring[(head + i - 1) % RingSize] = rest[i]
    BY <1>1, <1>3, Zenon DEF RingInv
<1>7. Keys!Waiting = rest
    <2>1. Len(rest) = Fill
        BY <1>1, <1>2, Zenon
    <2> QED
        BY <1>4, <1>5, <1>6, <2>1, Zenon
<1> QED
    BY <1>7, Zenon DEF Keys!RingKeepsOrder, rest

\* push_scancode and pop_scancode, for a ring of any size and any keys and reads: the
\* ring holds the scancodes that found room and were not drained yet, in the order they
\* were typed, through any number of turns of head and tail.
THEOREM RingIsFifo == Keys!ConsoleAssumption /\ Keys!Spec => []Keys!RingKeepsOrder
<1>1. Keys!ConsoleAssumption /\ Keys!Init => RingInv
    <2> SUFFICES ASSUME Keys!ConsoleAssumption, Keys!Init PROVE RingInv
        BY Zenon
    <2>1. RingSize \in Nat \ {0} /\ 0 \in 0..(RingSize - 1) /\ RingSize \in 0..(2 * RingSize - 1)
        BY SMTT(60) DEF Keys!ConsoleAssumption
    <2>2. ~(RingSize < RingSize) => RingSize % RingSize = RingSize - RingSize
        BY <2>1, Wraps, Zenon
    <2>3. Fill = 0
        <3>1. (0 + RingSize - 0) % RingSize = 0
            BY <2>1, <2>2, SMTT(60)
        <3> QED
            BY <3>1, Zenon DEF Fill, Keys!Init
    <2>4. << >> \in Seq(Code) /\ 0 \in 0..Len(<< >>) /\ Len(<< >>) - 0 = 0 /\ 1..0 = {}
        BY SMTT(60)
    <2>5. ring \in [0..(RingSize - 1) -> Code]
        BY Zenon DEF Keys!Init, Code
    <2> QED
        BY <2>1, <2>3, <2>4, <2>5, ZenonT(60) DEF RingInv, Keys!Init
<1>2. RingInv /\ [Keys!Next]_(Keys!vars) => RingInv'
    <2> SUFFICES ASSUME RingInv, [Keys!Next]_(Keys!vars) PROVE RingInv'
        BY Zenon
    <2>1. ASSUME ring' = ring, tail' = tail, typed' = typed, head' = head, drained' = drained
          PROVE  RingInv'
        BY <2>1, ZenonT(60) DEF RingInv, Fill
    <2>2. CASE UNCHANGED Keys!vars
        BY <2>1, <2>2, Zenon DEF Keys!vars
    <2>3. ASSUME NEW b \in BOOLEAN, Keys!Ioctl(b) PROVE RingInv'
        BY <2>1, <2>3, Zenon DEF Keys!Ioctl
    <2>4. ASSUME NEW c \in Char \cup {KeyUp}, Keys!Key(c) PROVE RingInv'
        BY <2>4, KeyStep, Zenon DEF Code
    <2>5. ASSUME NEW n \in ReadLens, Keys!Read(n) PROVE RingInv'
        <3>1. /\ ring' = ring /\ tail' = tail /\ typed' = typed
              /\ \/ head' = head /\ drained' = drained
                 \/ head' = tail /\ drained' = Len(typed)
            BY <2>5, ZenonT(60) DEF Keys!Read
        <3>2. CASE head' = tail /\ drained' = Len(typed)
            <4>1. /\ RingSize \in Nat \ {0} /\ tail \in 0..(RingSize - 1) /\ Len(typed) \in Nat
                  /\ RingSize \in 0..(2 * RingSize - 1)
                BY SMTT(60) DEF RingInv, Keys!ConsoleAssumption
            <4>2. ~(RingSize < RingSize) => RingSize % RingSize = RingSize - RingSize
                BY <4>1, Wraps, Zenon
            <4>3. (tail + RingSize - tail) % RingSize = 0
                <5>1. tail + RingSize - tail = RingSize /\ ~(RingSize < RingSize) /\ RingSize - RingSize = 0
                    BY <4>1, SMTT(60)
                <5> QED
                    BY <4>2, <5>1, Zenon
            <4>4. Fill' = 0
                BY <3>1, <3>2, <4>3, Zenon DEF Fill
            <4>5. Len(typed) - Len(typed) = 0 /\ Len(typed) \in 0..Len(typed) /\ 1..0 = {}
                BY <4>1, SMTT(60)
            <4> QED
                BY <3>1, <3>2, <4>4, <4>5, ZenonT(60) DEF RingInv
        <3> QED
            BY <2>1, <3>1, <3>2, Zenon
    <2> QED
        BY <2>2, <2>3, <2>4, <2>5, Zenon DEF Keys!Next
<1> QED
    BY <1>1, <1>2, RingInOrder, PTL DEF Keys!Spec
=============================================================================
