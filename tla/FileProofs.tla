----------------------------- MODULE FileProofs -----------------------------
(***************************************************************************)
(* Files and rights for any processes, paths, bytes and domains: the       *)
(* logical file system keeps its open files and its tree in order and is   *)
(* files with one user at a time, the access matrix conserves rights, and  *)
(* the repair of a file of records at boot keeps what the file said.       *)
(***************************************************************************)
EXTENDS AccessMatrix, FilePart, DomainPart, Integers, Sequences,
        FiniteSetTheorems, TLAPS

\* Open files: one control block for a file, whose holder has a descriptor, and
\* no descriptor that was not given out.
FsOpenInv ==
    /\ fcbs \in [Path -> Fs!Fcb \cup {None}]
    /\ fds \in [Proc -> [Fs!Fd -> Path \cup {None}]]
    /\ nextFd \in [Proc -> 3..(MaxFds + 3)]
    /\ Fs!OneFcbPerFile /\ Fs!LockHasDescriptor
    /\ \A p \in Proc : \A d \in Fs!Fd : d >= nextFd[p] => fds[p][d] = None

\* The volume: what exists is in a directory, and only files have bytes.
FsTreeInv ==
    /\ kind \in [Entry -> {"none", "file", "dir"}]
    /\ name \in [Entry -> Path]
    /\ data \in [Entry -> Seq(Value)]
    /\ \A e \in Entry : Len(data[e]) <= MaxSize /\ (kind[e] # "file" => data[e] = << >>)
    /\ Fs!NoOrphans

\* The inductive invariant of the logical file system.
FsInv ==
    /\ Fs!FsAssumption /\ FsOpenInv /\ FsTreeInv
    /\ perms \in [Path -> Fs!Record \cup {None}]
    /\ use \in Uses

LEMMA FsInitSound == Fs!FsAssumption /\ Fs!Init => FsInv
<1> SUFFICES ASSUME Fs!FsAssumption, Fs!Init PROVE FsInv
  BY Zenon
<1>1. FsOpenInv
  BY SMTT(60) DEF Fs!FsAssumption, Fs!Init, FsOpenInv, Fs!OneFcbPerFile, Fs!LockHasDescriptor
<1>2. FsTreeInv
  <2>1. name \in [Entry -> Path]
    BY Zenon DEF Fs!FsAssumption, Fs!Init
  <2> QED
    BY <2>1, SMTT(60) DEF Fs!FsAssumption, Fs!Init, FsTreeInv, Fs!NoOrphans
<1> QED
  BY <1>1, <1>2, Zenon DEF FsInv, Fs!Init

LEMMA NewFcbIs ==
    ASSUME FsInv, NEW p \in Proc
    PROVE  /\ Fs!NewFcb(p) \in Fs!Fcb /\ Fs!NewFcb(p) # None
           /\ Fs!NewFcb(p).count = 1 /\ Fs!NewFcb(p).lockedBy = p /\ Fs!NewFcb(p).cursor = 0
<1>1. MaxSize \in Nat /\ None \notin Fs!Fcb
  BY Zenon DEF FsInv, Fs!FsAssumption
<1>2. Fs!NewFcb(p) \in Fs!Fcb
  BY <1>1, SMTT(60) DEF Fs!NewFcb, Fs!Fcb
<1> QED
  BY <1>1, <1>2, Zenon DEF Fs!NewFcb

\* The tail of open and create: a file that is not open under any spelling gets a
\* control block and the next descriptor.
LEMMA TakeSound ==
    ASSUME FsInv, NEW p \in Proc, NEW g \in Path, nextFd[p] \in Fs!Fd,
           ~Fs!CaseConflict(g), Fs!Take(p, g)
    PROVE  FsOpenInv'
<1>1. CASE UNCHANGED <<fcbs, fds, nextFd>>
  BY <1>1, Zenon DEF FsInv, FsOpenInv, Fs!OneFcbPerFile, Fs!LockHasDescriptor
<1>2. CASE ~UNCHANGED <<fcbs, fds, nextFd>>
  <2> DEFINE d == nextFd[p]
             f == Fs!NewFcb(p)
  <2>1. /\ fcbs[g] = None /\ fcbs' = [fcbs EXCEPT ![g] = f]
        /\ fds' = [fds EXCEPT ![p][d] = g] /\ nextFd' = [nextFd EXCEPT ![p] = d + 1]
    BY <1>2, Zenon DEF Fs!Take, Fs!open
  <2>2. /\ f \in Fs!Fcb /\ f.count = 1 /\ f.lockedBy = p
        /\ None \notin Path /\ None \notin Fs!Fcb /\ MaxFds \in Nat /\ MaxSize \in Nat
    BY NewFcbIs, ZenonT(60) DEF FsInv, Fs!FsAssumption
  <2> HIDE DEF f
  <2>3. /\ fcbs \in [Path -> Fs!Fcb \cup {None}]
        /\ fds \in [Proc -> [Fs!Fd -> Path \cup {None}]]
        /\ nextFd \in [Proc -> 3..(MaxFds + 3)]
    BY Zenon DEF FsInv, FsOpenInv
  <2>4. /\ fcbs' \in [Path -> Fs!Fcb \cup {None}]
        /\ fcbs'[g] = f /\ \A h \in Path \ {g} : fcbs'[h] = fcbs[h]
    BY <2>1, <2>2, <2>3, Zenon
  <2>5. /\ fds' \in [Proc -> [Fs!Fd -> Path \cup {None}]]
        /\ fds'[p][d] = g
        /\ \A q \in Proc, c \in Fs!Fd : q # p \/ c # d => fds'[q][c] = fds[q][c]
    BY <2>1, <2>3, Zenon
  <2>6. nextFd' \in [Proc -> 3..(MaxFds + 3)]
    BY <2>1, <2>2, <2>3, SMTT(60) DEF Fs!Fd
  <2>7. Fs!OneFcbPerFile'
    BY <2>2, <2>4, Zenon DEF FsInv, FsOpenInv, Fs!OneFcbPerFile, Fs!CaseConflict
  <2>8. Fs!LockHasDescriptor'
    <3> SUFFICES ASSUME NEW h \in Path, fcbs'[h] # None
                 PROVE  /\ fcbs'[h].count = 1
                        /\ \E c \in Fs!Fd : fds'[fcbs'[h].lockedBy][c] = h
      BY Zenon DEF Fs!LockHasDescriptor
    <3>1. CASE h = g
      BY <2>2, <2>4, <2>5, <3>1, Zenon
    <3>2. CASE h # g
      <4>1. fcbs'[h] = fcbs[h] /\ fcbs[h] \in Fs!Fcb /\ fcbs[h].lockedBy \in Proc
        BY <2>3, <2>4, <3>2, Zenon DEF Fs!Fcb
      <4>2. fcbs[h].count = 1 /\ \E c \in Fs!Fd : fds[fcbs[h].lockedBy][c] = h
        BY <4>1, Zenon DEF FsInv, FsOpenInv, Fs!LockHasDescriptor
      <4>3. fds[p][d] = None
        BY <2>2, <2>3, SMTT(60) DEF FsInv, FsOpenInv
      <4> QED
        BY <2>2, <2>5, <4>1, <4>2, <4>3, SMTT(60)
    <3> QED
      BY <3>1, <3>2, Zenon
  <2>9. \A q \in Proc : \A c \in Fs!Fd : c >= nextFd'[q] => fds'[q][c] = None
    BY <2>1, <2>2, <2>3, <2>5, SMTT(60) DEF FsInv, FsOpenInv, Fs!Fd
  <2> QED
    BY <2>4, <2>5, <2>6, <2>7, <2>8, <2>9, Zenon DEF FsOpenInv
<1> QED
  BY <1>1, <1>2, Zenon

\* A call that changes only the cursor and the mark of control blocks, or drops one.
LEMMA BlocksChange ==
    ASSUME FsInv, UNCHANGED <<fds, nextFd>>, NEW g \in Path,
           NEW f \in Fs!Fcb \cup {None}, fcbs' = [fcbs EXCEPT ![g] = f],
           f # None => fcbs[g] # None /\ f.count = fcbs[g].count /\ f.lockedBy = fcbs[g].lockedBy
    PROVE  FsOpenInv'
<1>1. fcbs \in [Path -> Fs!Fcb \cup {None}]
  BY Zenon DEF FsInv, FsOpenInv
<1>2. /\ fcbs' \in [Path -> Fs!Fcb \cup {None}]
      /\ \A h \in Path : fcbs'[h] # None =>
            fcbs[h] # None /\ fcbs'[h].count = fcbs[h].count /\ fcbs'[h].lockedBy = fcbs[h].lockedBy
  BY <1>1, Zenon
<1>3. Fs!OneFcbPerFile'
  BY <1>2, Zenon DEF FsInv, FsOpenInv, Fs!OneFcbPerFile
<1>4. Fs!LockHasDescriptor'
  BY <1>2, SMTT(60) DEF FsInv, FsOpenInv, Fs!LockHasDescriptor
<1> QED
  BY <1>2, <1>3, <1>4, Zenon DEF FsInv, FsOpenInv

\* close gives the descriptor back, and with it the control block of its file.
LEMMA CloseSound ==
    ASSUME FsInv, NEW p \in Proc, NEW d \in Fs!Fd, Fs!Close(p, d)
    PROVE  FsOpenInv'
<1> DEFINE g == fds[p][d]
<1>1. /\ fcbs \in [Path -> Fs!Fcb \cup {None}]
      /\ fds \in [Proc -> [Fs!Fd -> Path \cup {None}]]
      /\ None \notin Path /\ None \notin Fs!Fcb
  BY Zenon DEF FsInv, FsOpenInv, Fs!FsAssumption
<1>2. g \in Path /\ fds' = [fds EXCEPT ![p][d] = None] /\ nextFd' = nextFd
  BY <1>1, SMTT(60) DEF Fs!Close
<1>3. fcbs' = [fcbs EXCEPT ![g] = None]
  <2>1. CASE fcbs[g] = None
    BY <1>1, <2>1, Zenon DEF Fs!Close
  <2>2. CASE fcbs[g] # None
    <3>1. fcbs[g].count <= 1
      BY <1>2, <2>2, SMTT(60) DEF FsInv, FsOpenInv, Fs!LockHasDescriptor
    <3> QED
      BY <1>1, <2>2, <3>1, Zenon DEF Fs!Close
  <2> QED
    BY <2>1, <2>2, Zenon
<1>4. /\ fcbs' \in [Path -> Fs!Fcb \cup {None}] /\ fcbs'[g] = None
      /\ \A h \in Path \ {g} : fcbs'[h] = fcbs[h]
  BY <1>1, <1>2, <1>3, Zenon
<1>5. /\ fds' \in [Proc -> [Fs!Fd -> Path \cup {None}]]
      /\ fds'[p][d] = None
      /\ \A q \in Proc, c \in Fs!Fd : q # p \/ c # d => fds'[q][c] = fds[q][c]
  BY <1>1, <1>2, Zenon
<1>6. Fs!OneFcbPerFile'
  BY <1>4, Zenon DEF FsInv, FsOpenInv, Fs!OneFcbPerFile
<1>7. Fs!LockHasDescriptor'
  <2> SUFFICES ASSUME NEW h \in Path, fcbs'[h] # None
               PROVE  /\ fcbs'[h].count = 1
                      /\ \E c \in Fs!Fd : fds'[fcbs'[h].lockedBy][c] = h
    BY Zenon DEF Fs!LockHasDescriptor
  <2>1. h # g /\ fcbs'[h] = fcbs[h] /\ fcbs[h].lockedBy \in Proc
    BY <1>1, <1>4, Zenon DEF Fs!Fcb
  <2>2. fcbs[h].count = 1 /\ \E c \in Fs!Fd : fds[fcbs[h].lockedBy][c] = h
    BY <2>1, Zenon DEF FsInv, FsOpenInv, Fs!LockHasDescriptor
  <2> QED
    BY <1>5, <2>1, <2>2, ZenonT(60)
<1>8. \A q \in Proc : \A c \in Fs!Fd : c >= nextFd'[q] => fds'[q][c] = None
  BY <1>2, <1>5, ZenonT(60) DEF FsInv, FsOpenInv
<1> QED
  BY <1>2, <1>4, <1>5, <1>6, <1>7, <1>8, Zenon DEF FsInv, FsOpenInv

\* Where a transfer starts: at the cursor, or at the end of a file that ends before it.
LEMMA PlaceIsMin ==
    ASSUME FsInv, NEW g \in Path, fcbs[g] # None
    PROVE  /\ Fs!Place(g) \in 0..Len(data[EntryOf[g]])
           /\ Fs!Place(g) <= fcbs[g].cursor
           /\ fcbs[g].cursor <= Len(data[EntryOf[g]]) => Fs!Place(g) = fcbs[g].cursor
           /\ fcbs[g].cursor > Len(data[EntryOf[g]]) => Fs!Place(g) = Len(data[EntryOf[g]])
<1> DEFINE c == fcbs[g].cursor
           l == Len(data[EntryOf[g]])
<1>1. c \in Nat /\ l \in Nat
  BY SMTT(60) DEF FsInv, FsOpenInv, FsTreeInv, Fs!FsAssumption, Fs!Fcb
<1>2. Fs!Place(g) = CHOOSE x \in {c, l} : \A y \in {c, l} : x <= y
  BY Zenon DEF Fs!Place, Fs!Min
<1> HIDE DEF c, l
<1>3. \E x \in {c, l} : \A y \in {c, l} : x <= y
  BY <1>1, SMTT(60)
<1>4. Fs!Place(g) \in {c, l} /\ Fs!Place(g) <= c /\ Fs!Place(g) <= l
  BY <1>2, <1>3, Zenon
<1> QED
  BY <1>1, <1>4, SMTT(60) DEF c, l

\* A call that moves the cursor of a file that is open, and nothing else of it.
Moves(g, c) ==
    /\ g \in Path /\ fcbs[g] # None /\ c \in 0..(2 * MaxSize)
    /\ fcbs' = [fcbs EXCEPT ![g] = [fcbs[g] EXCEPT !.cursor = c]]
    /\ UNCHANGED <<fds, nextFd>>

\* read, write and seek.
LEMMA CallMoves ==
    ASSUME FsInv, NEW p \in Proc, NEW d \in Fs!Fd
    PROVE  LET g == fds[p][d]
           IN  /\ Fs!Read(p, d) =>
                     Moves(g, fcbs[g].cursor + (IF Fs!Place(g) < Len(data[EntryOf[g]]) THEN 1 ELSE 0))
               /\ \A v \in Value : Fs!Write(p, d, v) => Moves(g, fcbs[g].cursor + 1)
               /\ \A n \in 0..MaxSize : Fs!Seek(p, d, n) => Moves(g, n)
<1> DEFINE g == fds[p][d]
<1>1. /\ fcbs \in [Path -> Fs!Fcb \cup {None}]
      /\ fds \in [Proc -> [Fs!Fd -> Path \cup {None}]]
      /\ None \notin Path /\ MaxSize \in Nat
  BY Zenon DEF FsInv, FsOpenInv, Fs!FsAssumption
<1>2. fcbs[g] # None /\ g \in Path => fcbs[g].cursor \in Nat
  BY <1>1, SMTT(60) DEF Fs!Fcb
<1>3. Fs!Read(p, d) => Moves(g, fcbs[g].cursor + (IF Fs!Place(g) < Len(data[EntryOf[g]]) THEN 1 ELSE 0))
  BY <1>1, <1>2, SMTT(60) DEF Fs!Read, Fs!Usable, Moves
<1>4. ASSUME NEW v \in Value, Fs!Write(p, d, v) PROVE Moves(g, fcbs[g].cursor + 1)
  BY <1>1, <1>2, <1>4, SMTT(60) DEF Fs!Write, Fs!Usable, Moves
<1>5. ASSUME NEW n \in 0..MaxSize, Fs!Seek(p, d, n) PROVE Moves(g, n)
  BY <1>1, <1>5, SMTT(60) DEF Fs!Seek, Moves
<1> QED
  BY <1>3, <1>4, <1>5, Zenon

\* What such a call leaves.
LEMMA MovesKeep ==
    ASSUME FsInv, NEW g, NEW c, Moves(g, c)
    PROVE  /\ FsOpenInv'
           /\ fcbs'[g] # None /\ fcbs'[g].cursor = c /\ fcbs'[g].lockedBy = fcbs[g].lockedBy
           /\ \A h \in Path \ {g} : fcbs'[h] = fcbs[h]
<1> DEFINE f == [fcbs[g] EXCEPT !.cursor = c]
<1>1. /\ fcbs \in [Path -> Fs!Fcb \cup {None}] /\ None \notin Fs!Fcb
      /\ g \in Path /\ fcbs[g] \in Fs!Fcb /\ c \in 0..(2 * MaxSize)
      /\ fcbs' = [fcbs EXCEPT ![g] = f] /\ UNCHANGED <<fds, nextFd>>
  BY Zenon DEF FsInv, FsOpenInv, Fs!FsAssumption, Moves
<1>2. f \in Fs!Fcb /\ f.count = fcbs[g].count /\ f.lockedBy = fcbs[g].lockedBy /\ f.cursor = c
  BY <1>1, Zenon DEF Fs!Fcb
<1> HIDE DEF f
<1>3. FsOpenInv'
  BY <1>1, <1>2, BlocksChange, Zenon
<1> QED
  BY <1>1, <1>2, <1>3, Zenon

\* Marking a file as shared keeps who holds it.
LEMMA MarkSound ==
    ASSUME FsInv, NEW g \in Path, Fs!MarkShared(g)
    PROVE  FsOpenInv'
<1> DEFINE f == [fcbs[g] EXCEPT !.isShared = TRUE]
<1>1. /\ fcbs \in [Path -> Fs!Fcb \cup {None}]
      /\ fcbs[g] # None /\ fcbs' = [fcbs EXCEPT ![g] = f] /\ UNCHANGED <<fds, nextFd>>
  BY Zenon DEF FsInv, FsOpenInv, Fs!MarkShared
<1>2. f \in Fs!Fcb /\ f.count = fcbs[g].count /\ f.lockedBy = fcbs[g].lockedBy
  BY <1>1, Zenon DEF Fs!Fcb
<1> HIDE DEF f
<1> QED
  BY <1>1, <1>2, BlocksChange, Zenon

\* create and mkdir put an entry in a directory that is there.
LEMMA EntryAdded ==
    ASSUME FsInv, NEW p \in Proc, NEW g \in Path, Fs!Create(p, g) \/ Fs!Mkdir(g)
    PROVE  FsTreeInv'
<1> DEFINE e == EntryOf[g]
<1>1. /\ e \in Entry /\ kind \in [Entry -> {"none", "file", "dir"}] /\ name \in [Entry -> Path]
      /\ DirOf \in [Entry -> Entry \cup {None}] /\ None \notin Entry
  BY ZenonT(60) DEF FsInv, FsTreeInv, Fs!FsAssumption
<1>2. /\ kind[e] # "dir" /\ Fs!InDir(e) /\ data' = data
      /\ \E k \in {"file", "dir"} : kind' = [kind EXCEPT ![e] = k] /\ (k = "dir" => kind[e] = "none")
      /\ \E h \in Path : name' = [name EXCEPT ![e] = h]
  BY <1>1, Zenon DEF Fs!Create, Fs!Mkdir
<1> HIDE DEF e
<1>3. kind' \in [Entry -> {"none", "file", "dir"}] /\ name' \in [Entry -> Path]
  BY <1>1, <1>2, ZenonT(60)
<1>4. \A x \in Entry : (kind[x] = "dir" => kind'[x] = "dir") /\ (x # e => kind'[x] = kind[x])
  BY <1>1, <1>2, Zenon
<1>5. \A x \in Entry : Len(data'[x]) <= MaxSize /\ (kind'[x] # "file" => data'[x] = << >>)
  <2>1. kind'[e] # "file" => kind[e] = "none"
    BY <1>1, <1>2, Zenon
  <2> QED
    BY <1>2, <1>4, <2>1, Zenon DEF FsInv, FsTreeInv
<1>6. Fs!NoOrphans'
  BY <1>1, <1>2, <1>4, Zenon DEF FsInv, FsTreeInv, Fs!NoOrphans, Fs!InDir
<1> QED
  BY <1>2, <1>3, <1>5, <1>6, Zenon DEF FsInv, FsTreeInv

\* Below is closed: what a directory in it holds is in it.
LEMMA BelowClosed ==
    ASSUME FsInv, NEW e \in Entry
    PROVE  /\ e \in Fs!Below(e) /\ Fs!Below(e) \subseteq Entry
           /\ \A c \in Entry : DirOf[c] \in Fs!Below(e) => c \in Fs!Below(e)
BY Zenon DEF Fs!Below

\* delete, rename and rmdir leave nothing without its directory.
LEMMA EntryRemoved ==
    ASSUME FsInv, NEW g \in Path, NEW h \in Path, Fs!Delete(g) \/ Fs!Rename(g, h) \/ Fs!Rmdir(g)
    PROVE  FsTreeInv'
<1> DEFINE e == EntryOf[g]
           f == EntryOf[h]
<1>1. /\ e \in Entry /\ f \in Entry
      /\ kind \in [Entry -> {"none", "file", "dir"}] /\ name \in [Entry -> Path]
      /\ data \in [Entry -> Seq(Value)]
      /\ DirOf \in [Entry -> Entry \cup {None}] /\ None \notin Entry /\ MaxSize \in Nat
      /\ \A x \in Entry : Len(data[x]) <= MaxSize /\ (kind[x] # "file" => data[x] = << >>)
      /\ \A x \in Entry : kind[x] # "none" => Fs!InDir(x)
  BY ZenonT(60) DEF FsInv, FsTreeInv, Fs!FsAssumption, Fs!NoOrphans
<1>2. << >> \in Seq(Value) /\ Len(<< >>) = 0
  BY SMTT(60)
<1>3. CASE Fs!Delete(g)
  <2>1. /\ kind' = [kind EXCEPT ![e] = "none"] /\ data' = [data EXCEPT ![e] = << >>] /\ name' = name
        /\ \A c \in Entry : DirOf[c] = e => kind[c] = "none"
    BY <1>3, Zenon DEF Fs!Delete, Fs!Children
  <2> HIDE DEF e
  <2>2. Fs!NoOrphans'
    BY <1>1, <2>1, Zenon DEF Fs!NoOrphans, Fs!InDir
  <2>3. \A x \in Entry : Len(data'[x]) <= MaxSize /\ (kind'[x] # "file" => data'[x] = << >>)
    BY <1>1, <1>2, <2>1, SMTT(60)
  <2> QED
    BY <1>1, <1>2, <2>1, <2>2, <2>3, Zenon DEF FsTreeInv
<1>4. CASE Fs!Rename(g, h)
  <2>1. /\ kind[e] = "file" /\ kind[f] = "none" /\ Fs!InDir(f)
        /\ kind' = [kind EXCEPT ![e] = "none", ![f] = "file"]
        /\ name' = [name EXCEPT ![f] = h]
        /\ data' = [data EXCEPT ![e] = << >>, ![f] = data[e]]
    BY <1>4, Zenon DEF Fs!Rename
  <2> HIDE DEF e, f
  <2>2. e # f
    BY <2>1, Zenon
  <2>3. \A x \in Entry : (kind[x] = "dir" <=> kind'[x] = "dir") /\ (x # f /\ kind'[x] # "none" => kind[x] # "none")
    BY <1>1, <2>1, <2>2, Zenon
  <2>4. Fs!NoOrphans'
    BY <1>1, <2>1, <2>3, Zenon DEF Fs!NoOrphans, Fs!InDir
  <2>5. \A x \in Entry : Len(data'[x]) <= MaxSize /\ (kind'[x] # "file" => data'[x] = << >>)
    BY <1>1, <1>2, <2>1, <2>2, Zenon
  <2> QED
    BY <1>1, <1>2, <2>1, <2>4, <2>5, Zenon DEF FsTreeInv
<1>5. CASE Fs!Rmdir(g)
  <2> DEFINE gone == Fs!Below(e)
  <2>1. /\ kind' = [x \in Entry |-> IF x \in gone THEN "none" ELSE kind[x]]
        /\ data' = [x \in Entry |-> IF x \in gone THEN << >> ELSE data[x]]
        /\ name' = name
    BY <1>5, Zenon DEF Fs!Rmdir
  <2>2. \A c \in Entry : DirOf[c] \in gone => c \in gone
    BY <1>1, BelowClosed, Zenon
  <2> HIDE DEF gone
  <2>3. Fs!NoOrphans'
    BY <1>1, <2>1, <2>2, Zenon DEF Fs!NoOrphans, Fs!InDir
  <2>4. \A x \in Entry : Len(data'[x]) <= MaxSize /\ (kind'[x] # "file" => data'[x] = << >>)
    BY <1>1, <1>2, <2>1, SMTT(60)
  <2> QED
    BY <1>1, <1>2, <2>1, <2>3, <2>4, Zenon DEF FsTreeInv
<1> QED
  BY <1>3, <1>4, <1>5, Zenon

\* What one byte written at place k leaves of a file.
LEMMA Overwritten ==
    ASSUME NEW s \in Seq(Value), NEW k \in 0..Len(s), NEW v \in Value
    PROVE  LET t == SubSeq(s, 1, k) \o <<v>> \o SubSeq(s, k + 2, Len(s))
           IN  /\ t \in Seq(Value)
               /\ k = Len(s) => Len(t) = k + 1
               /\ k < Len(s) => Len(t) = Len(s)
               /\ \A i \in 1..Len(t) : t[i] = IF i = k + 1 THEN v ELSE s[i]
<1> DEFINE a == SubSeq(s, 1, k)
           b == SubSeq(s, k + 2, Len(s))
           c == a \o <<v>>
           t == c \o b
<1>1. a \in Seq(Value) /\ Len(a) = k /\ \A i \in 1..k : a[i] = s[i]
  BY SMTT(60)
<1>2. /\ b \in Seq(Value) /\ Len(b) \in Nat
      /\ k = Len(s) => Len(b) = 0
      /\ k < Len(s) => Len(b) = Len(s) - k - 1
  BY SMTT(60)
<1>3. \A i \in 1..Len(b) : b[i] = s[i + k + 1]
  BY SMTT(60)
<1> HIDE DEF a, b
<1>4. c \in Seq(Value) /\ Len(c) = k + 1
  BY <1>1, SMTT(60)
<1>5. \A i \in 1..(k + 1) : c[i] = IF i <= k THEN a[i] ELSE v
  BY <1>1, SMTT(60)
<1> HIDE DEF c
<1>6. t \in Seq(Value) /\ Len(t) = Len(c) + Len(b)
  BY <1>2, <1>4, SMTT(60)
<1>7. \A i \in 1..(Len(c) + Len(b)) : t[i] = IF i <= Len(c) THEN c[i] ELSE b[i - Len(c)]
  BY <1>2, <1>4, SMTT(60)
<1> HIDE DEF t
<1>8. (k = Len(s) => Len(t) = k + 1) /\ (k < Len(s) => Len(t) = Len(s))
  BY <1>2, <1>4, <1>6, SMTT(60)
<1>9. ASSUME NEW i \in 1..Len(t) PROVE t[i] = IF i = k + 1 THEN v ELSE s[i]
  <2>1. CASE i <= k + 1
    BY <1>1, <1>2, <1>4, <1>5, <1>6, <1>7, <2>1, SMTT(60)
  <2>2. CASE i > k + 1
    <3>1. t[i] = b[i - (k + 1)] /\ i - (k + 1) \in 1..Len(b)
      BY <1>2, <1>4, <1>6, <1>7, <2>2, SMTT(60)
    <3> QED
      BY <1>3, <2>2, <3>1, SMTT(120)
  <2> QED
    BY <1>2, <1>4, <1>6, <2>1, <2>2, SMTT(60)
<1> QED
  BY <1>6, <1>8, <1>9, Zenon DEF t, c, b, a

\* A write keeps a file within the bound.
LEMMA WriteSound ==
    ASSUME FsInv, NEW p \in Proc, NEW d \in Fs!Fd, NEW v \in Value, Fs!Write(p, d, v)
    PROVE  FsTreeInv'
<1> DEFINE g == fds[p][d]
           e == EntryOf[g]
           s == data[e]
           k == Fs!Place(g)
           t == SubSeq(s, 1, k) \o <<v>> \o SubSeq(s, k + 2, Len(s))
<1>1. /\ fds \in [Proc -> [Fs!Fd -> Path \cup {None}]] /\ data \in [Entry -> Seq(Value)]
      /\ fcbs \in [Path -> Fs!Fcb \cup {None}]
      /\ EntryOf \in [Path -> Entry] /\ None \notin Path /\ MaxSize \in Nat
      /\ \A x \in Entry : Len(data[x]) <= MaxSize /\ (kind[x] # "file" => data[x] = << >>)
  BY Zenon DEF FsInv, FsOpenInv, FsTreeInv, Fs!FsAssumption
<1>2. /\ g \in Path /\ fcbs[g] # None /\ fcbs[g].cursor < MaxSize /\ kind[e] = "file"
      /\ data' = [data EXCEPT ![e] = t] /\ kind' = kind /\ name' = name
  BY <1>1, SMTT(60) DEF Fs!Write, Fs!Usable
<1>3. k \in 0..Len(s) /\ k <= fcbs[g].cursor /\ fcbs[g].cursor \in Nat
  BY <1>1, <1>2, PlaceIsMin, SMTT(60) DEF Fs!Fcb
<1>4. e \in Entry /\ s \in Seq(Value) /\ Len(s) <= MaxSize
  BY <1>1, <1>2, Zenon
<1>5. t \in Seq(Value) /\ Len(t) <= MaxSize
  <2> HIDE DEF s, k
  <2>1. t \in Seq(Value) /\ (k = Len(s) => Len(t) = k + 1) /\ (k < Len(s) => Len(t) = Len(s))
    BY <1>3, <1>4, Overwritten, Zenon
  <2> HIDE DEF t
  <2> QED
    BY <1>1, <1>2, <1>3, <1>4, <2>1, SMTT(60)
<1> HIDE DEF t, e
<1>6. data' \in [Entry -> Seq(Value)] /\ \A x \in Entry : data'[x] = IF x = e THEN t ELSE data[x]
  BY <1>1, <1>2, <1>4, <1>5, Zenon
<1>7. Fs!NoOrphans'
  BY <1>2, Zenon DEF FsInv, FsTreeInv, Fs!NoOrphans, Fs!InDir
<1> QED
  BY <1>1, <1>2, <1>5, <1>6, <1>7, Zenon DEF FsInv, FsTreeInv

\* chmod and chown write records.
LEMMA RightsTyped ==
    ASSUME FsInv, NEW g \in Path,
           (\E mode \in Modes : Fs!Chmod(g, mode)) \/ \E q \in Proc : Fs!Chown(g, Uid[q])
    PROVE  perms' \in [Path -> Fs!Record \cup {None}]
<1>1. /\ perms \in [Path -> Fs!Record \cup {None}] /\ Modes \subseteq Nat
      /\ Uid \in [Proc -> Nat] /\ None \notin Fs!Record
  BY SMTT(60) DEF FsInv, Fs!FsAssumption
<1>2. ASSUME NEW mode \in Modes, Fs!Chmod(g, mode) PROVE perms' \in [Path -> Fs!Record \cup {None}]
  <2> DEFINE bits == mode % 256
             r == [perms[g] EXCEPT !.owner = bits \div 64, !.group = (bits \div 8) % 8, !.world = bits % 8]
  <2>1. bits \in 0..255
    BY <1>1, SMTT(60)
  <2>2. perms[g] \in Fs!Record /\ perms' = [perms EXCEPT ![g] = r]
    BY <1>1, <1>2, Zenon DEF Fs!Chmod
  <2> HIDE DEF bits
  <2>3. bits \div 64 \in 0..7 /\ (bits \div 8) % 8 \in 0..7 /\ bits % 8 \in 0..7
    BY <2>1, SMTT(60)
  <2>4. r \in Fs!Record
    BY <2>2, <2>3, Zenon DEF Fs!Record
  <2> QED
    BY <1>1, <2>2, <2>4, Zenon
<1>3. ASSUME NEW q \in Proc, Fs!Chown(g, Uid[q]) PROVE perms' \in [Path -> Fs!Record \cup {None}]
  <2>1. perms[g] # None => [perms[g] EXCEPT !.uid = Uid[q], !.gid = Uid[q]] \in Fs!Record
    BY <1>1, Zenon DEF Fs!Record
  <2>2. [uid |-> Uid[q], gid |-> Uid[q], owner |-> 7, group |-> 5, world |-> 5] \in Fs!Record
    BY <1>1, SMTT(60) DEF Fs!Record
  <2> QED
    BY <1>1, <1>3, <2>1, <2>2, ZenonT(60) DEF Fs!Chown
<1> QED
  BY <1>2, <1>3, Zenon

\* The parts of the invariant that a call leaves alone.
LEMMA FsOpenSame == FsInv /\ UNCHANGED <<fcbs, fds, nextFd>> => FsOpenInv'
BY SMTT(60) DEF FsInv, FsOpenInv, Fs!OneFcbPerFile, Fs!LockHasDescriptor

LEMMA FsTreeSame == FsInv /\ UNCHANGED <<kind, name, data>> => FsTreeInv'
BY Zenon DEF FsInv, FsTreeInv, Fs!NoOrphans, Fs!InDir

\* Every call keeps the invariant.
LEMMA FsStep == FsInv /\ [Fs!Next]_(Fs!vars) => FsInv'
<1> SUFFICES ASSUME FsInv, [Fs!Next]_(Fs!vars) PROVE FsInv'
  BY Zenon
<1>1. Fs!FsAssumption' /\ use' \in Uses
  BY SMTT(60) DEF FsInv, Fs!FsAssumption, Fs!Next, Fs!vars, Fs!AllOps, Fs!Fcb, Fs!Record
<1>2. perms \in [Path -> Fs!Record \cup {None}] /\ use.paths \subseteq Path
  BY Zenon DEF FsInv, Fs!FsAssumption
<1> SUFFICES FsOpenInv' /\ FsTreeInv' /\ perms' \in [Path -> Fs!Record \cup {None}]
  BY <1>1, Zenon DEF FsInv
<1>3. CASE UNCHANGED Fs!vars
  BY <1>2, <1>3, FsOpenSame, FsTreeSame, Zenon DEF Fs!vars, Fs!disk, Fs!open
<1>4. ASSUME NEW p \in Proc, NEW g \in Path, Fs!Open(p, g)
      PROVE  FsOpenInv' /\ FsTreeInv' /\ perms' \in [Path -> Fs!Record \cup {None}]
  BY <1>2, <1>4, TakeSound, FsTreeSame, Zenon DEF Fs!Open, Fs!disk
<1>5. ASSUME NEW p \in Proc, NEW g \in Path, Fs!Create(p, g)
      PROVE  FsOpenInv' /\ FsTreeInv' /\ perms' \in [Path -> Fs!Record \cup {None}]
  <2>1. FsTreeInv'
    BY <1>5, EntryAdded, Zenon
  <2> QED
    BY <1>2, <1>5, <2>1, TakeSound, Zenon DEF Fs!Create
<1>6. ASSUME NEW g \in Path, NEW p \in Proc, Fs!Mkdir(g)
      PROVE  FsOpenInv' /\ FsTreeInv' /\ perms' \in [Path -> Fs!Record \cup {None}]
  <2>1. FsTreeInv'
    BY <1>6, EntryAdded, Zenon
  <2> QED
    BY <1>2, <1>6, <2>1, FsOpenSame, Zenon DEF Fs!Mkdir, Fs!open
<1>7. ASSUME NEW g \in Path, Fs!Delete(g)
      PROVE  FsOpenInv' /\ FsTreeInv' /\ perms' \in [Path -> Fs!Record \cup {None}]
  <2>1. FsTreeInv'
    BY <1>7, EntryRemoved, Zenon
  <2>2. UNCHANGED <<fds, nextFd>> /\ fcbs' = [fcbs EXCEPT ![g] = None]
    BY <1>7, Zenon DEF Fs!Delete
  <2>3. FsOpenInv'
    BY <2>2, BlocksChange, Zenon
  <2> QED
    BY <1>2, <1>7, <2>1, <2>3, Zenon DEF Fs!Delete
<1>8. ASSUME NEW g \in Path, NEW h \in Path, Fs!Rename(g, h) \/ Fs!Rmdir(g)
      PROVE  FsOpenInv' /\ FsTreeInv' /\ perms' \in [Path -> Fs!Record \cup {None}]
  <2>1. FsTreeInv'
    BY <1>8, EntryRemoved, Zenon
  <2>2. UNCHANGED <<fcbs, fds, nextFd, perms>>
    BY <1>8, Zenon DEF Fs!Rename, Fs!Rmdir, Fs!open
  <2> QED
    BY <1>2, <2>1, <2>2, FsOpenSame, Zenon
<1>9. ASSUME NEW g \in Path, (\E mode \in Modes : Fs!Chmod(g, mode)) \/ \E q \in Proc : Fs!Chown(g, Uid[q])
      PROVE  FsOpenInv' /\ FsTreeInv' /\ perms' \in [Path -> Fs!Record \cup {None}]
  <2>1. UNCHANGED <<fcbs, fds, nextFd>> /\ UNCHANGED <<kind, name, data>>
    BY <1>9, Zenon DEF Fs!Chmod, Fs!Chown, Fs!disk, Fs!open
  <2> QED
    BY <1>9, <2>1, RightsTyped, FsOpenSame, FsTreeSame, Zenon
<1>10. ASSUME NEW p \in Proc, NEW d \in Fs!Fd, Fs!Close(p, d)
       PROVE  FsOpenInv' /\ FsTreeInv' /\ perms' \in [Path -> Fs!Record \cup {None}]
  <2>1. UNCHANGED <<kind, name, data>> /\ perms' = perms
    BY <1>10, Zenon DEF Fs!Close, Fs!disk
  <2> QED
    BY <1>2, <1>10, <2>1, CloseSound, FsTreeSame, Zenon
<1>11. ASSUME NEW p \in Proc, NEW d \in Fs!Fd, NEW v \in Value, Fs!Write(p, d, v)
       PROVE  FsOpenInv' /\ FsTreeInv' /\ perms' \in [Path -> Fs!Record \cup {None}]
  <2>1. FsTreeInv' /\ perms' = perms
    BY <1>11, WriteSound, Zenon DEF Fs!Write
  <2>2. FsOpenInv'
    BY <1>11, CallMoves, MovesKeep, Zenon
  <2> QED
    BY <1>2, <2>1, <2>2, Zenon
<1>12. ASSUME \/ \E g \in Path : Fs!MarkShared(g)
              \/ \E p \in Proc, d \in Fs!Fd : Fs!Read(p, d) \/ \E n \in 0..MaxSize : Fs!Seek(p, d, n)
       PROVE  FsOpenInv' /\ FsTreeInv' /\ perms' \in [Path -> Fs!Record \cup {None}]
  <2>1. UNCHANGED <<kind, name, data>> /\ perms' = perms
    BY <1>12, Zenon DEF Fs!Read, Fs!Seek, Fs!MarkShared, Fs!disk
  <2>2. FsOpenInv'
    BY <1>12, CallMoves, MovesKeep, MarkSound, Zenon
  <2> QED
    BY <1>2, <2>1, <2>2, FsTreeSame, Zenon
<1>13. CASE Fs!Next
  <2>1. PICK p \in Proc : Fs!Call(p)
    BY <1>13, Zenon DEF Fs!Next
  <2>2. CASE \E g \in use.paths :
                \/ Fs!Open(p, g) \/ Fs!Create(p, g) \/ Fs!Delete(g) \/ Fs!MarkShared(g) \/ Fs!Mkdir(g)
                \/ Fs!Rmdir(g)
                \/ \E h \in use.paths : Fs!Rename(g, h)
    BY <1>2, <1>4, <1>5, <1>6, <1>7, <1>8, <1>12, <2>2, Zenon
  <2>3. CASE \E g \in use.paths : (\E mode \in Modes : Fs!Chmod(g, mode)) \/ \E q \in Proc : Fs!Chown(g, Uid[q])
    BY <1>2, <1>9, <2>3, Zenon
  <2>4. CASE \E d \in Fs!Fd :
                \/ Fs!Close(p, d) \/ Fs!Read(p, d)
                \/ \E v \in Value : Fs!Write(p, d, v)
                \/ \E n \in 0..MaxSize : Fs!Seek(p, d, n)
    BY <1>10, <1>11, <1>12, <2>4, Zenon
  <2> QED
    BY <2>1, <2>2, <2>3, <2>4, Zenon DEF Fs!Call
<1> QED
  BY <1>3, <1>13, Zenon

\* Open files and the tree stay sound through every sequence of calls: two spellings
\* of a name never have a control block each, the holder of a file can always close
\* it, and what exists is in a directory that exists.
THEOREM FilesStaySound == Fs!FsAssumption /\ Fs!Spec => []FilesSound
<1>1. FsInv => FilesSound
  BY Zenon DEF FilesSound, FsInv, FsOpenInv, FsTreeInv, Fs!FilesSound, Fs!TypeOK
<1> QED
  BY FsInitSound, FsStep, <1>1, PTL DEF Fs!Spec

\* As long as names stay what they are, a descriptor stands for the control block
\* of its file, which its process holds.
FsHeld ==
    Fs!NamesStay =>
        /\ \A p \in Proc, d \in Fs!Fd : fds[p][d] # None =>
              /\ fcbs[fds[p][d]] # None /\ fcbs[fds[p][d]].lockedBy = p
              /\ kind[EntryOf[fds[p][d]]] = "file"
        /\ \A p \in Proc, c, d \in Fs!Fd : fds[p][c] # None /\ fds[p][c] = fds[p][d] => c = d

LEMMA FsHeldInit == Fs!FsAssumption /\ Fs!Init => FsHeld
BY SMTT(60) DEF Fs!FsAssumption, Fs!Init, FsHeld

\* open and create: the new descriptor is the only one of its file.
LEMMA TakeHeld ==
    ASSUME FsInv, FsHeld, NEW p \in Proc, NEW g \in Path, Fs!Open(p, g) \/ Fs!Create(p, g), use' = use
    PROVE  FsHeld'
<1> SUFFICES ASSUME Fs!NamesStay' PROVE FsHeld'
  BY Zenon DEF FsHeld
<1>1. /\ fcbs \in [Path -> Fs!Fcb \cup {None}]
      /\ fds \in [Proc -> [Fs!Fd -> Path \cup {None}]]
      /\ kind \in [Entry -> {"none", "file", "dir"}] /\ EntryOf \in [Path -> Entry]
      /\ None \notin Path /\ None \notin Fs!Fcb
  BY Zenon DEF FsInv, FsOpenInv, FsTreeInv, Fs!FsAssumption
<1>2. /\ Fs!Take(p, g) /\ nextFd[p] \in Fs!Fd /\ kind'[EntryOf[g]] = "file"
      /\ \A e \in Entry : kind[e] = "file" => kind'[e] = "file"
  BY <1>1, Zenon DEF Fs!Open, Fs!Create, Fs!disk
<1>3. /\ \A q \in Proc, d \in Fs!Fd : fds[q][d] # None =>
             /\ fcbs[fds[q][d]] # None /\ fcbs[fds[q][d]].lockedBy = q
             /\ kind[EntryOf[fds[q][d]]] = "file"
      /\ \A q \in Proc, c, d \in Fs!Fd : fds[q][c] # None /\ fds[q][c] = fds[q][d] => c = d
  BY Zenon DEF FsHeld, Fs!NamesStay
<1>4. CASE UNCHANGED <<fcbs, fds>>
  BY <1>1, <1>2, <1>3, <1>4, SMTT(60) DEF FsHeld
<1>5. CASE ~UNCHANGED <<fcbs, fds>>
  <2> DEFINE n == nextFd[p]
  <2>1. fcbs[g] = None /\ fcbs' = [fcbs EXCEPT ![g] = Fs!NewFcb(p)] /\ fds' = [fds EXCEPT ![p][n] = g]
    BY <1>2, <1>5, Zenon DEF Fs!Take, Fs!open
  <2>2. Fs!NewFcb(p) \in Fs!Fcb /\ Fs!NewFcb(p).lockedBy = p
    BY NewFcbIs, Zenon
  <2>3. /\ fcbs'[g] # None /\ fcbs'[g].lockedBy = p
        /\ \A h \in Path \ {g} : fcbs'[h] = fcbs[h]
    BY <1>1, <2>1, <2>2, Zenon
  <2>4. /\ fds'[p][n] = g
        /\ \A q \in Proc, d \in Fs!Fd : q # p \/ d # n => fds'[q][d] = fds[q][d]
    BY <1>1, <1>2, <2>1, Zenon
  <2>5. \A q \in Proc, d \in Fs!Fd : fds[q][d] # g
    BY <1>1, <1>3, <2>1, ZenonT(60)
  <2> HIDE DEF n
  <2>6. ASSUME NEW q \in Proc, NEW d \in Fs!Fd, fds'[q][d] # None
        PROVE  /\ fcbs'[fds'[q][d]] # None /\ fcbs'[fds'[q][d]].lockedBy = q
               /\ kind'[EntryOf[fds'[q][d]]] = "file"
    <3>1. CASE q = p /\ d = n
      BY <1>2, <2>3, <2>4, <3>1, Zenon
    <3>2. CASE q # p \/ d # n
      <4>1. fds'[q][d] = fds[q][d] /\ fds[q][d] \in Path \ {g}
        BY <1>1, <2>4, <2>5, <2>6, <3>2, SMTT(60)
      <4> QED
        BY <1>1, <1>2, <1>3, <2>3, <2>6, <4>1, SMTT(60)
    <3> QED
      BY <3>1, <3>2, Zenon
  <2>7. ASSUME NEW q \in Proc, NEW c \in Fs!Fd, NEW d \in Fs!Fd, fds'[q][c] # None, fds'[q][c] = fds'[q][d]
        PROVE  c = d
    BY <1>3, <2>4, <2>5, <2>7, SMTT(60)
  <2> QED
    BY <2>6, <2>7, SMTT(60) DEF FsHeld
<1> QED
  BY <1>4, <1>5, Zenon

\* close gives back the only descriptor of its file.
LEMMA CloseHeld ==
    ASSUME FsInv, FsHeld, NEW p \in Proc, NEW d \in Fs!Fd, Fs!Close(p, d), use' = use
    PROVE  FsHeld'
<1> SUFFICES ASSUME Fs!NamesStay' PROVE FsHeld'
  BY Zenon DEF FsHeld
<1> DEFINE g == fds[p][d]
<1>1. /\ fcbs \in [Path -> Fs!Fcb \cup {None}]
      /\ fds \in [Proc -> [Fs!Fd -> Path \cup {None}]]
      /\ None \notin Path /\ None \notin Fs!Fcb
  BY Zenon DEF FsInv, FsOpenInv, FsTreeInv, Fs!FsAssumption
<1>2. /\ g \in Path /\ fds' = [fds EXCEPT ![p][d] = None] /\ kind' = kind
      /\ \A h \in Path \ {g} : fcbs'[h] = fcbs[h]
  BY <1>1, SMTT(60) DEF Fs!Close, Fs!disk
<1>3. /\ \A q \in Proc, c \in Fs!Fd : fds[q][c] # None =>
             /\ fcbs[fds[q][c]] # None /\ fcbs[fds[q][c]].lockedBy = q
             /\ kind[EntryOf[fds[q][c]]] = "file"
      /\ \A q \in Proc, b, c \in Fs!Fd : fds[q][b] # None /\ fds[q][b] = fds[q][c] => b = c
  BY Zenon DEF FsHeld, Fs!NamesStay
<1>4. /\ fds'[p][d] = None
      /\ \A q \in Proc, c \in Fs!Fd : q # p \/ c # d => fds'[q][c] = fds[q][c]
  BY <1>1, <1>2, Zenon
<1>5. ASSUME NEW q \in Proc, NEW c \in Fs!Fd, fds'[q][c] # None
      PROVE  fds'[q][c] = fds[q][c] /\ fds[q][c] \in Path \ {g}
  BY <1>1, <1>2, <1>3, <1>4, <1>5, SMTT(60)
<1> HIDE DEF g
<1>6. ASSUME NEW q \in Proc, NEW c \in Fs!Fd, fds'[q][c] # None
      PROVE  /\ fcbs'[fds'[q][c]] # None /\ fcbs'[fds'[q][c]].lockedBy = q
             /\ kind'[EntryOf[fds'[q][c]]] = "file"
  BY <1>1, <1>2, <1>3, <1>5, <1>6, SMTT(60)
<1>7. ASSUME NEW q \in Proc, NEW b \in Fs!Fd, NEW c \in Fs!Fd, fds'[q][b] # None, fds'[q][b] = fds'[q][c]
      PROVE  b = c
  BY <1>3, <1>5, <1>7, SMTT(60)
<1> QED
  BY <1>6, <1>7, SMTT(60) DEF FsHeld

\* Every call keeps what descriptors stand for.
LEMMA FsHeldStep == FsInv /\ FsHeld /\ [Fs!Next]_(Fs!vars) => FsHeld'
<1> SUFFICES ASSUME FsInv, FsHeld, [Fs!Next]_(Fs!vars) PROVE FsHeld'
  BY Zenon
<1>1. use' = use
  BY Zenon DEF Fs!Next, Fs!vars
<1> SUFFICES ASSUME Fs!NamesStay PROVE FsHeld'
  BY <1>1, Zenon DEF FsHeld, Fs!NamesStay
<1>2. /\ fcbs \in [Path -> Fs!Fcb \cup {None}] /\ use.paths \subseteq Path
      /\ fds \in [Proc -> [Fs!Fd -> Path \cup {None}]]
      /\ None \notin Path /\ None \notin Fs!Fcb
  BY Zenon DEF FsInv, FsOpenInv, FsTreeInv, Fs!FsAssumption
<1>3. ASSUME UNCHANGED <<fds, kind>>,
             \A g \in Path : fcbs[g] # None => fcbs'[g] # None /\ fcbs'[g].lockedBy = fcbs[g].lockedBy
      PROVE  FsHeld'
  BY <1>2, <1>3, SMTT(60) DEF FsHeld, Fs!NamesStay
<1>4. ASSUME UNCHANGED <<fcbs, fds, kind>> PROVE FsHeld'
  BY <1>3, <1>4, Zenon
<1>5. ASSUME NEW p \in Proc, NEW d \in Fs!Fd,
             \/ Fs!Read(p, d)
             \/ \E v \in Value : Fs!Write(p, d, v)
             \/ \E n \in 0..MaxSize : Fs!Seek(p, d, n)
      PROVE  FsHeld'
  <2>1. UNCHANGED <<fds, kind>>
    BY <1>5, Zenon DEF Fs!Read, Fs!Write, Fs!Seek, Fs!disk
  <2>2. \E c : Moves(fds[p][d], c)
    BY <1>5, CallMoves, Zenon
  <2>3. \A g \in Path : fcbs[g] # None => fcbs'[g] # None /\ fcbs'[g].lockedBy = fcbs[g].lockedBy
    BY <2>2, MovesKeep, Zenon
  <2> QED
    BY <1>3, <2>1, <2>3, Zenon
<1>6. ASSUME NEW g \in Path, (\E mode \in Modes : Fs!Chmod(g, mode)) \/ \E q \in Proc : Fs!Chown(g, Uid[q])
      PROVE  FsHeld'
  BY <1>4, <1>6, Zenon DEF Fs!Chmod, Fs!Chown, Fs!disk, Fs!open
<1>7. CASE Fs!Next
  <2>1. PICK p \in Proc : Fs!Call(p)
    BY <1>7, Zenon DEF Fs!Next
  <2>2. CASE \E g \in use.paths : Fs!Open(p, g) \/ Fs!Create(p, g)
    BY <1>1, <1>2, <2>2, TakeHeld, Zenon
  <2>3. CASE \E g \in use.paths : (\E mode \in Modes : Fs!Chmod(g, mode)) \/ \E q \in Proc : Fs!Chown(g, Uid[q])
    BY <1>2, <1>6, <2>3, Zenon
  <2>4. CASE \E d \in Fs!Fd :
                \/ Fs!Close(p, d) \/ Fs!Read(p, d)
                \/ \E v \in Value : Fs!Write(p, d, v)
                \/ \E n \in 0..MaxSize : Fs!Seek(p, d, n)
    BY <1>1, <1>5, <2>4, CloseHeld, Zenon
  <2>5. \A g, h \in Path : ~Fs!Delete(g) /\ ~Fs!MarkShared(g) /\ ~Fs!Mkdir(g) /\ ~Fs!Rmdir(g) /\ ~Fs!Rename(g, h)
    BY Zenon DEF Fs!NamesStay, Fs!Delete, Fs!MarkShared, Fs!Mkdir, Fs!Rmdir, Fs!Rename
  <2> QED
    BY <1>2, <2>1, <2>2, <2>3, <2>4, <2>5, Zenon DEF Fs!Call
<1>8. CASE UNCHANGED Fs!vars
  BY <1>4, <1>8, Zenon DEF Fs!vars, Fs!disk, Fs!open
<1> QED
  BY <1>7, <1>8, Zenon

\* The control block of an entry is the one that programs see.
LEMMA HolderIs ==
    ASSUME Fs!OneFcbPerFile, None \notin Path, NEW e \in Entry
    PROVE  /\ \A g \in Path : fcbs[g] # None /\ EntryOf[g] = e => Fs!HolderOf(e) = g
           /\ (\A g \in Path : EntryOf[g] = e => fcbs[g] = None) => Fs!HolderOf(e) = None
<1> DEFINE gs == {g \in Path : fcbs[g] # None /\ EntryOf[g] = e}
<1>1. Fs!HolderOf(e) = IF gs = {} THEN None ELSE CHOOSE g \in gs : TRUE
  BY Zenon DEF Fs!HolderOf
<1>2. \A g, h \in gs : g = h
  BY Zenon DEF Fs!OneFcbPerFile
<1> QED
  BY <1>1, <1>2, Zenon

\* What programs see of an entry, by its control block if it has one.
LEMMA SeenIs ==
    ASSUME Fs!OneFcbPerFile, None \notin Path, Fs!NamesStay, NEW e \in Entry
    PROVE  /\ \A g \in Path : fcbs[g] # None /\ EntryOf[g] = e =>
                 Fs!Holders[e] = fcbs[g].lockedBy /\ Fs!Cursors[e] = fcbs[g].cursor
           /\ (\A g \in Path : EntryOf[g] = e => fcbs[g] = None) => Fs!Holders[e] = None /\ Fs!Cursors[e] = 0
           /\ Fs!Contents[e] = IF kind[e] = "file" THEN data[e] ELSE None
BY HolderIs, Zenon DEF Fs!Holders, Fs!Cursors, Fs!Contents, Fs!Seen

\* The same one step later.
LEMMA SeenNext ==
    ASSUME Fs!OneFcbPerFile', None \notin Path, Fs!NamesStay', NEW e \in Entry
    PROVE  /\ \A g \in Path : fcbs'[g] # None /\ EntryOf[g] = e =>
                 Fs!Holders'[e] = fcbs'[g].lockedBy /\ Fs!Cursors'[e] = fcbs'[g].cursor
           /\ (\A g \in Path : EntryOf[g] = e => fcbs'[g] = None) => Fs!Holders'[e] = None /\ Fs!Cursors'[e] = 0
           /\ Fs!Contents'[e] = IF kind'[e] = "file" THEN data'[e] ELSE None
<1> DEFINE gs == {g \in Path : fcbs'[g] # None /\ EntryOf[g] = e}
<1>1. Fs!HolderOf(e)' = IF gs = {} THEN None ELSE CHOOSE g \in gs : TRUE
  BY Zenon DEF Fs!HolderOf
<1>2. \A g, h \in gs : g = h
  BY Zenon DEF Fs!OneFcbPerFile
<1>3. /\ \A g \in Path : fcbs'[g] # None /\ EntryOf[g] = e => Fs!HolderOf(e)' = g
      /\ (\A g \in Path : EntryOf[g] = e => fcbs'[g] = None) => Fs!HolderOf(e)' = None
  BY <1>1, <1>2, Zenon
<1> QED
  BY <1>3, Zenon DEF Fs!Holders, Fs!Cursors, Fs!Contents, Fs!Seen

\* What the proofs of the steps below use of a state in which names stay.
LEMMA FsFacts ==
    ASSUME FsInv
    PROVE  /\ fcbs \in [Path -> Fs!Fcb \cup {None}]
           /\ fds \in [Proc -> [Fs!Fd -> Path \cup {None}]]
           /\ kind \in [Entry -> {"none", "file", "dir"}] /\ data \in [Entry -> Seq(Value)]
           /\ EntryOf \in [Path -> Entry] /\ use.paths \subseteq Path
           /\ None \notin Path /\ None \notin Fs!Fcb /\ None \notin Proc /\ None \notin Seq(Value)
           /\ Fs!OneFcbPerFile
           /\ \A e \in Entry : kind[e] # "file" => data[e] = << >>
BY Zenon DEF FsInv, FsOpenInv, FsTreeInv, Fs!FsAssumption

\* If the files that programs see are the same, they are the same functions.
LEMMA SeenSame ==
    ASSUME \A e \in Entry : /\ Fs!Holders'[e] = Fs!Holders[e] /\ Fs!Cursors'[e] = Fs!Cursors[e]
                            /\ Fs!Contents'[e] = Fs!Contents[e]
    PROVE  Fs!Files!Other
<1>1. /\ Fs!Holders = [e \in Entry |-> Fs!Holders[e]] /\ Fs!Holders' = [e \in Entry |-> Fs!Holders'[e]]
      /\ Fs!Cursors = [e \in Entry |-> Fs!Cursors[e]] /\ Fs!Cursors' = [e \in Entry |-> Fs!Cursors'[e]]
      /\ Fs!Contents = [e \in Entry |-> Fs!Contents[e]] /\ Fs!Contents' = [e \in Entry |-> Fs!Contents'[e]]
  BY Zenon DEF Fs!Holders, Fs!Cursors, Fs!Contents
<1>2. Fs!Holders' = Fs!Holders /\ Fs!Cursors' = Fs!Cursors /\ Fs!Contents' = Fs!Contents
  BY <1>1, Zenon
<1> QED
  BY <1>2, Zenon DEF Fs!Files!Other

\* If they change at one entry, they change there only.
LEMMA SeenChange ==
    ASSUME NEW x \in Entry,
           \A e \in Entry \ {x} : /\ Fs!Holders'[e] = Fs!Holders[e] /\ Fs!Cursors'[e] = Fs!Cursors[e]
                                  /\ Fs!Contents'[e] = Fs!Contents[e]
    PROVE  /\ Fs!Holders' = [Fs!Holders EXCEPT ![x] = Fs!Holders'[x]]
           /\ Fs!Cursors' = [Fs!Cursors EXCEPT ![x] = Fs!Cursors'[x]]
           /\ Fs!Contents' = [Fs!Contents EXCEPT ![x] = Fs!Contents'[x]]
<1>1. /\ Fs!Holders = [e \in Entry |-> Fs!Holders[e]] /\ Fs!Holders' = [e \in Entry |-> Fs!Holders'[e]]
      /\ Fs!Cursors = [e \in Entry |-> Fs!Cursors[e]] /\ Fs!Cursors' = [e \in Entry |-> Fs!Cursors'[e]]
      /\ Fs!Contents = [e \in Entry |-> Fs!Contents[e]] /\ Fs!Contents' = [e \in Entry |-> Fs!Contents'[e]]
  BY Zenon DEF Fs!Holders, Fs!Cursors, Fs!Contents
<1> QED
  BY <1>1, Zenon

\* The control blocks and the file of other entries decide what is seen of them.
LEMMA SeenElsewhere ==
    ASSUME Fs!OneFcbPerFile, Fs!OneFcbPerFile', None \notin Path, Fs!NamesStay, Fs!NamesStay', NEW e \in Entry,
           \A g \in Path : EntryOf[g] = e => fcbs'[g] = fcbs[g],
           kind'[e] = kind[e], data'[e] = data[e]
    PROVE  /\ Fs!Holders'[e] = Fs!Holders[e] /\ Fs!Cursors'[e] = Fs!Cursors[e]
           /\ Fs!Contents'[e] = Fs!Contents[e]
<1>1. CASE \E g \in Path : fcbs[g] # None /\ EntryOf[g] = e
  BY <1>1, SeenIs, SeenNext, SMTT(60)
<1>2. CASE \A g \in Path : EntryOf[g] = e => fcbs[g] = None
  BY <1>2, SeenIs, SeenNext, Zenon
<1> QED
  BY <1>1, <1>2, Zenon

\* An open file is a file of the volume.
LEMMA HeldIsFile ==
    ASSUME FsInv, FsHeld, Fs!NamesStay, NEW g \in Path, fcbs[g] # None
    PROVE  kind[EntryOf[g]] = "file"
<1>1. fcbs[g].lockedBy \in Proc
  BY FsFacts, Zenon DEF Fs!Fcb
<1>2. PICK d \in Fs!Fd : fds[fcbs[g].lockedBy][d] = g
  BY Zenon DEF FsInv, FsOpenInv, Fs!LockHasDescriptor
<1> QED
  BY <1>1, <1>2, FsFacts, SMTT(60) DEF FsHeld

\* open and create acquire a file, or find it taken.
LEMMA TakeMaps ==
    ASSUME FsInv, FsHeld, FsInv', Fs!NamesStay, use' = use, NEW p \in Proc, NEW g \in Path,
           Fs!Open(p, g) \/ Fs!Create(p, g)
    PROVE  Fs!Files!Other \/ Fs!Files!Acquire(p, EntryOf[g])
<1> DEFINE x == EntryOf[g]
<1>1. Fs!OneFcbPerFile' /\ Fs!NamesStay'
  BY Zenon DEF FsInv, FsOpenInv, Fs!NamesStay
<1>2. /\ x \in Entry /\ Fs!Take(p, g) /\ ~Fs!CaseConflict(g)
      /\ data' = data /\ kind' = [kind EXCEPT ![x] = "file"] /\ kind[x] # "dir"
  BY FsFacts, Zenon DEF Fs!Open, Fs!Create, Fs!disk
<1>3. CASE kind[x] = "file" /\ UNCHANGED fcbs
  <2>1. kind' = kind
    BY <1>2, <1>3, FsFacts, Zenon
  <2> QED
    BY <1>1, <1>2, <1>3, <2>1, FsFacts, SeenElsewhere, SeenSame, Zenon
<1>4. CASE fcbs[g] = None /\ fcbs' = [fcbs EXCEPT ![g] = Fs!NewFcb(p)]
  <2>1. /\ fcbs'[g] = Fs!NewFcb(p) /\ \A h \in Path \ {g} : fcbs'[h] = fcbs[h]
        /\ \A e \in Entry \ {x} : kind'[e] = kind[e] /\ data'[e] = data[e]
        /\ kind'[x] = "file" /\ data'[x] = data[x]
    BY <1>2, <1>4, FsFacts, Zenon
  <2>2. Fs!NewFcb(p) # None /\ Fs!NewFcb(p).lockedBy = p /\ Fs!NewFcb(p).cursor = 0
    BY NewFcbIs, Zenon
  <2>3. \A e \in Entry \ {x} : /\ Fs!Holders'[e] = Fs!Holders[e] /\ Fs!Cursors'[e] = Fs!Cursors[e]
                               /\ Fs!Contents'[e] = Fs!Contents[e]
    BY <1>1, <2>1, FsFacts, SeenElsewhere, Zenon
  <2>4. Fs!Holders[x] = None /\ Fs!Cursors[x] = 0
    <3>1. \A h \in Path : EntryOf[h] = x => fcbs[h] = None
      BY <1>2, <1>4, Zenon DEF Fs!CaseConflict
    <3> QED
      BY <1>2, <3>1, FsFacts, SeenIs, Zenon
  <2>5. Fs!Holders'[x] = p /\ Fs!Cursors'[x] = 0 /\ Fs!Contents'[x] = data[x]
    <3>1. g \in Path /\ fcbs'[g] # None /\ EntryOf[g] = x /\ None \notin Path
      BY <2>1, <2>2, FsFacts, Zenon
    <3>2. /\ Fs!Holders'[x] = fcbs'[g].lockedBy /\ Fs!Cursors'[x] = fcbs'[g].cursor
          /\ Fs!Contents'[x] = IF kind'[x] = "file" THEN data'[x] ELSE None
      BY <1>1, <1>2, <3>1, SeenNext, Zenon
    <3> QED
      BY <2>1, <2>2, <3>2, Zenon
  <2>6. Fs!Contents[x] = IF kind[x] = "file" THEN data[x] ELSE None
    BY <1>2, FsFacts, SeenIs, Zenon
  <2>7. /\ Fs!Holders' = [Fs!Holders EXCEPT ![x] = p]
        /\ Fs!Cursors' = [Fs!Cursors EXCEPT ![x] = 0]
        /\ Fs!Contents' = [Fs!Contents EXCEPT ![x] = data[x]]
    BY <1>2, <2>3, <2>5, SeenChange, Zenon
  <2>8. Fs!Cursors' = Fs!Cursors
    BY <1>2, <2>4, <2>7, Zenon DEF Fs!Cursors
  <2>9. CASE kind[x] = "file"
    <3>1. Fs!Contents[x] # None /\ Fs!Contents' = Fs!Contents
      BY <1>2, <2>6, <2>7, <2>9, FsFacts, SMTT(60) DEF Fs!Contents
    <3> QED
      BY <2>4, <2>7, <2>8, <3>1, Zenon DEF Fs!Files!Acquire
  <2>10. CASE kind[x] # "file"
    <3>1. Fs!Contents[x] = None /\ data[x] = << >>
      BY <1>2, <2>6, <2>10, FsFacts, Zenon
    <3> QED
      BY <2>4, <2>7, <2>8, <3>1, Zenon DEF Fs!Files!Acquire
  <2> QED
    BY <2>9, <2>10, Zenon
<1> QED
  <2>1. fcbs[g] # None => kind[x] = "file"
    BY HeldIsFile, Zenon
  <2> QED
    BY <1>2, <1>3, <1>4, <2>1, Zenon DEF Fs!Take, Fs!open

\* close releases the file.
LEMMA CloseMaps ==
    ASSUME FsInv, FsHeld, FsInv', Fs!NamesStay, use' = use, NEW p \in Proc, NEW d \in Fs!Fd, Fs!Close(p, d)
    PROVE  \E e \in Entry : Fs!Files!Release(p, e)
<1> DEFINE g == fds[p][d]
           x == EntryOf[g]
<1>1. Fs!OneFcbPerFile' /\ Fs!NamesStay'
  BY Zenon DEF FsInv, FsOpenInv, Fs!NamesStay
<1>2. g \in Path /\ x \in Entry /\ kind' = kind /\ data' = data
  BY FsFacts, SMTT(60) DEF Fs!Close, Fs!disk
<1>3. fcbs[g] # None /\ fcbs[g].lockedBy = p
  BY <1>2, FsFacts, ZenonT(60) DEF FsHeld
<1>4. fcbs' = [fcbs EXCEPT ![g] = None]
  <2>1. fcbs[g].count <= 1
    BY <1>2, <1>3, SMTT(60) DEF FsInv, FsOpenInv, Fs!LockHasDescriptor
  <2> QED
    BY <1>3, <2>1, Zenon DEF Fs!Close
<1>5. fcbs'[g] = None /\ \A h \in Path \ {g} : fcbs'[h] = fcbs[h]
  BY <1>2, <1>4, FsFacts, Zenon
<1>6. \A e \in Entry \ {x} : /\ Fs!Holders'[e] = Fs!Holders[e] /\ Fs!Cursors'[e] = Fs!Cursors[e]
                              /\ Fs!Contents'[e] = Fs!Contents[e]
  BY <1>1, <1>2, <1>5, FsFacts, SeenElsewhere, Zenon
<1>7. Fs!Holders[x] = p
  BY <1>2, <1>3, FsFacts, SeenIs, ZenonT(60)
<1>8. Fs!Holders'[x] = None /\ Fs!Cursors'[x] = 0 /\ Fs!Contents'[x] = Fs!Contents[x]
  <2>1. \A h \in Path : EntryOf[h] = x => fcbs'[h] = None
    BY <1>2, <1>3, <1>5, FsFacts, Zenon DEF Fs!OneFcbPerFile
  <2> QED
    BY <1>1, <1>2, <2>1, FsFacts, SeenIs, SeenNext, SMTT(60)
<1> HIDE DEF x
<1>9. /\ Fs!Holders' = [Fs!Holders EXCEPT ![x] = None]
      /\ Fs!Cursors' = [Fs!Cursors EXCEPT ![x] = 0]
      /\ Fs!Contents' = [Fs!Contents EXCEPT ![x] = Fs!Contents[x]]
  BY <1>2, <1>6, <1>8, SeenChange, Zenon
<1>10. Fs!Contents' = Fs!Contents
  BY <1>2, <1>9, Zenon DEF Fs!Contents
<1> QED
  BY <1>2, <1>7, <1>9, <1>10, Zenon DEF Fs!Files!Release

\* At most the bytes of entry x change.
WritesAt(x) == \A e \in Entry \ {x} : data'[e] = data[e]

\* What is seen of a call of p on file g that moves its cursor to c.
SeenMove(p, g, c) ==
    LET x == EntryOf[g]
    IN  /\ x \in Entry /\ Fs!Holders[x] = p /\ Fs!Cursors[x] = fcbs[g].cursor /\ Fs!Contents[x] = data[x]
        /\ Fs!Holders' = Fs!Holders
        /\ Fs!Cursors' = [Fs!Cursors EXCEPT ![x] = c]
        /\ Fs!Contents' = [Fs!Contents EXCEPT ![x] = data'[x]]

\* A call that moves the cursor of a file is seen at that file only, by its holder.
LEMMA MovesMaps ==
    ASSUME FsInv, FsHeld, FsInv', Fs!NamesStay, use' = use, NEW p \in Proc, NEW d \in Fs!Fd,
           fds[p][d] # None, NEW c, Moves(fds[p][d], c), kind' = kind,
           WritesAt(EntryOf[fds[p][d]])
    PROVE  SeenMove(p, fds[p][d], c)
<1> DEFINE g == fds[p][d]
           x == EntryOf[g]
<1>1. Fs!OneFcbPerFile' /\ Fs!NamesStay'
  BY Zenon DEF FsInv, FsOpenInv, Fs!NamesStay
<1>2. g \in Path /\ x \in Entry /\ fcbs[g] # None /\ fcbs[g].lockedBy = p /\ kind[x] = "file"
  BY FsFacts, SMTT(60) DEF FsHeld
<1>3. /\ fcbs'[g] # None /\ fcbs'[g].cursor = c /\ fcbs'[g].lockedBy = p
      /\ \A h \in Path \ {g} : fcbs'[h] = fcbs[h]
  BY <1>2, MovesKeep, ZenonT(60)
<1> HIDE DEF g
<1>4. \A e \in Entry \ {x} : /\ Fs!Holders'[e] = Fs!Holders[e] /\ Fs!Cursors'[e] = Fs!Cursors[e]
                              /\ Fs!Contents'[e] = Fs!Contents[e]
  BY <1>1, <1>2, <1>3, FsFacts, SeenElsewhere, Zenon DEF g, WritesAt
<1>5. Fs!Holders[x] = p /\ Fs!Cursors[x] = fcbs[g].cursor /\ Fs!Contents[x] = data[x]
  BY <1>2, FsFacts, SeenIs, Zenon
<1>6. Fs!Holders'[x] = p /\ Fs!Cursors'[x] = c /\ Fs!Contents'[x] = data'[x]
  BY <1>1, <1>2, <1>3, FsFacts, SeenNext, ZenonT(60)
<1> HIDE DEF x
<1>7. /\ Fs!Holders' = [Fs!Holders EXCEPT ![x] = p]
      /\ Fs!Cursors' = [Fs!Cursors EXCEPT ![x] = c]
      /\ Fs!Contents' = [Fs!Contents EXCEPT ![x] = data'[x]]
  BY <1>2, <1>4, <1>6, SeenChange, Zenon
<1>8. Fs!Holders' = Fs!Holders
  BY <1>2, <1>5, <1>7, Zenon DEF Fs!Holders
<1> QED
  BY <1>2, <1>5, <1>7, <1>8, Zenon DEF g, x, SeenMove

\* read is the read of the exclusive file, or finds its end.
LEMMA ReadMaps ==
    ASSUME FsInv, FsHeld, FsInv', Fs!NamesStay, use' = use, NEW p \in Proc, NEW d \in Fs!Fd, Fs!Read(p, d)
    PROVE  Fs!Files!Other \/ \E e \in Entry : Fs!Files!Read(p, e)
<1> DEFINE g == fds[p][d]
           x == EntryOf[g]
           len == Len(data[x])
           c == fcbs[g].cursor + (IF Fs!Place(g) < len THEN 1 ELSE 0)
<1>1. g # None /\ fcbs[g] # None /\ kind' = kind /\ data' = data
  BY Zenon DEF Fs!Read, Fs!Usable, Fs!disk
<1>2. g \in Path /\ x \in Entry /\ len \in Nat
  BY <1>1, FsFacts, SMTT(60)
<1>3. Moves(g, c)
  BY CallMoves, Zenon
<1>4. fcbs[g].cursor \in Nat
  BY <1>1, <1>2, FsFacts, SMTT(60) DEF Fs!Fcb
<1>5. /\ Fs!Place(g) \in 0..len
      /\ fcbs[g].cursor <= len => Fs!Place(g) = fcbs[g].cursor
      /\ fcbs[g].cursor > len => Fs!Place(g) = len
  BY <1>1, <1>2, PlaceIsMin, Zenon
<1> HIDE DEF c
<1>6. /\ Fs!Holders[x] = p /\ Fs!Cursors[x] = fcbs[g].cursor /\ Fs!Contents[x] = data[x]
      /\ Fs!Holders' = Fs!Holders /\ Fs!Cursors' = [Fs!Cursors EXCEPT ![x] = c]
      /\ Fs!Contents' = [Fs!Contents EXCEPT ![x] = data'[x]] /\ data' = data
  <2>1. WritesAt(EntryOf[fds[p][d]])
    BY <1>1, Zenon DEF WritesAt
  <2>2. SeenMove(p, fds[p][d], c)
    BY <1>1, <1>3, <2>1, MovesMaps, Zenon
  <2> QED
    BY <1>1, <2>2, Zenon DEF SeenMove
<1> HIDE DEF x
<1>7. Fs!Contents' = Fs!Contents
  BY <1>2, <1>6, Zenon DEF Fs!Contents
<1>8. CASE Fs!Place(g) < len
  <2>1. fcbs[g].cursor < len /\ c = fcbs[g].cursor + 1
    BY <1>2, <1>4, <1>5, <1>8, SMTT(60) DEF c
  <2> HIDE DEF g
  <2> QED
    BY <1>2, <1>6, <1>7, <2>1, Zenon DEF Fs!Files!Read
<1>9. CASE ~(Fs!Place(g) < len)
  <2>1. c = fcbs[g].cursor
    BY <1>4, <1>9, SMTT(60) DEF c
  <2>2. Fs!Cursors' = Fs!Cursors
    BY <1>2, <1>6, <2>1, Zenon DEF Fs!Cursors
  <2> QED
    BY <1>6, <1>7, <2>2, Zenon DEF Fs!Files!Other
<1> QED
  BY <1>8, <1>9, Zenon

\* write is the write of the exclusive file.
LEMMA WriteMaps ==
    ASSUME FsInv, FsHeld, FsInv', Fs!NamesStay, use' = use, NEW p \in Proc, NEW d \in Fs!Fd,
           NEW v \in Value, Fs!Write(p, d, v)
    PROVE  \E e \in Entry : Fs!Files!Write(p, e, v)
<1> DEFINE g == fds[p][d]
           x == EntryOf[g]
           len == Len(data[x])
           k == Fs!Place(g)
           t == SubSeq(data[x], 1, k) \o <<v>> \o SubSeq(data[x], k + 2, len)
           c == fcbs[g].cursor + 1
<1>1. g # None /\ fcbs[g] # None /\ kind' = kind /\ data' = [data EXCEPT ![x] = t]
  BY Zenon DEF Fs!Write, Fs!Usable
<1> HIDE DEF t
<1>2. g \in Path /\ x \in Entry /\ len \in Nat
  BY <1>1, FsFacts, SMTT(60)
<1>3. Moves(g, c)
  BY CallMoves, Zenon
<1>4. fcbs[g].cursor \in Nat
  BY <1>1, <1>2, FsFacts, SMTT(60) DEF Fs!Fcb
<1>5. data'[x] = t /\ \A e \in Entry \ {x} : data'[e] = data[e]
  BY <1>1, <1>2, FsFacts, Zenon
<1>6. k = Fs!Files!Min2(fcbs[g].cursor, len)
  <2>1. /\ k \in 0..len /\ k <= fcbs[g].cursor
        /\ fcbs[g].cursor <= len => k = fcbs[g].cursor
        /\ fcbs[g].cursor > len => k = len
    BY <1>1, <1>2, PlaceIsMin, Zenon
  <2> HIDE DEF k, len, g
  <2> QED
    BY <1>2, <1>4, <2>1, SMTT(60) DEF Fs!Files!Min2
<1> HIDE DEF c
<1>7. /\ Fs!Holders[x] = p /\ Fs!Cursors[x] = fcbs[g].cursor /\ Fs!Contents[x] = data[x]
      /\ Fs!Holders' = Fs!Holders /\ Fs!Cursors' = [Fs!Cursors EXCEPT ![x] = c]
      /\ Fs!Contents' = [Fs!Contents EXCEPT ![x] = t]
  <2>1. fds[p][d] # None /\ kind' = kind
    BY <1>1, Zenon
  <2>2. WritesAt(EntryOf[fds[p][d]])
    BY <1>5, Zenon DEF WritesAt
  <2>3. /\ Fs!Holders[x] = p /\ Fs!Cursors[x] = fcbs[g].cursor /\ Fs!Contents[x] = data[x]
        /\ Fs!Holders' = Fs!Holders /\ Fs!Cursors' = [Fs!Cursors EXCEPT ![x] = c]
        /\ Fs!Contents' = [Fs!Contents EXCEPT ![x] = data'[x]]
    <3>1. SeenMove(p, fds[p][d], c)
      BY <1>3, <2>1, <2>2, MovesMaps, Zenon
    <3> QED
      BY <3>1, Zenon DEF SeenMove
  <2> QED
    BY <1>5, <2>3, Zenon
<1> HIDE DEF x, g, k
<1> QED
  BY <1>2, <1>6, <1>7, Zenon DEF Fs!Files!Write, t, c

\* seek is the seek of the exclusive file.
LEMMA SeekMaps ==
    ASSUME FsInv, FsHeld, FsInv', Fs!NamesStay, use' = use, NEW p \in Proc, NEW d \in Fs!Fd,
           NEW n \in 0..MaxSize, Fs!Seek(p, d, n)
    PROVE  \E e \in Entry : Fs!Files!Seek(p, e, n)
<1> DEFINE g == fds[p][d]
           x == EntryOf[g]
<1>1. g # None /\ kind' = kind /\ data' = data
  BY Zenon DEF Fs!Seek, Fs!disk
<1>2. g \in Path /\ x \in Entry
  BY <1>1, FsFacts, SMTT(60)
<1>3. Moves(g, n)
  BY CallMoves, Zenon
<1>4. /\ Fs!Holders[x] = p /\ Fs!Contents[x] = data[x]
      /\ Fs!Holders' = Fs!Holders /\ Fs!Cursors' = [Fs!Cursors EXCEPT ![x] = n]
      /\ Fs!Contents' = [Fs!Contents EXCEPT ![x] = data'[x]] /\ data' = data
  <2>1. WritesAt(EntryOf[fds[p][d]])
    BY <1>1, Zenon DEF WritesAt
  <2>2. SeenMove(p, fds[p][d], n)
    BY <1>1, <1>3, <2>1, MovesMaps, Zenon
  <2> QED
    BY <1>1, <2>2, Zenon DEF SeenMove
<1> HIDE DEF x
<1>5. Fs!Contents' = Fs!Contents
  BY <1>2, <1>4, Zenon DEF Fs!Contents
<1> QED
  BY <1>2, <1>4, <1>5, Zenon DEF Fs!Files!Seek

\* Every call is a call of the exclusive files, or none.
LEMMA FsMaps ==
    ASSUME FsInv, FsHeld, FsInv', [Fs!Next]_(Fs!vars)
    PROVE  [Fs!Files!Next]_(Fs!Files!vars)
<1>1. use' = use
  BY Zenon DEF Fs!Next, Fs!vars
<1>2. ASSUME UNCHANGED <<kind, data, fcbs, use>> PROVE Fs!Files!Other
  <2>1. /\ Fs!NamesStay' = Fs!NamesStay /\ \A e \in Entry : Fs!HolderOf(e)' = Fs!HolderOf(e)
    BY <1>2, SMTT(60) DEF Fs!NamesStay, Fs!HolderOf
  <2>2. \A e \in Entry : /\ Fs!Holders'[e] = Fs!Holders[e] /\ Fs!Cursors'[e] = Fs!Cursors[e]
                         /\ Fs!Contents'[e] = Fs!Contents[e]
    BY <1>2, <2>1, Zenon DEF Fs!Holders, Fs!Cursors, Fs!Contents, Fs!Seen
  <2> QED
    BY <2>2, SeenSame, Zenon
<1>3. CASE UNCHANGED Fs!vars
  BY <1>2, <1>3, Zenon DEF Fs!vars, Fs!disk, Fs!open, Fs!Files!Other, Fs!Files!vars
<1>4. CASE Fs!Next /\ ~Fs!NamesStay
  <2>1. Fs!Files!Other
    <3>1. ~Fs!NamesStay'
      BY <1>1, <1>4, Zenon DEF Fs!NamesStay
    <3>2. \A e \in Entry : /\ Fs!Holders'[e] = Fs!Holders[e] /\ Fs!Cursors'[e] = Fs!Cursors[e]
                           /\ Fs!Contents'[e] = Fs!Contents[e]
      BY <1>4, <3>1, Zenon DEF Fs!Holders, Fs!Cursors, Fs!Contents, Fs!Seen
    <3> QED
      BY <3>2, SeenSame, Zenon
  <2> QED
    BY <1>4, <2>1, Zenon DEF Fs!Next, Fs!Call, Fs!Files!Next
<1>5. CASE Fs!Next /\ Fs!NamesStay
  <2>1. PICK p \in Proc : Fs!Call(p)
    BY <1>5, Zenon DEF Fs!Next
  <2>2. caller' = p
    BY <2>1, Zenon DEF Fs!Call
  <2>3. CASE \E g \in use.paths : Fs!Open(p, g) \/ Fs!Create(p, g)
    <3>1. PICK g \in use.paths : Fs!Open(p, g) \/ Fs!Create(p, g)
      BY <2>3, Zenon
    <3>2. g \in Path /\ EntryOf[g] \in Entry
      BY FsFacts, Zenon
    <3>3. Fs!Files!Other \/ Fs!Files!Acquire(p, EntryOf[g])
      BY <1>1, <1>5, <3>1, <3>2, TakeMaps, Zenon
    <3> QED
      BY <2>2, <3>2, <3>3, Zenon DEF Fs!Files!Next
  <2>4. CASE \E g \in use.paths : (\E mode \in Modes : Fs!Chmod(g, mode)) \/ \E q \in Proc : Fs!Chown(g, Uid[q])
    <3>1. Fs!Files!Other
      BY <1>1, <1>2, <2>4, Zenon DEF Fs!Chmod, Fs!Chown, Fs!disk, Fs!open
    <3> QED
      BY <2>2, <3>1, Zenon DEF Fs!Files!Next
  <2>5. CASE \E d \in Fs!Fd : Fs!Close(p, d)
    <3>1. \E e \in Entry : Fs!Files!Release(p, e)
      BY <1>1, <1>5, <2>5, CloseMaps, Zenon
    <3> QED
      BY <2>2, <3>1, Zenon DEF Fs!Files!Next
  <2>6. CASE \E d \in Fs!Fd : \/ Fs!Read(p, d)
                              \/ \E v \in Value : Fs!Write(p, d, v)
                              \/ \E n \in 0..MaxSize : Fs!Seek(p, d, n)
    <3>1. \/ Fs!Files!Other
          \/ \E e \in Entry : \/ Fs!Files!Read(p, e)
                              \/ \E v \in Value : Fs!Files!Write(p, e, v)
                              \/ \E n \in 0..MaxSize : Fs!Files!Seek(p, e, n)
      BY <1>1, <1>5, <2>6, ReadMaps, WriteMaps, SeekMaps, Zenon
    <3> QED
      BY <2>2, <3>1, Zenon DEF Fs!Files!Next
  <2>7. \A g, h \in Path : ~Fs!Delete(g) /\ ~Fs!MarkShared(g) /\ ~Fs!Mkdir(g) /\ ~Fs!Rmdir(g) /\ ~Fs!Rename(g, h)
    BY <1>5, Zenon DEF Fs!NamesStay, Fs!Delete, Fs!MarkShared, Fs!Mkdir, Fs!Rmdir, Fs!Rename
  <2> QED
    BY <2>1, <2>3, <2>4, <2>5, <2>6, <2>7, FsFacts, Zenon DEF Fs!Call
<1> QED
  BY <1>3, <1>4, <1>5, Zenon

\* The open-file layer keeps its promise: as long as no file is deleted, renamed or
\* marked as shared, each file is open in one process at most, which alone reads,
\* writes and moves it.
THEOREM FilesRefine == Fs!FsAssumption /\ Fs!Spec => ImplementsFiles
<1>1. Fs!FsAssumption /\ Fs!Init => Fs!Files!Init
  BY SMTT(60) DEF Fs!FsAssumption, Fs!Init, Fs!Files!Init, Fs!Contents, Fs!Holders, Fs!Cursors, Fs!Seen, Fs!HolderOf
<1> QED
  BY FsInitSound, FsStep, FsHeldInit, FsHeldStep, FsMaps, <1>1, PTL
  DEF ImplementsFiles, Fs!Spec, Fs!ImplementsFiles, Fs!Files!Spec
-----------------------------------------------------------------------------
\* Every call keeps the access lists lists of rights and the domain of a task a
\* domain.
LEMMA TypeStep == TypeOK /\ [Next]_vars => TypeOK'
<1> SUFFICES ASSUME TypeOK, [Next]_vars PROVE TypeOK'
    BY Zenon
<1> USE MatrixAssumption DEF TypeOK
<1>1. CASE UNCHANGED vars
    BY <1>1, Zenon DEF vars
<1>2. ASSUME NEW t \in Task, Logout(t) PROVE TypeOK'
    BY <1>2, Zenon DEF Logout
<1>3. ASSUME NEW t \in Task, NEW d \in Domain, NEW pw \in Password, Login(t, d, pw) PROVE TypeOK'
    BY <1>3, Zenon DEF Login
<1>4. ASSUME NEW t \in Task, NEW d \in Domain, NEW o \in Object, NEW rights \in SUBSET Right,
             Grant(t, d, o, rights) \/ Revoke(t, d, o, rights)
      PROVE  TypeOK'
    <2>1. PICK s \in SUBSET Right : acl' = [acl EXCEPT ![d][o] = s]
        <3>1. acl[d][o] \cup rights \in SUBSET Right /\ acl[d][o] \ rights \in SUBSET Right
            BY ZenonT(60)
        <3> QED
            BY <1>4, <3>1, Zenon DEF Grant, Revoke
    <2>2. [acl[d] EXCEPT ![o] = s] \in [Object -> SUBSET Right]
        BY Zenon
    <2>3. acl' = [acl EXCEPT ![d] = [acl[d] EXCEPT ![o] = s]]
        BY <2>1, Zenon
    <2>4. acl' \in [Domain -> [Object -> SUBSET Right]]
        BY <2>2, <2>3, Zenon
    <2> QED
        BY <1>4, <2>4, Zenon DEF Grant, Revoke
<1> QED
    BY <1>1, <1>2, <1>3, <1>4, Zenon DEF Next

\* The matrix always holds sets of rights, and every task acts in some domain.
THEOREM AccessType == Spec => []TypeOK
<1>1. Init => TypeOK
    BY MatrixAssumption, Zenon DEF Init, TypeOK
<1> QED
    BY <1>1, TypeStep, PTL DEF Spec

\* A call that changes the lists is a grant or a revoke by a domain that may.
LEMMA ListsChange ==
    ASSUME TypeOK, [Next]_vars
    PROVE  \/ acl' = acl
           \/ \E c, d \in Domain, o \in Object, rights \in SUBSET Right :
                 \/ MayGrant(c, o, rights) /\ acl' = [acl EXCEPT ![d][o] = @ \cup rights]
                 \/ {Owner, Control} \cap Access(c, o) # {} /\ acl' = [acl EXCEPT ![d][o] = @ \ rights]
<1>1. CASE UNCHANGED vars
    BY <1>1, Zenon DEF vars
<1>2. ASSUME NEW t \in Task, Logout(t) PROVE acl' = acl
    BY <1>2, Zenon DEF Logout
<1>3. ASSUME NEW t \in Task, NEW d \in Domain, NEW pw \in Password, Login(t, d, pw) PROVE acl' = acl
    BY <1>3, Zenon DEF Login
<1>4. ASSUME NEW t \in Task, NEW d \in Domain, NEW o \in Object, NEW rights \in SUBSET Right,
             Grant(t, d, o, rights) \/ Revoke(t, d, o, rights)
      PROVE  \E c \in Domain :
                 \/ MayGrant(c, o, rights) /\ acl' = [acl EXCEPT ![d][o] = @ \cup rights]
                 \/ {Owner, Control} \cap Access(c, o) # {} /\ acl' = [acl EXCEPT ![d][o] = @ \ rights]
    <2>1. uid[t] \in Domain
        BY Zenon DEF TypeOK
    <2> QED
        BY <1>4, <2>1, Zenon DEF Grant, Revoke
<1>5. CASE Next
    <2>1. PICK t \in Task :
              \/ Logout(t)
              \/ \E d \in Domain :
                    \/ \E pw \in Password : Login(t, d, pw)
                    \/ \E o \in Object, rights \in SUBSET Right : Grant(t, d, o, rights) \/ Revoke(t, d, o, rights)
        BY <1>5, Zenon DEF Next
    <2>2. CASE Logout(t)
        BY <1>2, <2>2, Zenon
    <2>3. ASSUME NEW d \in Domain, \E pw \in Password : Login(t, d, pw) PROVE acl' = acl
        BY <1>3, <2>3, Zenon
    <2>4. ASSUME NEW d \in Domain, NEW o \in Object, NEW rights \in SUBSET Right,
                 Grant(t, d, o, rights) \/ Revoke(t, d, o, rights)
          PROVE  \E c, e \in Domain, b \in Object, rs \in SUBSET Right :
                     \/ MayGrant(c, b, rs) /\ acl' = [acl EXCEPT ![e][b] = @ \cup rs]
                     \/ {Owner, Control} \cap Access(c, b) # {} /\ acl' = [acl EXCEPT ![e][b] = @ \ rs]
        <3>1. PICK c \in Domain :
                  \/ MayGrant(c, o, rights) /\ acl' = [acl EXCEPT ![d][o] = @ \cup rights]
                  \/ {Owner, Control} \cap Access(c, o) # {} /\ acl' = [acl EXCEPT ![d][o] = @ \ rights]
            BY <1>4, <2>4, SMTT(60)
        <3>2. \E rs \in SUBSET Right :
                  \/ MayGrant(c, o, rs) /\ acl' = [acl EXCEPT ![d][o] = @ \cup rs]
                  \/ {Owner, Control} \cap Access(c, o) # {} /\ acl' = [acl EXCEPT ![d][o] = @ \ rs]
            BY <3>1, ZenonT(60)
        <3> QED
            BY <3>2, ZenonT(60)
    <2> QED
        BY <2>1, <2>2, <2>3, <2>4, Zenon
<1> QED
    BY <1>1, <1>5, Zenon

\* One call on an object that nobody governs leaves it so, with the same rights.
LEMMA ConservedStep ==
    ASSUME TypeOK, [Next]_vars, NEW b \in Object, Ungoverned(b)
    PROVE  Ungoverned(b)' /\ Present(b)' = Present(b)
<1>1. CASE acl' = acl
    BY <1>1, Zenon DEF Ungoverned, Present, Access
<1>2. ASSUME NEW c \in Domain, NEW d \in Domain, NEW o \in Object, NEW rights \in SUBSET Right,
             \/ MayGrant(c, o, rights) /\ acl' = [acl EXCEPT ![d][o] = @ \cup rights]
             \/ {Owner, Control} \cap Access(c, o) # {} /\ acl' = [acl EXCEPT ![d][o] = @ \ rights]
      PROVE  Ungoverned(b)' /\ Present(b)' = Present(b)
    <2>1. CASE o # b
        <3>1. \A e \in Domain : acl'[e][b] = acl[e][b]
            BY <1>2, <2>1, SMTT(60) DEF TypeOK
        <3>2. \A e \in Domain : Access(e, b)' = Access(e, b)
            BY <3>1, Zenon DEF Access
        <3> QED
            BY <3>2, Zenon DEF Ungoverned, Present
    <2>2. CASE o = b
        <3>1. {Owner, Control} \cap Access(c, b) = {}
            BY Zenon DEF Ungoverned
        <3>2. /\ rights \subseteq Access(c, b)
              /\ acl' = [acl EXCEPT ![d][b] = @ \cup rights]
            BY <1>2, <2>2, <3>1, Zenon DEF MayGrant
        <3>3. \A e \in Domain : acl'[e][b] = IF e = d THEN acl[e][b] \cup rights ELSE acl[e][b]
            BY <3>2, Zenon DEF TypeOK
        <3>4. \A e \in Domain : Access(e, b)' = IF e = d THEN Access(e, b) \cup rights ELSE Access(e, b)
            BY <3>3, Zenon DEF Access
        <3>5. Ungoverned(b)'
            <4>1. {Owner, Control} \cap rights = {}
                BY <3>1, <3>2, Zenon
            <4>2. \A e \in Domain : {Owner, Control} \cap Access(e, b) = {}
                BY Zenon DEF Ungoverned
            <4> QED
                BY <3>4, <4>1, <4>2, Zenon DEF Ungoverned
        <3>6. \A r : (\E e \in Domain : r \in Access(e, b)') <=> (\E e \in Domain : r \in Access(e, b))
            BY <3>2, <3>4, Zenon
        <3>7. Present(b)' = Present(b)
            BY <3>6, Zenon DEF Present
        <3> QED
            BY <3>5, <3>7, Zenon
    <2> QED
        BY <2>1, <2>2, Zenon
<1> QED
    BY <1>1, <1>2, ListsChange, Zenon

\* An object without an owner or a controller at boot never gets one, and the
\* rights on it are those of boot, wherever holders of copy have passed them.
THEOREM RightsConserved == Spec => []RightsAreConserved
<1>1. Init => RightsAreConserved
    BY Zenon DEF Init, RightsAreConserved, Ungoverned, Present, Access
<1>2. TypeOK /\ RightsAreConserved /\ [Next]_vars => RightsAreConserved'
    <2> SUFFICES ASSUME TypeOK, RightsAreConserved, [Next]_vars, NEW o \in Object,
                        \A d \in Domain : {Owner, Control} \cap (InitAcl[d][o] \cup RoleRights[d]) = {}
                 PROVE  /\ Ungoverned(o)'
                        /\ Present(o)' = UNION {InitAcl[d][o] \cup RoleRights[d] : d \in Domain}
        BY Zenon DEF RightsAreConserved
    <2>1. /\ Ungoverned(o)
          /\ Present(o) = UNION {InitAcl[d][o] \cup RoleRights[d] : d \in Domain}
        BY Zenon DEF RightsAreConserved
    <2>2. Ungoverned(o)' /\ Present(o)' = Present(o)
        BY <2>1, ConservedStep, Zenon
    <2> QED
        BY <2>1, <2>2, Zenon
<1> QED
    BY <1>1, <1>2, AccessType, PTL DEF Spec

\* A right disappears from an access list only by a revoke on an object that
\* some domain owns or controls.
THEOREM RevokeIsGoverned == Spec => OnlyGovernedShrinks
<1>1. TypeOK /\ [Next]_vars =>
          [\A d \in Domain, o \in Object : ~(acl[d][o] \subseteq acl'[d][o]) => ~Ungoverned(o)]_vars
    <2> SUFFICES ASSUME TypeOK, [Next]_vars, NEW e \in Domain, NEW b \in Object,
                        ~(acl[e][b] \subseteq acl'[e][b])
                 PROVE  ~Ungoverned(b)
        BY Zenon
    <2>1. acl' # acl
        BY Zenon
    <2>2. PICK c \in Domain, d \in Domain, o \in Object, rights \in SUBSET Right :
              \/ MayGrant(c, o, rights) /\ acl' = [acl EXCEPT ![d][o] = @ \cup rights]
              \/ {Owner, Control} \cap Access(c, o) # {} /\ acl' = [acl EXCEPT ![d][o] = @ \ rights]
        BY <2>1, ListsChange, Zenon
    <2>3. ASSUME acl' = [acl EXCEPT ![d][o] = @ \cup rights] PROVE FALSE
        <3>1. acl'[e][b] = acl[e][b] \/ acl'[e][b] = acl[e][b] \cup rights
            BY <2>3, Zenon DEF TypeOK
        <3> QED
            BY <3>1, Zenon
    <2>4. {Owner, Control} \cap Access(c, o) # {} /\ acl' = [acl EXCEPT ![d][o] = @ \ rights]
        BY <2>2, <2>3, Zenon
    <2>5. ASSUME o # b PROVE FALSE
        <3>1. acl'[e][b] = acl[e][b]
            BY <2>4, <2>5, Zenon DEF TypeOK
        <3> QED
            BY <3>1, Zenon
    <2> QED
        BY <2>4, <2>5, Zenon DEF Ungoverned
<1> QED
    BY <1>1, AccessType, PTL DEF Spec, OnlyGovernedShrinks
-----------------------------------------------------------------------------
\* Table t is what a load makes of the first n records: the last clean one of each key.
Reads(records, n, t) ==
    \A k \in Domains!Key :
      \/ t[k] = Absent /\ \A i \in 1..n : records[i].key = k => records[i].dirty
      \/ \E i \in 1..n : /\ records[i].key = k /\ ~records[i].dirty /\ t[k] = records[i].value
                         /\ \A j \in (i + 1)..n : records[j].key = k => records[j].dirty

\* The record that a repair writes for key k.
Clean(k) == [dirty |-> FALSE, key |-> k, value |-> table[k]]

DomType ==
    /\ Domains!DomainAssumption
    /\ before \in Seq(Domains!Record) /\ Len(before) <= MaxRecords
    /\ file \in Seq(Domains!Record) /\ Len(file) <= MaxRecords
    /\ torn \in BOOLEAN /\ garbled \in BOOLEAN /\ dirty \in BOOLEAN /\ faulty \in BOOLEAN
    /\ table \in [Domains!Key -> Setting \cup {Absent}]
    /\ spc \in {"load", "repair", "done"} /\ spos \in 0..MaxRecords

\* While the file is read it is as it was, and the table has what was read so far.
LoadInv ==
    spc = "load" =>
      /\ file = before /\ spos <= Len(before) /\ ~garbled /\ ~faulty
      /\ Reads(before, spos, table)
      /\ dirty <=> \E i \in 1..spos : before[i].dirty

\* A repair has the last keys of the table still to write.  Without faults the first
\* records of the file are those of the other keys.
RepairInv ==
    LET q == Domains!Keys
    IN  spc = "repair" =>
          /\ todo \in Seq(Domains!Key) /\ Len(todo) <= Len(q)
          /\ \A i \in 1..Len(todo) : todo[i] = q[Len(q) - Len(todo) + i]
          /\ spos <= Len(q) - Len(todo) /\ spos <= Len(file)
          /\ garbled => faulty
          /\ ~faulty => /\ spos = Len(q) - Len(todo)
                        /\ Reads(before, Len(before), table)
                        /\ \A i \in 1..spos : file[i] = Clean(q[i])

DoneInv ==
    spc = "done" /\ ~faulty =>
      /\ Reads(before, Len(before), table) /\ Reads(file, Len(file), table)
      /\ ~torn /\ \A i \in 1..Len(file) : ~file[i].dirty

\* Nothing is made up: clean records, in the table or the file, are of the old file.
OldInv ==
    /\ \A k \in Domains!Key : table[k] # Absent => \E i \in 1..Len(before) : before[i] = Clean(k)
    /\ \A i \in 1..Len(file) : ~file[i].dirty => \E j \in 1..Len(before) : before[j] = file[i]

DomInv == DomType /\ LoadInv /\ RepairInv /\ DoneInv /\ OldInv

LEMMA KeyInt == Domains!DomainAssumption => \A k \in Domains!Key : k \in Int
    BY SMTT(60) DEF Domains!DomainAssumption, Domains!Key

\* SystemDomain counts as its users do.
LEMMA SameCount == \A S : Domains!Cardinality(S) = Cardinality(S)
    BY Zenon DEF Cardinality, Domains!Cardinality

\* A set of keys in order: each of them once.
LEMMA OrderedKeys ==
    ASSUME NEW S \in SUBSET Int, IsFiniteSet(S)
    PROVE  /\ Cardinality(S) \in Nat
           /\ Domains!InOrder(S) \in [1..Cardinality(S) -> S]
           /\ \A i, j \in 1..Cardinality(S) : i < j => Domains!InOrder(S)[i] < Domains!InOrder(S)[j]
           /\ \A v \in S : \E i \in 1..Cardinality(S) : Domains!InOrder(S)[i] = v
<1> DEFINE n == Cardinality(S)
           down(v) == {w \in S : w <= v}
           rank == [v \in S |-> Cardinality(down(v))]
           d == Domains!InOrder(S)
<1>0. \A u \in S : u \in Int
    BY Zenon
<1>1. n \in Nat
    BY FS_CardinalityType, ZenonT(60)
<1>2. \A v \in S : IsFiniteSet(down(v)) /\ Cardinality(down(v)) \in 1..n
    <2> TAKE v \in S
    <2>1. IsFiniteSet(down(v)) /\ Cardinality(down(v)) <= n
        BY FS_Subset, Zenon
    <2>2. Cardinality(down(v)) \in Nat
        BY <2>1, FS_CardinalityType, ZenonT(60)
    <2>3. v \in down(v)
        BY SMTT(60)
    <2>4. Cardinality(down(v)) # 0
        BY <2>1, <2>3, FS_EmptySet, ZenonT(60)
    <2> QED
        BY <1>1, <2>1, <2>2, <2>4, SMTT(60)
<1>3. ASSUME NEW v \in S, NEW w \in S, v < w PROVE rank[v] < rank[w]
    <2>1. /\ \A u \in down(v) : u \in down(w)
          /\ w \in down(w) /\ w \notin down(v)
        BY <1>0, <1>3, SMTT(60)
    <2>2. Cardinality(down(v)) <= Cardinality(down(w)) /\ Cardinality(down(w)) # Cardinality(down(v))
        BY <1>2, <2>1, FS_Subset, ZenonT(60)
    <2> QED
        BY <1>1, <1>2, <2>2, SMTT(60)
<1>4. rank \in [S -> 1..n]
    BY <1>2, ZenonT(60)
<1> HIDE DEF rank, down
<1>5. \A v, w \in S : rank[v] = rank[w] => v = w
    BY <1>1, <1>3, <1>4, SMTT(60)
<1>6. rank \in Injection(S, 1..n)
    BY <1>4, <1>5, ZenonT(60) DEF Injection, IsInjective
<1>7. IsFiniteSet(1..n) /\ Cardinality(1..n) = n
    BY <1>1, FS_Interval, SMTT(60)
<1>8. rank \in Surjection(S, 1..n)
    BY <1>6, <1>7, FS_Injection, Zenon
<1>9. \A i \in 1..n : \E v \in S : rank[v] = i
    BY <1>8, Zenon DEF Surjection
<1> DEFINE e == [i \in 1..n |-> CHOOSE v \in S : rank[v] = i]
<1>10. e \in [1..n -> S] /\ \A i \in 1..n : rank[e[i]] = i
    BY <1>9, Zenon
<1>11. \A i, j \in 1..n : i < j => e[i] < e[j]
    <2> HIDE DEF e
    <2> TAKE i, j \in 1..n
    <2> HAVE i < j
    <2>1. e[i] \in S /\ e[j] \in S /\ rank[e[i]] = i /\ rank[e[j]] = j
        BY <1>10, ZenonT(60)
    <2>2. e[i] \in Int /\ e[j] \in Int
        BY <1>0, <2>1, ZenonT(60)
    <2>3. i \in Int /\ j \in Int
        BY <1>1, SMTT(60)
    <2>4. ASSUME e[j] < e[i] PROVE FALSE
        <3>1. rank[e[j]] < rank[e[i]]
            BY <1>3, <2>1, <2>4, Zenon
        <3> QED
            BY <2>1, <2>3, <3>1, SMTT(60)
    <2>5. e[i] # e[j]
        BY <2>1, <2>3, SMTT(60)
    <2> QED
        BY <2>2, <2>4, <2>5, SMTT(60)
<1>12. d \in [1..n -> S] /\ \A i, j \in 1..n : i < j => d[i] < d[j]
    BY <1>10, <1>11, SameCount, ZenonT(60) DEF Domains!InOrder
<1> HIDE DEF d, e
<1>13. \A i, j \in 1..n : d[i] = d[j] => i = j
    <2>0. \A i \in 1..n : d[i] \in Int
        BY <1>0, <1>12, ZenonT(60)
    <2>1. \A i \in 1..n : d[i] \in Int /\ i \in Int
        BY <1>1, <2>0, SMTT(60)
    <2> QED
        BY <1>12, <2>1, SMTT(60)
<1>14. d \in Injection(1..n, S)
    BY <1>12, <1>13, Zenon DEF Injection, IsInjective
<1>15. d \in Surjection(1..n, S)
    BY <1>7, <1>14, FS_Injection, Zenon DEF n
<1> QED
    BY <1>1, <1>12, <1>15, ZenonT(60) DEF Surjection, d, n

\* iter() gives the keys of the table, each once.
LEMMA KeysOfTable ==
    ASSUME Domains!DomainAssumption
    PROVE  LET q == Domains!Keys
           IN  /\ q \in Seq(Domains!Key)
               /\ \A i \in 1..Len(q) : table[q[i]] # Absent
               /\ \A i, j \in 1..Len(q) : q[i] = q[j] => i = j
               /\ \A k \in Domains!Key : table[k] # Absent => \E i \in 1..Len(q) : q[i] = k
<1> DEFINE S == {k \in Domains!Key : table[k] # Absent}
           q == Domains!Keys
           n == Cardinality(S)
<1>1. \A k \in Domains!Key : k \in Int
    BY KeyInt, ZenonT(60)
<1>2. S \in SUBSET Int
    BY <1>1, ZenonT(60)
<1>3. IsFiniteSet(Domains!Key)
    BY FS_Interval, SMTT(60) DEF Domains!DomainAssumption, Domains!Key
<1>4. IsFiniteSet(S)
    BY <1>3, FS_Subset, ZenonT(60)
<1>5. q = Domains!InOrder(S)
    BY Zenon DEF Domains!Keys
<1>6. /\ n \in Nat
      /\ q \in [1..n -> S]
      /\ \A i, j \in 1..n : i < j => q[i] < q[j]
      /\ \A v \in S : \E i \in 1..n : q[i] = v
    BY <1>2, <1>4, <1>5, OrderedKeys, ZenonT(60)
<1> HIDE DEF q, n
<1>7. q \in Seq(Domains!Key) /\ Len(q) = n
    BY <1>6, SMTT(60)
<1>8. \A i \in 1..n : q[i] \in S
    BY <1>6, Zenon
<1>9. \A i, j \in 1..n : q[i] = q[j] => i = j
    <2> TAKE i, j \in 1..n
    <2>1. q[i] \in Int /\ q[j] \in Int /\ i \in Int /\ j \in Int
        BY <1>2, <1>6, <1>8, SMTT(60)
    <2>2. (i < j => q[i] < q[j]) /\ (j < i => q[j] < q[i])
        BY <1>6, Zenon
    <2> QED
        BY <2>1, <2>2, SMTT(60)
<1>10. \A k \in Domains!Key : table[k] # Absent => \E i \in 1..n : q[i] = k
    BY <1>6, Zenon
<1>11. \A i \in 1..n : table[q[i]] # Absent
    BY <1>8, Zenon
<1> QED
    BY <1>7, <1>9, <1>10, <1>11, ZenonT(60) DEF q

\* The table has no more keys than the old file had records, so that a repair does not
\* make the file longer.
LEMMA KeysFit ==
    ASSUME DomType, OldInv
    PROVE  Len(Domains!Keys) <= Len(before)
<1> DEFINE q == Domains!Keys
           f == [i \in 1..Len(q) |-> CHOOSE j \in 1..Len(before) : before[j] = Clean(q[i])]
<1>1. /\ q \in Seq(Domains!Key)
      /\ \A i \in 1..Len(q) : table[q[i]] # Absent
      /\ \A i, j \in 1..Len(q) : q[i] = q[j] => i = j
    BY KeysOfTable, ZenonT(60) DEF DomType
<1> HIDE DEF q
<1>2. Len(q) \in Nat /\ Len(before) \in Nat /\ \A i \in 1..Len(q) : q[i] \in Domains!Key
    BY <1>1, SMTT(60) DEF DomType
<1>3. \A i \in 1..Len(q) : \E j \in 1..Len(before) : before[j] = Clean(q[i])
    BY <1>1, <1>2, Zenon DEF OldInv
<1>4. f \in [1..Len(q) -> 1..Len(before)] /\ \A i \in 1..Len(q) : before[f[i]] = Clean(q[i])
    BY <1>3, Zenon
<1> HIDE DEF f
<1>5. \A i, j \in 1..Len(q) : Clean(q[i]) = Clean(q[j]) => q[i] = q[j]
    BY Zenon DEF Clean
<1>6. \A i, j \in 1..Len(q) : f[i] = f[j] => i = j
    BY <1>1, <1>4, <1>5, SMTT(60)
<1>7. f \in Injection(1..Len(q), 1..Len(before))
    BY <1>4, <1>6, Zenon DEF Injection, IsInjective
<1>8. \A n \in Nat : IsFiniteSet(1..n) /\ Cardinality(1..n) = n
    BY FS_Interval, SMTT(60)
<1>9. Cardinality(1..Len(q)) <= Cardinality(1..Len(before))
    BY <1>2, <1>7, <1>8, FS_Injection, Zenon
<1> QED
    BY <1>2, <1>8, <1>9, ZenonT(60) DEF q

\* What the steps of a load make of a file is Contents.
LEMMA ReadsContents ==
    ASSUME NEW records \in Seq(Domains!Record), NEW t \in [Domains!Key -> Setting \cup {Absent}],
           Reads(records, Len(records), t)
    PROVE  Domains!Contents(records) = t
<1> DEFINE hits(k) == {i \in 1..Len(records) : records[i].key = k /\ ~records[i].dirty}
           last(k) == CHOOSE i \in hits(k) : \A j \in hits(k) : j <= i
           c == Domains!Contents(records)
<1>1. c = [k \in Domains!Key |-> IF hits(k) = {} THEN Absent ELSE records[last(k)].value]
    BY Zenon DEF Domains!Contents
<1>2. ASSUME NEW k \in Domains!Key PROVE c[k] = t[k]
    <2>1. CASE t[k] = Absent /\ \A i \in 1..Len(records) : records[i].key = k => records[i].dirty
        BY <1>1, <2>1, SMTT(60)
    <2>2. ASSUME NEW i \in 1..Len(records),
                 records[i].key = k, ~records[i].dirty, t[k] = records[i].value,
                 \A j \in (i + 1)..Len(records) : records[j].key = k => records[j].dirty
          PROVE  c[k] = t[k]
        <3>0. Len(records) \in Nat /\ i \in Int
            BY SMTT(60)
        <3>1. i \in hits(k)
            BY <2>2, ZenonT(60)
        <3>2. \A j \in hits(k) : j <= i
            BY <2>2, <3>0, SMTT(60)
        <3>3. \A j \in hits(k) : (\A h \in hits(k) : h <= j) => j = i
            BY <3>0, <3>1, <3>2, SMTT(60)
        <3> HIDE DEF hits
        <3>4. last(k) = i
            BY <3>1, <3>2, <3>3, ZenonT(60)
        <3>5. hits(k) # {}
            BY <3>1, Zenon
        <3>6. c[k] = IF hits(k) = {} THEN Absent ELSE records[last(k)].value
            BY <1>1, Zenon
        <3> HIDE DEF last, c
        <3> QED
            BY <2>2, <3>4, <3>5, <3>6, Zenon
    <2> QED
        BY <2>1, <2>2, ZenonT(60) DEF Reads
<1>3. c \in [Domains!Key -> {c[k] : k \in Domains!Key}]
    BY <1>1, Zenon
<1> HIDE DEF c
<1> QED
    BY <1>2, <1>3, SMTT(60) DEF c

LEMMA LastExists ==
    ASSUME NEW n \in Nat, NEW S \in SUBSET (1..n), S # {}
    PROVE  \E i \in S : \A j \in S : j <= i
<1> DEFINE m == Cardinality(S)
           d == Domains!InOrder(S)
<1>1. IsFiniteSet(1..n)
    BY FS_Interval, SMTT(60)
<1>2. IsFiniteSet(S)
    BY <1>1, FS_Subset, Zenon
<1>3. S \in SUBSET Int
    BY SMTT(60)
<1>4. /\ m \in Nat /\ d \in [1..m -> S]
      /\ \A i, j \in 1..m : i < j => d[i] < d[j]
      /\ \A v \in S : \E i \in 1..m : d[i] = v
    BY <1>2, <1>3, OrderedKeys, Zenon
<1> HIDE DEF m, d
<1>5. m \in 1..m
    <2>1. \E v \in S : \E i \in 1..m : d[i] = v
        BY <1>4, Zenon
    <2>2. PICK i \in 1..m : TRUE
        BY <2>1, Zenon
    <2> QED
        BY <1>4, <2>2, SMTT(60)
<1>6. d[m] \in S
    BY <1>4, <1>5, Zenon
<1>7. ASSUME NEW v \in S PROVE v <= d[m]
    <2>1. PICK i \in 1..m : d[i] = v
        BY <1>4, Zenon
    <2>2. i < m => d[i] < d[m]
        BY <1>4, <1>5, Zenon
    <2>3. v \in Int /\ d[m] \in Int
        BY <1>3, <1>6, ZenonT(60)
    <2>4. CASE i < m
        BY <2>1, <2>2, <2>3, <2>4, SMTT(60)
    <2>5. CASE i = m
        BY <2>1, <2>3, <2>5, SMTT(60)
    <2> QED
        BY <1>4, <2>4, <2>5, SMTT(60)
<1> QED
    BY <1>6, <1>7, ZenonT(60)

\* A value that the file has for a key is one of its clean records.
LEMMA ContentsFrom ==
    ASSUME NEW records \in Seq(Domains!Record), NEW k \in Domains!Key,
           Domains!Contents(records)[k] # Absent
    PROVE  \E i \in 1..Len(records) :
             records[i] = [dirty |-> FALSE, key |-> k, value |-> Domains!Contents(records)[k]]
<1> DEFINE hits == {i \in 1..Len(records) : records[i].key = k /\ ~records[i].dirty}
           last == CHOOSE i \in hits : \A j \in hits : j <= i
           c == Domains!Contents(records)
<1>1. c[k] = IF hits = {} THEN Absent ELSE records[last].value
    BY Zenon DEF Domains!Contents
<1>2. hits # {}
    BY <1>1, ZenonT(60)
<1>3. Len(records) \in Nat /\ hits \in SUBSET (1..Len(records))
    BY SMTT(60)
<1>4. \E i \in hits : \A j \in hits : j <= i
    <2> HIDE DEF hits
    <2> QED
        BY <1>2, <1>3, LastExists, ZenonT(60)
<1>5. last \in hits
    <2> HIDE DEF hits
    <2> QED
        BY <1>4, ZenonT(60)
<1>6. c[k] = records[last].value
    BY <1>1, <1>2, ZenonT(60)
<1> HIDE DEF last, c
<1>7. last \in 1..Len(records) /\ records[last].key = k /\ ~records[last].dirty
    BY <1>5, ZenonT(60)
<1>8. records[last] \in Domains!Record
    BY <1>7, SMTT(60)
<1>9. records[last] = [dirty |-> FALSE, key |-> k, value |-> c[k]]
    BY <1>6, <1>7, <1>8, ZenonT(60) DEF Domains!Record
<1> QED
    BY <1>7, <1>9, ZenonT(60) DEF c

\* The invariant says what RepairSound says.
LEMMA DomInvSound == DomInv => RepairSound
<1> SUFFICES ASSUME DomInv PROVE RepairSound
    BY Zenon
<1> USE DEF DomInv
<1>1. Domains!TypeOK
    BY Zenon DEF DomType, Domains!TypeOK
<1>2. ASSUME spc = "done", ~faulty
      PROVE  /\ table = Domains!Contents(before) /\ Domains!Contents(file) = table
             /\ ~torn /\ \A i \in 1..Len(file) : ~file[i].dirty
    <2>1. /\ Reads(before, Len(before), table) /\ Reads(file, Len(file), table)
          /\ ~torn /\ \A i \in 1..Len(file) : ~file[i].dirty
        BY <1>2, ZenonT(60) DEF DoneInv
    <2>2. before \in Seq(Domains!Record) /\ file \in Seq(Domains!Record)
          /\ table \in [Domains!Key -> Setting \cup {Absent}]
        BY Zenon DEF DomType
    <2> QED
        BY <2>1, <2>2, ReadsContents, ZenonT(60)
<1>3. ASSUME NEW k \in Domains!Key
      PROVE  /\ table[k] # Absent => \E i \in 1..Len(before) :
                  before[i] = [dirty |-> FALSE, key |-> k, value |-> table[k]]
             /\ Domains!Contents(file)[k] # Absent => \E i \in 1..Len(before) :
                  before[i] = [dirty |-> FALSE, key |-> k, value |-> Domains!Contents(file)[k]]
    <2>1. table[k] # Absent => \E i \in 1..Len(before) :
             before[i] = [dirty |-> FALSE, key |-> k, value |-> table[k]]
        BY Zenon DEF OldInv, Clean
    <2>2. ASSUME Domains!Contents(file)[k] # Absent
          PROVE  \E i \in 1..Len(before) :
                   before[i] = [dirty |-> FALSE, key |-> k, value |-> Domains!Contents(file)[k]]
        <3>1. file \in Seq(Domains!Record)
            BY Zenon DEF DomType
        <3>2. PICK i \in 1..Len(file) :
                file[i] = [dirty |-> FALSE, key |-> k, value |-> Domains!Contents(file)[k]]
            BY <2>2, <3>1, ContentsFrom, ZenonT(60)
        <3>3. ~file[i].dirty
            BY <3>2, SMTT(60)
        <3> QED
            BY <3>2, <3>3, ZenonT(60) DEF OldInv
    <2> QED
        BY <2>1, <2>2, ZenonT(60)
<1> QED
    BY <1>1, <1>2, <1>3, ZenonT(60) DEF RepairSound, Domains!BootRepairs, Domains!NothingMadeUp

\* At boot the file is as it is, and nothing has been read.
LEMMA DomInit == Domains!DomainAssumption /\ Domains!Init => DomInv
<1> SUFFICES ASSUME Domains!DomainAssumption, Domains!Init PROVE DomInv
    BY Zenon
<1>1. /\ file \in Domains!Files /\ torn \in BOOLEAN /\ garbled = FALSE /\ before = file
      /\ table = [k \in Domains!Key |-> Absent]
      /\ spc = "load" /\ spos = 0 /\ dirty = FALSE /\ todo = << >> /\ faulty = FALSE
    BY Zenon DEF Domains!Init
<1>2. PICK n \in 0..MaxRecords : file \in [1..n -> Domains!Record]
    BY <1>1, ZenonT(60) DEF Domains!Files
<1>3. MaxRecords \in Nat
    BY Zenon DEF Domains!DomainAssumption
<1>4. file \in Seq(Domains!Record) /\ Len(file) = n
    BY <1>2, <1>3, SMTT(60)
<1>5. \A k \in Domains!Key : table[k] = Absent
    BY <1>1, ZenonT(60)
<1>6. DomType
    <2>1. Len(file) <= MaxRecords /\ spos \in 0..MaxRecords
        BY <1>1, <1>2, <1>3, <1>4, SMTT(60)
    <2>2. table \in [Domains!Key -> Setting \cup {Absent}]
        BY <1>1, ZenonT(60)
    <2> QED
        BY <1>1, <1>4, <2>1, <2>2, ZenonT(60) DEF DomType
<1>7. Reads(before, spos, table)
    BY <1>1, <1>5, SMTT(60) DEF Reads
<1>8. LoadInv
    BY <1>1, <1>2, <1>3, <1>4, <1>7, SMTT(60) DEF LoadInv
<1>9. RepairInv /\ DoneInv
    BY <1>1, ZenonT(60) DEF RepairInv, DoneInv
<1>10. OldInv
    BY <1>1, <1>5, ZenonT(60) DEF OldInv
<1> QED
    BY <1>6, <1>8, <1>9, <1>10, ZenonT(60) DEF DomInv

LEMMA StutterSound == DomInv /\ UNCHANGED Domains!vars => DomInv'
<1> SUFFICES ASSUME DomInv, UNCHANGED Domains!vars PROVE DomInv'
    BY Zenon
<1>1. /\ file' = file /\ torn' = torn /\ garbled' = garbled /\ before' = before /\ table' = table
      /\ spc' = spc /\ spos' = spos /\ dirty' = dirty /\ todo' = todo /\ faulty' = faulty
    BY Zenon DEF Domains!vars
<1>2. DomType'
    BY <1>1, ZenonT(60) DEF DomInv, DomType
<1>3. LoadInv'
    BY <1>1, SMTT(60) DEF DomInv, LoadInv, Reads
<1>4. RepairInv'
    BY <1>1, SMTT(60) DEF DomInv, RepairInv, Domains!Keys, Reads, Clean
<1>5. DoneInv'
    BY <1>1, ZenonT(60) DEF DomInv, DoneInv, Reads
<1>6. OldInv'
    BY <1>1, Zenon DEF DomInv, OldInv, Clean
<1> QED
    BY <1>2, <1>3, <1>4, <1>5, <1>6, ZenonT(60) DEF DomInv

\* read_exact_or_eof: the table is that of one record more.
LEMMA LoadRecordSound == DomInv /\ Domains!LoadRecord => DomInv'
<1> SUFFICES ASSUME DomInv, Domains!LoadRecord PROVE DomInv'
    BY Zenon
<1> DEFINE r == before[spos + 1]
<1>1. DomType /\ LoadInv /\ OldInv
    BY Zenon DEF DomInv
<1>2. /\ spc = "load" /\ spos < Len(file) /\ spos' = spos + 1
      /\ file' = file /\ torn' = torn /\ garbled' = garbled /\ before' = before
      /\ spc' = spc /\ todo' = todo /\ faulty' = faulty
    BY Zenon DEF Domains!LoadRecord
<1>3. /\ file = before /\ spos <= Len(before) /\ ~garbled /\ ~faulty
      /\ Reads(before, spos, table)
      /\ dirty <=> \E i \in 1..spos : before[i].dirty
    BY <1>1, <1>2, ZenonT(60) DEF LoadInv
<1>4. IF r.dirty
      THEN dirty' = TRUE /\ table' = table
      ELSE table' = [table EXCEPT ![r.key] = r.value] /\ dirty' = dirty
    BY <1>3, Zenon DEF Domains!LoadRecord
<1>5. /\ before \in Seq(Domains!Record) /\ Len(before) \in Nat /\ Len(before) <= MaxRecords
      /\ MaxRecords \in Nat /\ spos \in Nat /\ spos + 1 \in 1..Len(before)
    BY <1>1, <1>2, <1>3, SMTT(60) DEF DomType, Domains!DomainAssumption
<1>6. r \in Domains!Record
    BY <1>5, SMTT(60)
<1>7. r.key \in Domains!Key /\ r.value \in Setting /\ r.dirty \in BOOLEAN
      /\ (~r.dirty => r = [dirty |-> FALSE, key |-> r.key, value |-> r.value])
    BY <1>6, ZenonT(60) DEF Domains!Record
<1> HIDE DEF r
<1>8. table' \in [Domains!Key -> Setting \cup {Absent}] /\ dirty' \in BOOLEAN
    BY <1>1, <1>4, <1>7, ZenonT(60) DEF DomType
<1>9. DomType'
    BY <1>1, <1>2, <1>5, <1>8, SMTT(60) DEF DomType
<1>10. \A i \in 1..(spos + 1) : i \in 1..spos \/ i = spos + 1
    BY <1>5, SMTT(60)
<1>11. Reads(before, spos + 1, table')
    <2> SUFFICES ASSUME NEW k \in Domains!Key
                 PROVE  \/ /\ table'[k] = Absent
                           /\ \A i \in 1..(spos + 1) : before[i].key = k => before[i].dirty
                        \/ \E i \in 1..(spos + 1) :
                             /\ before[i].key = k /\ ~before[i].dirty /\ table'[k] = before[i].value
                             /\ \A j \in (i + 1)..(spos + 1) : before[j].key = k => before[j].dirty
        BY Zenon DEF Reads
    <2>1. CASE ~r.dirty /\ r.key = k
        <3>1. table'[k] = r.value
            BY <1>1, <1>4, <1>7, <2>1, ZenonT(60) DEF DomType
        <3>2. \A j \in (spos + 1 + 1)..(spos + 1) : FALSE
            BY <1>5, SMTT(60)
        <3>3. spos + 1 \in 1..(spos + 1)
            BY <1>5, SMTT(60)
        <3> QED
            BY <2>1, <3>1, <3>2, <3>3, ZenonT(60) DEF r
    <2>2. CASE r.dirty \/ r.key # k
        <3>1. table'[k] = table[k]
            BY <1>1, <1>4, <1>7, <2>2, ZenonT(60) DEF DomType
        <3>2. before[spos + 1].key = k => before[spos + 1].dirty
            BY <2>2, ZenonT(60) DEF r
        <3>3. CASE table[k] = Absent /\ \A i \in 1..spos : before[i].key = k => before[i].dirty
            BY <1>10, <3>1, <3>2, <3>3, ZenonT(60)
        <3>4. ASSUME NEW i \in 1..spos, before[i].key = k, ~before[i].dirty,
                     table[k] = before[i].value,
                     \A j \in (i + 1)..spos : before[j].key = k => before[j].dirty
              PROVE  \E h \in 1..(spos + 1) :
                       /\ before[h].key = k /\ ~before[h].dirty /\ table'[k] = before[h].value
                       /\ \A j \in (h + 1)..(spos + 1) : before[j].key = k => before[j].dirty
            <4>1. i \in 1..(spos + 1) /\ i \in Int
                BY <1>5, SMTT(60)
            <4>2. \A j \in (i + 1)..(spos + 1) : j \in (i + 1)..spos \/ j = spos + 1
                BY <1>5, SMTT(60)
            <4> QED
                BY <3>1, <3>2, <3>4, <4>1, <4>2, ZenonT(60)
        <3> QED
            BY <1>3, <3>3, <3>4, ZenonT(60) DEF Reads
    <2> QED
        BY <2>1, <2>2, ZenonT(60)
<1>12. dirty' <=> \E i \in 1..(spos + 1) : before[i].dirty
    <2>1. spos + 1 \in 1..(spos + 1) /\ \A i \in 1..spos : i \in 1..(spos + 1)
        BY <1>5, SMTT(60)
    <2> QED
        BY <1>3, <1>4, <1>10, <2>1, ZenonT(60) DEF r
<1>13. LoadInv'
    BY <1>2, <1>3, <1>5, <1>11, <1>12, SMTT(60) DEF LoadInv, Reads
<1>14. RepairInv' /\ DoneInv'
    BY <1>2, Zenon DEF RepairInv, DoneInv
<1>15. OldInv'
    <2>1. ASSUME NEW k \in Domains!Key, table'[k] # Absent
          PROVE  \E i \in 1..Len(before) :
                   before[i] = [dirty |-> FALSE, key |-> k, value |-> table'[k]]
        <3>1. CASE ~r.dirty /\ r.key = k
            <4>1. table'[k] = r.value
                BY <1>1, <1>4, <1>7, <3>1, Zenon DEF DomType
            <4> QED
                BY <1>5, <1>7, <3>1, <4>1, ZenonT(60) DEF r
        <3>2. CASE r.dirty \/ r.key # k
            <4>1. table'[k] = table[k]
                BY <1>1, <1>4, <1>7, <3>2, Zenon DEF DomType
            <4> QED
                BY <1>1, <2>1, <4>1, ZenonT(60) DEF OldInv, Clean
        <3> QED
            BY <3>1, <3>2, ZenonT(60)
    <2> QED
        BY <1>1, <1>2, <2>1, Zenon DEF OldInv, Clean
<1> QED
    BY <1>9, <1>13, <1>14, <1>15, ZenonT(60) DEF DomInv

\* A load that ends in a repair: every key is to be written.
LEMMA RepairBegins ==
    ASSUME DomInv, spc = "load", Domains!LoadEnds(TRUE), faulty' \in BOOLEAN,
           faulty' \/ spos = Len(before)
    PROVE  DomInv'
<1> DEFINE q == Domains!Keys
<1>1. DomType /\ LoadInv /\ OldInv
    BY Zenon DEF DomInv
<1>2. /\ dirty' = TRUE /\ spc' = "repair" /\ spos' = 0 /\ todo' = q
      /\ file' = file /\ torn' = torn /\ garbled' = garbled /\ before' = before /\ table' = table
    BY Zenon DEF Domains!LoadEnds
<1>3. q' = q
    BY <1>2, ZenonT(60) DEF Domains!Keys
<1>4. q \in Seq(Domains!Key)
    BY <1>1, KeysOfTable, ZenonT(60) DEF DomType
<1>5. ~garbled /\ Reads(before, spos, table)
    BY <1>1, ZenonT(60) DEF LoadInv
<1> HIDE DEF q
<1>6. DomType'
    BY <1>1, <1>2, SMTT(60) DEF DomType, Domains!DomainAssumption
<1>7. OldInv'
    BY <1>1, <1>2, Zenon DEF OldInv, Clean
<1>8. LoadInv' /\ DoneInv'
    BY <1>2, Zenon DEF LoadInv, DoneInv
<1>9. ~faulty' => Reads(before, Len(before), table)'
    BY <1>2, <1>5, ZenonT(60) DEF Reads
<1>10. /\ todo' \in Seq(Domains!Key) /\ Len(todo') <= Len(q')
       /\ \A i \in 1..Len(todo') : todo'[i] = q'[Len(q') - Len(todo') + i]
       /\ spos' = Len(q') - Len(todo') /\ spos' <= Len(file') /\ ~garbled'
       /\ \A i \in 1..spos' : FALSE
    <2>1. Len(q) \in Nat /\ Len(file) \in Nat
        BY <1>1, <1>4, SMTT(60) DEF DomType
    <2> QED
        BY <1>2, <1>3, <1>4, <1>5, <2>1, SMTT(60)
<1>11. RepairInv'
    BY <1>9, <1>10, SMTT(60) DEF RepairInv, q
<1> QED
    BY <1>6, <1>7, <1>8, <1>11, ZenonT(60) DEF DomInv

\* The end of the file: a repair follows, or the table is that of the file.
LEMMA LoadEofSound == DomInv /\ Domains!LoadEof => DomInv'
<1> SUFFICES ASSUME DomInv, Domains!LoadEof PROVE DomInv'
    BY Zenon
<1>1. DomType /\ LoadInv /\ OldInv
    BY Zenon DEF DomInv
<1>2. spc = "load" /\ spos = Len(file) /\ Domains!LoadEnds(dirty \/ torn) /\ faulty' = faulty
    BY Zenon DEF Domains!LoadEof
<1>3. /\ file = before /\ ~garbled /\ ~faulty /\ Reads(before, spos, table)
      /\ dirty <=> \E i \in 1..spos : before[i].dirty
    BY <1>1, <1>2, ZenonT(60) DEF LoadInv
<1>4. CASE dirty \/ torn
    <2>1. Domains!LoadEnds(TRUE)
        BY <1>2, <1>4, ZenonT(60) DEF Domains!LoadEnds
    <2>2. faulty' \in BOOLEAN
        BY <1>1, <1>2, ZenonT(60) DEF DomType
    <2> QED
        BY <1>2, <1>3, <2>1, <2>2, RepairBegins, ZenonT(60)
<1>5. CASE ~(dirty \/ torn)
    <2>1. /\ dirty' = FALSE /\ spc' = "done" /\ spos' = 0
          /\ file' = file /\ torn' = torn /\ garbled' = garbled /\ before' = before /\ table' = table
        BY <1>2, <1>5, ZenonT(60) DEF Domains!LoadEnds
    <2>2. DomType'
        <3>1. spos' \in 0..MaxRecords
            BY <1>1, <2>1, SMTT(60) DEF DomType, Domains!DomainAssumption
        <3>2. faulty' = faulty
            BY <1>2, Zenon
        <3> QED
            BY <1>1, <2>1, <3>1, <3>2, ZenonT(60) DEF DomType
    <2>3. OldInv'
        BY <1>1, <2>1, Zenon DEF OldInv, Clean
    <2>4. LoadInv' /\ RepairInv'
        BY <2>1, Zenon DEF LoadInv, RepairInv
    <2>5. DoneInv'
        BY <1>2, <1>3, <1>5, <2>1, SMTT(60) DEF DoneInv, Reads
    <2> QED
        BY <2>2, <2>3, <2>4, <2>5, ZenonT(60) DEF DomInv
<1> QED
    BY <1>4, <1>5, ZenonT(60)

LEMMA LoadOpenErrorSound == DomInv /\ Domains!LoadOpenError => DomInv'
<1> SUFFICES ASSUME DomInv, Domains!LoadOpenError PROVE DomInv'
    BY Zenon
<1>1. DomType /\ OldInv
    BY Zenon DEF DomInv
<1>2. /\ spc' = "done" /\ faulty' = TRUE
      /\ file' = file /\ torn' = torn /\ garbled' = garbled /\ before' = before /\ table' = table
      /\ spos' = spos /\ dirty' = dirty
    BY Zenon DEF Domains!LoadOpenError
<1>3. DomType'
    BY <1>1, <1>2, Zenon DEF DomType
<1>4. OldInv'
    BY <1>1, <1>2, ZenonT(60) DEF OldInv, Clean
<1>5. LoadInv' /\ RepairInv' /\ DoneInv'
    BY <1>2, ZenonT(60) DEF LoadInv, RepairInv, DoneInv
<1> QED
    BY <1>3, <1>4, <1>5, Zenon DEF DomInv

LEMMA LoadErrorSound == DomInv /\ Domains!LoadError => DomInv'
<1> SUFFICES ASSUME DomInv, Domains!LoadError PROVE DomInv'
    BY Zenon
<1>1. spc = "load" /\ Domains!LoadEnds(TRUE) /\ faulty' = TRUE
    BY Zenon DEF Domains!LoadError
<1> QED
    BY <1>1, RepairBegins, ZenonT(60)

\* What the steps of a repair have in common: the key at the head of todo.
LEMMA NextKey ==
    ASSUME DomInv, spc = "repair", todo # << >>
    PROVE  LET q == Domains!Keys
           IN  /\ Len(q) \in Nat /\ Len(todo) \in 1..Len(q) /\ Len(q) <= Len(before)
               /\ Tail(todo) \in Seq(Domains!Key) /\ Len(Tail(todo)) = Len(todo) - 1
               /\ \A i \in 1..Len(Tail(todo)) : Tail(todo)[i] = q[Len(q) - Len(Tail(todo)) + i]
               /\ Head(todo) = q[Len(q) - Len(todo) + 1]
               /\ Head(todo) \in Domains!Key /\ table[Head(todo)] # Absent
<1> DEFINE q == Domains!Keys
<1>1. DomType /\ OldInv
    BY Zenon DEF DomInv
<1>2. q \in Seq(Domains!Key) /\ \A i \in 1..Len(q) : table[q[i]] # Absent
    BY <1>1, KeysOfTable, ZenonT(60) DEF DomType
<1>3. Len(q) <= Len(before)
    BY <1>1, KeysFit, ZenonT(60)
<1>4. /\ todo \in Seq(Domains!Key) /\ Len(todo) <= Len(q)
      /\ \A i \in 1..Len(todo) : todo[i] = q[Len(q) - Len(todo) + i]
    BY Zenon DEF DomInv, RepairInv
<1> HIDE DEF q
<1>5. Len(q) \in Nat /\ Len(todo) \in 1..Len(q)
    BY <1>2, <1>4, SMTT(60)
<1>6. Tail(todo) \in Seq(Domains!Key) /\ Len(Tail(todo)) = Len(todo) - 1
    BY <1>4, SMTT(60)
<1>7. Head(todo) = todo[1] /\ Head(todo) \in Domains!Key
    BY <1>4, SMTT(60)
<1>8. Head(todo) = q[Len(q) - Len(todo) + 1]
    BY <1>4, <1>5, <1>7, SMTT(60)
<1>9. Len(q) - Len(todo) + 1 \in 1..Len(q)
    BY <1>5, SMTT(60)
<1>10. table[Head(todo)] # Absent
    BY <1>2, <1>8, <1>9, Zenon
<1>11. ASSUME NEW i \in 1..Len(Tail(todo))
       PROVE  Tail(todo)[i] = q[Len(q) - Len(Tail(todo)) + i]
    <2>1. Tail(todo)[i] = todo[i + 1]
        BY <1>4, <1>5, SMTT(60)
    <2>2. i + 1 \in 1..Len(todo) /\ Len(q) - Len(todo) + (i + 1) = Len(q) - Len(Tail(todo)) + i
        BY <1>5, <1>6, SMTT(60)
    <2> QED
        BY <1>4, <2>1, <2>2, ZenonT(60)
<1> QED
    BY <1>3, <1>5, <1>6, <1>7, <1>8, <1>10, <1>11, ZenonT(60) DEF q

\* repair writes the entry of the next key: in place of an old record or behind them.
LEMMA RepairRecordSound == DomInv /\ Domains!RepairRecord => DomInv'
<1> SUFFICES ASSUME DomInv, Domains!RepairRecord PROVE DomInv'
    BY Zenon
<1> DEFINE q == Domains!Keys
           r == Clean(Head(todo))
<1>1. DomType /\ OldInv
    BY Zenon DEF DomInv
<1>2. /\ spc = "repair" /\ todo # << >> /\ todo' = Tail(todo)
      /\ torn' = torn /\ garbled' = garbled /\ before' = before /\ table' = table
      /\ spc' = spc /\ dirty' = dirty /\ faulty' = faulty
    BY Zenon DEF Domains!RepairRecord
<1>3. /\ file' = CASE garbled                      -> file
                   [] ~garbled /\ spos < Len(file) -> [file EXCEPT ![spos + 1] = r]
                   [] OTHER                        -> Append(file, r)
      /\ spos' = IF garbled THEN spos ELSE spos + 1
    BY Zenon DEF Domains!RepairRecord, Clean
<1>4. /\ Len(q) \in Nat /\ Len(todo) \in 1..Len(q) /\ Len(q) <= Len(before)
      /\ Tail(todo) \in Seq(Domains!Key) /\ Len(Tail(todo)) = Len(todo) - 1
      /\ \A i \in 1..Len(Tail(todo)) : Tail(todo)[i] = q[Len(q) - Len(Tail(todo)) + i]
      /\ Head(todo) = q[Len(q) - Len(todo) + 1]
      /\ Head(todo) \in Domains!Key /\ table[Head(todo)] # Absent
    BY <1>2, NextKey, ZenonT(60)
<1>5. /\ spos <= Len(q) - Len(todo) /\ spos <= Len(file)
      /\ garbled => faulty
      /\ ~faulty => /\ spos = Len(q) - Len(todo)
                    /\ Reads(before, Len(before), table)
                    /\ \A i \in 1..spos : file[i] = Clean(q[i])
    BY <1>2, ZenonT(60) DEF DomInv, RepairInv
<1>6. q' = q
    BY <1>2, ZenonT(60) DEF Domains!Keys
<1>7. r \in Domains!Record /\ ~r.dirty /\ \E i \in 1..Len(before) : before[i] = r
    BY <1>1, <1>4, ZenonT(60) DEF DomType, OldInv, Clean, Domains!Record
<1>8. \A k : Clean(k)' = Clean(k)
    BY <1>2, ZenonT(60) DEF Clean
<1> HIDE DEF q, r
<1>9. /\ file \in Seq(Domains!Record) /\ Len(file) \in Nat /\ Len(before) \in Nat
      /\ spos \in Nat /\ MaxRecords \in Nat /\ Len(before) <= MaxRecords /\ Len(file) <= MaxRecords
    BY <1>1, SMTT(60) DEF DomType, Domains!DomainAssumption
\* The file with the new record, in each of the three cases.
<1>10. /\ file' \in Seq(Domains!Record) /\ Len(file') <= MaxRecords
       /\ spos' \in 0..MaxRecords /\ spos' <= Len(file')
       /\ spos' <= Len(q) - Len(Tail(todo))
       /\ \A i \in 1..Len(file') : file'[i] = r \/ (i \in 1..Len(file) /\ file'[i] = file[i])
       /\ ~garbled => file'[spos + 1] = r /\ \A i \in 1..spos : file'[i] = file[i]
    <2>1. CASE garbled
        <3>1. file' = file /\ spos' = spos
            BY <1>3, <2>1, Zenon
        <3>2. spos' \in 0..MaxRecords /\ spos' <= Len(q) - Len(Tail(todo))
            BY <1>4, <1>5, <1>9, <3>1, SMTT(60)
        <3> QED
            BY <1>5, <1>9, <2>1, <3>1, <3>2, Zenon
    <2>2. CASE ~garbled /\ spos < Len(file)
        <3>1. file' = [file EXCEPT ![spos + 1] = r] /\ spos' = spos + 1
            BY <1>3, <2>2, Zenon
        <3>2. file' \in Seq(Domains!Record) /\ Len(file') = Len(file)
            BY <1>7, <1>9, <2>2, <3>1, SMTT(60)
        <3>3. file'[spos + 1] = r /\ \A i \in 1..Len(file) : i # spos + 1 => file'[i] = file[i]
            BY <1>9, <2>2, <3>1, SMTT(60)
        <3>4. \A i \in 1..spos : file'[i] = file[i]
            BY <1>9, <2>2, <3>3, SMTT(60)
        <3>5. spos' \in 0..MaxRecords /\ spos' <= Len(file') /\ spos' <= Len(q) - Len(Tail(todo))
            BY <1>4, <1>5, <1>9, <2>2, <3>1, <3>2, SMTT(60)
        <3> QED
            BY <1>9, <3>2, <3>3, <3>4, <3>5, Zenon
    <2>3. CASE ~garbled /\ ~(spos < Len(file))
        <3>1. file' = Append(file, r) /\ spos' = spos + 1 /\ spos = Len(file)
            BY <1>3, <1>5, <1>9, <2>3, SMTT(60)
        <3>2. file' \in Seq(Domains!Record) /\ Len(file') = Len(file) + 1
            BY <1>7, <1>9, <3>1, SMTT(60)
        <3>3. file'[spos + 1] = r /\ \A i \in 1..Len(file) : file'[i] = file[i]
            BY <1>7, <1>9, <3>1, SMTT(60)
        <3>4. spos + 1 <= MaxRecords
            BY <1>4, <1>5, <1>9, SMTT(60)
        <3>5. spos' \in 0..MaxRecords /\ spos' <= Len(file') /\ spos' <= Len(q) - Len(Tail(todo))
              /\ Len(file') <= MaxRecords
            BY <1>4, <1>5, <1>9, <3>1, <3>2, <3>4, SMTT(60)
        <3>6. \A i \in 1..Len(file') : i \in 1..Len(file) \/ i = spos + 1
            BY <1>9, <3>1, <3>2, SMTT(60)
        <3> QED
            BY <3>1, <3>2, <3>3, <3>5, <3>6, Zenon
    <2> QED
        BY <2>1, <2>2, <2>3, Zenon
<1>11. DomType'
    BY <1>1, <1>2, <1>10, ZenonT(60) DEF DomType
<1>12. OldInv'
    <2>1. ASSUME NEW i \in 1..Len(file'), ~file'[i].dirty
          PROVE  \E j \in 1..Len(before) : before[j] = file'[i]
        <3>1. CASE file'[i] = r
            BY <1>7, <3>1, ZenonT(60)
        <3>2. CASE i \in 1..Len(file) /\ file'[i] = file[i]
            BY <1>1, <2>1, <3>2, ZenonT(60) DEF OldInv
        <3> QED
            BY <1>10, <3>1, <3>2, ZenonT(60)
    <2>2. \A k \in Domains!Key : table[k] # Absent => \E i \in 1..Len(before) : before[i] = Clean(k)
        BY <1>1, ZenonT(60) DEF OldInv
    <2> QED
        BY <1>2, <1>8, <2>1, <2>2, ZenonT(60) DEF OldInv
<1>13. LoadInv' /\ DoneInv'
    BY <1>2, ZenonT(60) DEF LoadInv, DoneInv
<1>14. ASSUME ~faulty'
       PROVE  /\ spos' = Len(q) - Len(Tail(todo))
              /\ Reads(before, Len(before), table)'
              /\ \A i \in 1..spos' : file'[i] = Clean(q[i])
    <2>1. ~faulty /\ ~garbled /\ spos' = spos + 1
        BY <1>2, <1>3, <1>5, <1>14, ZenonT(60)
    <2>2. spos = Len(q) - Len(todo) /\ r = Clean(q[spos + 1])
        BY <1>4, <1>5, <2>1, ZenonT(60) DEF r
    <2>3. spos' = Len(q) - Len(Tail(todo))
        BY <1>4, <1>9, <2>1, <2>2, SMTT(60)
    <2>4. Reads(before, Len(before), table)'
        BY <1>2, <1>5, <2>1, Zenon DEF Reads
    <2>5. \A i \in 1..spos' : i \in 1..spos \/ i = spos + 1
        BY <1>9, <2>1, SMTT(60)
    <2> QED
        BY <1>5, <1>10, <2>1, <2>2, <2>3, <2>4, <2>5, ZenonT(60)
<1>15. /\ todo' \in Seq(Domains!Key) /\ Len(todo') <= Len(q')
       /\ \A i \in 1..Len(todo') : todo'[i] = q'[Len(q') - Len(todo') + i]
       /\ spos' <= Len(q') - Len(todo') /\ spos' <= Len(file') /\ (garbled' => faulty')
    <2>1. Len(Tail(todo)) <= Len(q)
        BY <1>4, SMTT(60)
    <2> QED
        BY <1>2, <1>4, <1>5, <1>6, <1>10, <2>1, ZenonT(60)
<1>16. ~faulty' => /\ spos' = Len(q') - Len(todo')
                   /\ Reads(before, Len(before), table)'
                   /\ \A i \in 1..spos' : file'[i] = Clean(q[i])'
    BY <1>2, <1>6, <1>14, Zenon DEF Clean
<1>17. RepairInv'
    BY <1>15, <1>16, Zenon DEF RepairInv, q
<1> QED
    BY <1>11, <1>12, <1>13, <1>17, Zenon DEF DomInv

\* A write of the repair that fails leaves the file, or cuts it where it stood.
LEMMA RepairErrorSound == DomInv /\ Domains!RepairError => DomInv'
<1> SUFFICES ASSUME DomInv, Domains!RepairError PROVE DomInv'
    BY Zenon
<1> DEFINE q == Domains!Keys
<1>1. DomType /\ OldInv
    BY Zenon DEF DomInv
<1>2. /\ spc = "repair" /\ todo # << >> /\ todo' = Tail(todo) /\ faulty' = TRUE
      /\ torn' = torn /\ before' = before /\ table' = table
      /\ spc' = spc /\ spos' = spos /\ dirty' = dirty
    BY Zenon DEF Domains!RepairError
<1>3. \/ file' = file /\ garbled' = garbled
      \/ file' = SubSeq(file, 1, spos) /\ garbled' = TRUE
    BY Zenon DEF Domains!RepairError
<1>4. /\ Len(q) \in Nat /\ Len(todo) \in 1..Len(q)
      /\ Tail(todo) \in Seq(Domains!Key) /\ Len(Tail(todo)) = Len(todo) - 1
      /\ \A i \in 1..Len(Tail(todo)) : Tail(todo)[i] = q[Len(q) - Len(Tail(todo)) + i]
    BY <1>2, NextKey, ZenonT(60)
<1>5. spos <= Len(q) - Len(todo) /\ spos <= Len(file)
    BY <1>2, ZenonT(60) DEF DomInv, RepairInv
<1>6. q' = q
    BY <1>2, ZenonT(60) DEF Domains!Keys
<1> HIDE DEF q
<1>7. /\ file \in Seq(Domains!Record) /\ Len(file) \in Nat /\ spos \in Nat
      /\ MaxRecords \in Nat /\ Len(file) <= MaxRecords
    BY <1>1, SMTT(60) DEF DomType, Domains!DomainAssumption
<1>8. /\ file' \in Seq(Domains!Record) /\ Len(file') <= Len(file) /\ spos <= Len(file')
      /\ \A i \in 1..Len(file') : i \in 1..Len(file) /\ file'[i] = file[i]
      /\ Len(file') \in Nat
    <2>1. CASE file' = file
        BY <1>5, <1>7, <2>1, SMTT(60)
    <2>2. CASE file' = SubSeq(file, 1, spos)
        BY <1>5, <1>7, <2>2, SMTT(60)
    <2> QED
        BY <1>3, <2>1, <2>2, Zenon
<1>9. garbled' \in BOOLEAN
    BY <1>1, <1>3, ZenonT(60) DEF DomType
<1>10. Len(file') <= MaxRecords
    BY <1>7, <1>8, SMTT(60)
<1>11. DomType'
    BY <1>1, <1>2, <1>8, <1>9, <1>10, ZenonT(60) DEF DomType
<1>12. OldInv'
    BY <1>1, <1>2, <1>8, ZenonT(60) DEF OldInv, Clean
<1>13. LoadInv' /\ DoneInv'
    BY <1>2, ZenonT(60) DEF LoadInv, DoneInv
<1>14. Len(Tail(todo)) <= Len(q) /\ spos <= Len(q) - Len(Tail(todo))
    BY <1>4, <1>5, <1>7, SMTT(60)
<1>15. /\ todo' \in Seq(Domains!Key) /\ Len(todo') <= Len(q')
       /\ \A i \in 1..Len(todo') : todo'[i] = q'[Len(q') - Len(todo') + i]
       /\ spos' <= Len(q') - Len(todo') /\ spos' <= Len(file') /\ faulty'
    BY <1>2, <1>4, <1>6, <1>8, <1>14, ZenonT(60)
<1>16. RepairInv'
    BY <1>15, ZenonT(60) DEF RepairInv, q
<1> QED
    BY <1>11, <1>12, <1>13, <1>16, Zenon DEF DomInv

\* truncate: without faults the file is the table.
LEMMA RepairEndsSound == DomInv /\ Domains!RepairEnds => DomInv'
<1> SUFFICES ASSUME DomInv, Domains!RepairEnds PROVE DomInv'
    BY Zenon
<1> DEFINE q == Domains!Keys
<1>1. DomType /\ OldInv
    BY Zenon DEF DomInv
<1>2. /\ spc = "repair" /\ todo = << >> /\ file' = SubSeq(file, 1, spos) /\ torn' = garbled
      /\ spc' = "done" /\ garbled' = garbled /\ before' = before /\ table' = table
      /\ spos' = spos /\ dirty' = dirty /\ faulty' = faulty
    BY Zenon DEF Domains!RepairEnds
<1>3. /\ spos <= Len(file) /\ (garbled => faulty)
      /\ ~faulty => /\ spos = Len(q) - Len(todo)
                    /\ Reads(before, Len(before), table)
                    /\ \A i \in 1..spos : file[i] = Clean(q[i])
    BY <1>2, ZenonT(60) DEF DomInv, RepairInv
<1>4. /\ q \in Seq(Domains!Key)
      /\ \A i \in 1..Len(q) : table[q[i]] # Absent
      /\ \A i, j \in 1..Len(q) : q[i] = q[j] => i = j
      /\ \A k \in Domains!Key : table[k] # Absent => \E i \in 1..Len(q) : q[i] = k
    BY <1>1, KeysOfTable, ZenonT(60) DEF DomType
<1> HIDE DEF q
<1>5. /\ file \in Seq(Domains!Record) /\ Len(file) \in Nat /\ spos \in Nat /\ Len(q) \in Nat
      /\ MaxRecords \in Nat /\ Len(file) <= MaxRecords
    BY <1>1, <1>4, SMTT(60) DEF DomType, Domains!DomainAssumption
<1>6. /\ file' \in Seq(Domains!Record) /\ Len(file') = spos
      /\ \A i \in 1..spos : i \in 1..Len(file) /\ file'[i] = file[i]
    BY <1>2, <1>3, <1>5, SMTT(60)
<1>7. Len(file') <= MaxRecords
    BY <1>3, <1>5, <1>6, SMTT(60)
<1>8. DomType'
    BY <1>1, <1>2, <1>6, <1>7, Zenon DEF DomType
<1>9. OldInv'
    BY <1>1, <1>2, <1>6, ZenonT(60) DEF OldInv, Clean
<1>10. LoadInv' /\ RepairInv'
    BY <1>2, ZenonT(60) DEF LoadInv, RepairInv
<1>11. ASSUME ~faulty
       PROVE  Reads(file', spos, table) /\ \A i \in 1..spos : ~file'[i].dirty
    <2>1. spos = Len(q)
        <3>1. Len(todo) = 0
            BY <1>2, ZenonT(60)
        <3>2. spos = Len(q) - Len(todo)
            BY <1>3, <1>11, ZenonT(60)
        <3> QED
            BY <1>5, <3>1, <3>2, SMTT(60)
    <2>2. \A i \in 1..spos : /\ file'[i].key = q[i] /\ ~file'[i].dirty
                             /\ file'[i].value = table[q[i]]
        <3> TAKE i \in 1..spos
        <3>1. file'[i] = Clean(q[i])
            BY <1>3, <1>6, <1>11, ZenonT(60)
        <3> QED
            BY <3>1, SMTT(60) DEF Clean
    <2>3. ASSUME NEW k \in Domains!Key
          PROVE  \/ table[k] = Absent /\ \A i \in 1..spos : file'[i].key = k => file'[i].dirty
                 \/ \E i \in 1..spos :
                      /\ file'[i].key = k /\ ~file'[i].dirty /\ table[k] = file'[i].value
                      /\ \A j \in (i + 1)..spos : file'[j].key = k => file'[j].dirty
        <3>1. CASE table[k] = Absent
            BY <1>4, <2>1, <2>2, <3>1, ZenonT(60)
        <3>2. CASE table[k] # Absent
            <4>1. PICK i \in 1..spos : q[i] = k
                BY <1>4, <2>1, <3>2, ZenonT(60)
            <4>2. \A j \in (i + 1)..spos : j \in 1..spos /\ j # i
                BY <1>5, SMTT(60)
            <4>3. \A j \in (i + 1)..spos : q[j] # k
                BY <1>4, <2>1, <4>1, <4>2, ZenonT(60)
            <4> QED
                BY <2>2, <4>1, <4>2, <4>3, ZenonT(60)
        <3> QED
            BY <3>1, <3>2, ZenonT(60)
    <2> QED
        BY <2>2, <2>3, ZenonT(60) DEF Reads
<1>12. ASSUME ~faulty'
       PROVE  /\ Reads(before, Len(before), table)' /\ Reads(file, Len(file), table)'
              /\ ~torn' /\ \A i \in 1..Len(file') : ~file'[i].dirty
    <2>1. ~faulty /\ ~torn' /\ Len(file') = spos
        BY <1>2, <1>3, <1>6, <1>12, ZenonT(60)
    <2>2. Reads(before, Len(before), table)'
        BY <1>2, <1>3, <2>1, ZenonT(60) DEF Reads
    <2>3. Reads(file, Len(file), table)'
        BY <1>2, <1>11, <2>1, ZenonT(60) DEF Reads
    <2> QED
        BY <1>11, <2>1, <2>2, <2>3, ZenonT(60)
<1>13. DoneInv'
    BY <1>12, ZenonT(60) DEF DoneInv
<1> QED
    BY <1>8, <1>9, <1>10, <1>13, Zenon DEF DomInv

LEMMA RepairGivesUpSound == DomInv /\ Domains!RepairGivesUp => DomInv'
<1> SUFFICES ASSUME DomInv, Domains!RepairGivesUp PROVE DomInv'
    BY Zenon
<1>1. DomType /\ OldInv
    BY Zenon DEF DomInv
<1>2. /\ spc' = "done" /\ faulty' = TRUE /\ torn' = (torn \/ garbled)
      /\ file' = file /\ garbled' = garbled /\ before' = before /\ table' = table
      /\ spos' = spos /\ dirty' = dirty
    BY Zenon DEF Domains!RepairGivesUp
<1>3. DomType'
    BY <1>1, <1>2, ZenonT(60) DEF DomType
<1>4. OldInv'
    BY <1>1, <1>2, ZenonT(60) DEF OldInv, Clean
<1>5. LoadInv' /\ RepairInv' /\ DoneInv'
    BY <1>2, ZenonT(60) DEF LoadInv, RepairInv, DoneInv
<1> QED
    BY <1>3, <1>4, <1>5, Zenon DEF DomInv

\* load_at_boot: for every file, and every pattern of reads and writes that fail,
\* RepairSound holds.  A boot without faults leaves a table and a file that agree
\* and that are what the clean records of the old file said, with nothing in flux;
\* a boot with faults makes up no entry.
THEOREM RepairStaysSound == Domains!DomainAssumption /\ Domains!Spec => []RepairSound
<1>1. DomInv /\ [Domains!Next]_(Domains!vars) => DomInv'
    <2> SUFFICES ASSUME DomInv, [Domains!Next]_(Domains!vars) PROVE DomInv'
        BY Zenon
    <2>1. CASE UNCHANGED Domains!vars
        BY <2>1, StutterSound, ZenonT(60)
    <2>2. CASE Domains!LoadRecord
        BY <2>2, LoadRecordSound, ZenonT(60)
    <2>3. CASE Domains!LoadEof
        BY <2>3, LoadEofSound, ZenonT(60)
    <2>4. CASE Domains!LoadOpenError
        BY <2>4, LoadOpenErrorSound, Zenon
    <2>5. CASE Domains!LoadError
        BY <2>5, LoadErrorSound, Zenon
    <2>6. CASE Domains!RepairRecord
        BY <2>6, RepairRecordSound, Zenon
    <2>7. CASE Domains!RepairError
        BY <2>7, RepairErrorSound, Zenon
    <2>8. CASE Domains!RepairEnds
        BY <2>8, RepairEndsSound, Zenon
    <2>9. CASE Domains!RepairGivesUp
        BY <2>9, RepairGivesUpSound, Zenon
    <2> QED
        BY <2>1, <2>2, <2>3, <2>4, <2>5, <2>6, <2>7, <2>8, <2>9, ZenonT(60) DEF Domains!Next
<1> QED
    BY DomInit, DomInvSound, <1>1, PTL DEF Domains!Spec

=============================================================================
