------------------------------ MODULE LogicalFs ------------------------------
(***************************************************************************)
(* The logical file system: open files (fs/vfs.rs, fcb.rs, fd_table.rs),   *)
(* the rights of the overlay (overlay.rs) and the calls that reach them    *)
(* (dispatch.rs).  Every call holds the lock of FS from its first look to  *)
(* its last change, so a call is one step.  The FAT volume is external: it *)
(* looks names up without regard to case, so that several paths name one   *)
(* entry, and keeps the spelling an entry was created with.                *)
(* Error codes are left out; a call that fails changes nothing but what it *)
(* changed before it failed.                                               *)
(***************************************************************************)
EXTENDS Integers, Sequences, FiniteSets, FiniteSetsExt

CONSTANTS Proc, Value, None,
          Path,       \* the paths that calls are made with
          Entry,      \* directory entries: paths up to case
          EntryOf,    \* the entry that a path names
          DirOf,      \* the directory of an entry, None for the root
          Uid,        \* user of each process; its group is the same number
          Modes,      \* what chmod is called with, 9 bits
          Uses,       \* what programs do in one behaviour: calls, and paths
          MaxFds,     \* bound on the descriptors a process gets
          MaxSize     \* bound on the size of a file and on the cursor

AllOps == {"open", "create", "read", "write", "seek", "rights", "delete", "shared", "rename", "dirs"}

\* Descriptors, control blocks and records of the overlay.
Fd == 3..(MaxFds + 2)
Fcb == [cursor : 0..(2 * MaxSize), count : 1..2, lockedBy : Proc, isShared : BOOLEAN]
Record == [uid : Nat, gid : Nat, owner : 0..7, group : 0..7, world : 0..7]

FsAssumption ==
    /\ EntryOf \in [Path -> Entry] /\ DirOf \in [Entry -> Entry \cup {None}]
    /\ \A e \in Entry : \E g \in Path : EntryOf[g] = e
    /\ Uid \in [Proc -> Nat] /\ Modes \subseteq 0..511
    /\ Uses \subseteq [ops : SUBSET AllOps, paths : SUBSET Path]
    /\ MaxFds \in Nat /\ MaxSize \in Nat
    /\ None \notin Path \cup Entry \cup Proc \cup Fcb \cup Record /\ None \notin Seq(Value)

VARIABLES kind, name, data,  \* the volume: what an entry is, its spelling and bytes
          fcbs,     \* file control blocks of open files
          fds,      \* per-process table: the path of each descriptor
          nextFd,   \* its next number
          perms,    \* the overlay
          asked,    \* history: the mode last given to chmod, None for no record
          shared,   \* history: the entries that were marked as shared
          caller,   \* history: the process that made the last call
          use       \* the calls and paths of this behaviour

disk == <<kind, name, data>>
open == <<fcbs, fds, nextFd>>
vars == <<disk, open, perms, asked, shared, caller, use>>

NewFcb(p) == [cursor |-> 0, count |-> 1, lockedBy |-> p, isShared |-> FALSE]

TypeOK ==
    /\ kind \in [Entry -> {"none", "file", "dir"}]
    /\ name \in [Entry -> Path]
    /\ data \in [Entry -> Seq(Value)]
    /\ \A e \in Entry : Len(data[e]) <= MaxSize /\ (kind[e] # "file" => data[e] = << >>)
    /\ fcbs \in [Path -> Fcb \cup {None}]
    /\ fds \in [Proc -> [Fd -> Path \cup {None}]]
    /\ nextFd \in [Proc -> 3..(MaxFds + 3)]
    /\ perms \in [Path -> Record \cup {None}]

Init ==
    /\ kind = [e \in Entry |-> "none"]
    /\ name = [e \in Entry |-> CHOOSE g \in Path : EntryOf[g] = e]
    /\ data = [e \in Entry |-> << >>]
    /\ fcbs = [g \in Path |-> None]
    /\ fds = [p \in Proc |-> [d \in Fd |-> None]]
    /\ nextFd = [p \in Proc |-> 3]
    /\ perms = [g \in Path |-> None] /\ asked = [g \in Path |-> None]
    /\ shared = {}
    /\ caller \in Proc
    /\ use \in Uses
-----------------------------------------------------------------------------
\* case_conflict: against open files only.
CaseConflict(g) == \E h \in Path : fcbs[h] # None /\ h # g /\ EntryOf[h] = EntryOf[g]

CanRead(rwx)  == (rwx \div 4) % 2 = 1
CanWrite(rwx) == (rwx \div 2) % 2 = 1

\* The record of g that applies to process p in check_perm.
Tier(g, p) == IF Uid[p] = perms[g].uid THEN perms[g].owner
              ELSE IF Uid[p] = perms[g].gid THEN perms[g].group
              ELSE perms[g].world

CheckPerm(g, p, write) ==
    \/ Uid[p] = 0
    \/ perms[g] = None
    \/ perms[g] # None /\ (IF write THEN CanWrite(Tier(g, p)) ELSE CanRead(Tier(g, p)))

InDir(e) == DirOf[e] = None \/ (DirOf[e] # None /\ kind[DirOf[e]] = "dir")
Children(e) == {c \in Entry : DirOf[c] = e /\ kind[c] # "none"}

\* Entry e and all below it: what every set has that holds e and, with a
\* directory, the entries in it.
Below(e) ==
    {c \in Entry : \A S \in SUBSET Entry :
                     e \in S /\ (\A b \in Entry : DirOf[b] \in S => b \in S) => c \in S}

\* Mutant: the descriptor is not counted.
TakeUncounted(p, g) ==
    IF fcbs[g] # None
    THEN UNCHANGED open
    ELSE /\ fcbs' = [fcbs EXCEPT ![g] = [NewFcb(p) EXCEPT !.count = 0]]
         /\ fds' = [fds EXCEPT ![p][nextFd[p]] = g]
         /\ nextFd' = [nextFd EXCEPT ![p] = @ + 1]

\* The tail of open and create: the lock, the count and a descriptor.
Take(p, g) ==
    IF fcbs[g] # None
    THEN UNCHANGED open
    ELSE /\ fcbs' = [fcbs EXCEPT ![g] = NewFcb(p)]
         /\ fds' = [fds EXCEPT ![p][nextFd[p]] = g]
         /\ nextFd' = [nextFd EXCEPT ![p] = @ + 1]

Open(p, g) ==
    /\ "open" \in use.ops /\ nextFd[p] \in Fd
    /\ ~CaseConflict(g) /\ CheckPerm(g, p, FALSE)
    /\ kind[EntryOf[g]] = "file"
    /\ Take(p, g)
    /\ UNCHANGED <<disk, perms, asked, shared>>

\* Mutant: no look for open files with another spelling.
CreateAnyCase(p, g) ==
    /\ "create" \in use.ops /\ nextFd[p] \in Fd
    /\ kind[EntryOf[g]] # "dir" /\ InDir(EntryOf[g])
    /\ kind' = [kind EXCEPT ![EntryOf[g]] = "file"]
    /\ name' = [name EXCEPT ![EntryOf[g]] = IF kind[EntryOf[g]] = "file" THEN @ ELSE g]
    /\ Take(p, g)
    /\ UNCHANGED <<data, perms, asked, shared>>

\* create_file of the volume opens a file that exists.
Create(p, g) ==
    /\ "create" \in use.ops /\ nextFd[p] \in Fd
    /\ ~CaseConflict(g)
    /\ kind[EntryOf[g]] # "dir" /\ InDir(EntryOf[g])
    /\ kind' = [kind EXCEPT ![EntryOf[g]] = "file"]
    /\ name' = [name EXCEPT ![EntryOf[g]] = IF kind[EntryOf[g]] = "file" THEN @ ELSE g]
    /\ Take(p, g)
    /\ UNCHANGED <<data, perms, asked, shared>>

\* Mutant: the control block of a closed file stays.
CloseKeepsFcb(p, d) ==
    /\ fds[p][d] # None
    /\ fds' = [fds EXCEPT ![p][d] = None]
    /\ UNCHANGED <<fcbs, nextFd, disk, perms, asked, shared>>

Close(p, d) ==
    /\ fds[p][d] # None
    /\ LET g == fds[p][d]
       IN  /\ fds' = [fds EXCEPT ![p][d] = None]
           /\ IF fcbs[g] = None THEN UNCHANGED fcbs
              ELSE fcbs' = [fcbs EXCEPT ![g] =
                               IF @.count <= 1 THEN None
                               ELSE [@ EXCEPT !.count = @ - 1,
                                              !.lockedBy = IF @ = p THEN None ELSE @]]
    /\ UNCHANGED <<nextFd, disk, perms, asked, shared>>

\* The path of a descriptor whose file has a control block, with its entry.
Usable(p, d) == fds[p][d] # None /\ fcbs[fds[p][d]] # None /\ kind[EntryOf[fds[p][d]]] = "file"

\* The volume does not seek past the end of a file.
Place(g) == Min({fcbs[g].cursor, Len(data[EntryOf[g]])})

\* A read of one byte; none at the end of the file.
Read(p, d) ==
    /\ "read" \in use.ops /\ Usable(p, d)
    /\ LET g == fds[p][d]
       IN  /\ CheckPerm(g, p, FALSE)
           /\ fcbs[g].cursor < MaxSize
           /\ fcbs' = [fcbs EXCEPT ![g].cursor =
                          @ + (IF Place(g) < Len(data[EntryOf[g]]) THEN 1 ELSE 0)]
    /\ UNCHANGED <<fds, nextFd, disk, perms, asked, shared>>

\* Mutant: every write appends.
WriteAppends(p, d, v) ==
    /\ "write" \in use.ops /\ Usable(p, d)
    /\ LET g == fds[p][d]
           e == EntryOf[g]
       IN  /\ ~fcbs[g].isShared /\ CheckPerm(g, p, TRUE)
           /\ fcbs[g].cursor < MaxSize /\ Len(data[e]) < MaxSize
           /\ data' = [data EXCEPT ![e] = Append(@, v)]
           /\ fcbs' = [fcbs EXCEPT ![g].cursor = @ + 1]
    /\ UNCHANGED <<kind, name, fds, nextFd, perms, asked, shared>>

\* A write of one byte at the cursor.
Write(p, d, v) ==
    /\ "write" \in use.ops /\ Usable(p, d)
    /\ LET g == fds[p][d]
           e == EntryOf[g]
       IN  /\ ~fcbs[g].isShared /\ CheckPerm(g, p, TRUE)
           /\ fcbs[g].cursor < MaxSize
           /\ data' = [data EXCEPT ![e] = SubSeq(@, 1, Place(g)) \o <<v>> \o SubSeq(@, Place(g) + 2, Len(@))]
           /\ fcbs' = [fcbs EXCEPT ![g].cursor = @ + 1]
    /\ UNCHANGED <<kind, name, fds, nextFd, perms, asked, shared>>

Seek(p, d, n) ==
    /\ "seek" \in use.ops /\ fds[p][d] # None /\ fcbs[fds[p][d]] # None
    /\ fcbs' = [fcbs EXCEPT ![fds[p][d]].cursor = n]
    /\ UNCHANGED <<fds, nextFd, disk, perms, asked, shared>>

\* delete: the control block goes, the descriptors on the file stay.
Delete(g) ==
    /\ "delete" \in use.ops
    /\ fcbs[g] = None \/ (fcbs[g] # None /\ ~fcbs[g].isShared)
    /\ kind[EntryOf[g]] # "none" /\ Children(EntryOf[g]) = {}
    /\ kind' = [kind EXCEPT ![EntryOf[g]] = "none"]
    /\ data' = [data EXCEPT ![EntryOf[g]] = << >>]
    /\ fcbs' = [fcbs EXCEPT ![g] = None]
    /\ perms' = [perms EXCEPT ![g] = None] /\ asked' = [asked EXCEPT ![g] = None]
    /\ UNCHANGED <<name, fds, nextFd, shared>>

MarkShared(g) ==
    /\ "shared" \in use.ops /\ fcbs[g] # None
    /\ fcbs' = [fcbs EXCEPT ![g].isShared = TRUE]
    /\ shared' = shared \cup {EntryOf[g]}
    /\ UNCHANGED <<fds, nextFd, disk, perms, asked>>

\* rename of a file: only the volume changes.
Rename(g, h) ==
    LET old == EntryOf[g]
        new == EntryOf[h]
    IN  /\ "rename" \in use.ops
        /\ ~CaseConflict(h)
        /\ fcbs[g] = None \/ (fcbs[g] # None /\ ~fcbs[g].isShared)
        /\ kind[old] = "file" /\ kind[new] = "none" /\ InDir(new)
        /\ kind' = [kind EXCEPT ![old] = "none", ![new] = "file"]
        /\ name' = [name EXCEPT ![new] = h]
        /\ data' = [data EXCEPT ![old] = << >>, ![new] = data[old]]
        /\ UNCHANGED <<open, perms, asked, shared>>

Mkdir(g) ==
    /\ "dirs" \in use.ops
    /\ ~CaseConflict(g)
    /\ kind[EntryOf[g]] = "none" /\ InDir(EntryOf[g])
    /\ kind' = [kind EXCEPT ![EntryOf[g]] = "dir"]
    /\ name' = [name EXCEPT ![EntryOf[g]] = g]
    /\ UNCHANGED <<data, open, perms, asked, shared>>

\* Mutant: what is below stays.
RmdirShallow(g) ==
    /\ "dirs" \in use.ops
    /\ kind[EntryOf[g]] = "dir"
    /\ kind' = [kind EXCEPT ![EntryOf[g]] = "none"]
    /\ UNCHANGED <<data, name, open, perms, asked, shared>>

\* rmdir: remove_dir_recursive removes what is below, open files too.
Rmdir(g) ==
    LET gone == Below(EntryOf[g])
    IN  /\ "dirs" \in use.ops
        /\ kind[EntryOf[g]] = "dir"
        /\ kind' = [e \in Entry |-> IF e \in gone THEN "none" ELSE kind[e]]
        /\ data' = [e \in Entry |-> IF e \in gone THEN << >> ELSE data[e]]
        /\ UNCHANGED <<name, open, perms, asked, shared>>

\* chmod: the mode is cut to 8 bits before its three tiers are taken out.
Chmod(g, mode) ==
    LET bits == mode % 256
    IN  /\ "rights" \in use.ops /\ perms[g] # None
        /\ perms' = [perms EXCEPT ![g] = [@ EXCEPT !.owner = bits \div 64, !.group = (bits \div 8) % 8, !.world = bits % 8]]
        /\ asked' = [asked EXCEPT ![g] = mode]
        /\ UNCHANGED <<disk, open, shared>>

\* chown: a path without a record gets one, rwxr-xr-x.
Chown(g, u) ==
    /\ "rights" \in use.ops
    /\ IF perms[g] # None
       THEN perms' = [perms EXCEPT ![g].uid = u, ![g].gid = u] /\ UNCHANGED asked
       ELSE /\ perms' = [perms EXCEPT ![g] = [uid |-> u, gid |-> u, owner |-> 7, group |-> 5, world |-> 5]]
            /\ asked' = [asked EXCEPT ![g] = 7 * 64 + 5 * 8 + 5]
    /\ UNCHANGED <<disk, open, shared>>
-----------------------------------------------------------------------------
Call(p) ==
    /\ caller' = p
    /\ \/ \E g \in use.paths : \/ Open(p, g) \/ Create(p, g) \/ Delete(g) \/ MarkShared(g) \/ Mkdir(g) \/ Rmdir(g)
                               \/ \E h \in use.paths : Rename(g, h)
                               \/ \E mode \in Modes : Chmod(g, mode)
                               \/ \E q \in Proc : Chown(g, Uid[q])
       \/ \E d \in Fd : \/ Close(p, d) \/ Read(p, d)
                        \/ \E v \in Value : Write(p, d, v)
                        \/ \E n \in 0..MaxSize : Seek(p, d, n)

Next == (\E p \in Proc : Call(p)) /\ UNCHANGED use

Spec == Init /\ [][Next]_vars
-----------------------------------------------------------------------------
\* A locked file can be unlocked: the process that holds the lock of a control
\* block has a descriptor to close, whatever was deleted or renamed meanwhile.
LockHasDescriptor ==
    \A g \in Path : fcbs[g] # None =>
        /\ fcbs[g].count = 1
        /\ \E d \in Fd : fds[fcbs[g].lockedBy][d] = g

\* The tree stays whole through mkdir, rename and the recursive rmdir: what exists
\* is in a directory that exists.
NoOrphans == \A e \in Entry : kind[e] # "none" => InDir(e)

\* Two control blocks never stand for one file under two spellings, so the lock
\* of a file and its cursor are in one place.
OneFcbPerFile ==
    \A g, h \in Path : fcbs[g] # None /\ fcbs[h] # None /\ EntryOf[g] = EntryOf[h] => g = h

\* Open files and the tree are sound, whatever processes open, close, create, delete,
\* rename, make and remove.
FilesSound == TypeOK /\ OneFcbPerFile /\ LockHasDescriptor /\ NoOrphans

HolderOf(e) == LET gs == {g \in Path : fcbs[g] # None /\ EntryOf[g] = e}
               IN  IF gs = {} THEN None ELSE CHOOSE g \in gs : TRUE

\* No call changes what the names of files mean.
NamesStay == use.ops \cap {"delete", "shared", "rename", "dirs"} = {}
Seen(e) == NamesStay /\ HolderOf(e) # None

\* The files that programs see: their bytes, who has them open, and the cursor.
Contents == [e \in Entry |-> IF NamesStay /\ kind[e] = "file" THEN data[e] ELSE None]
Holders  == [e \in Entry |-> IF Seen(e) THEN fcbs[HolderOf(e)].lockedBy ELSE None]
Cursors  == [e \in Entry |-> IF Seen(e) THEN fcbs[HolderOf(e)].cursor ELSE 0]

Files == INSTANCE ExclusiveFiles WITH content <- Contents, holder <- Holders, pos <- Cursors

\* Open files behave as exclusive files, as long as no file is deleted, renamed
\* or marked as shared: only the process that has a file open reads, writes and
\* moves it, from a cursor that starts at 0 at every open.
ImplementsFiles == Files!Spec

\* "File locking is mandatory and exclusive, preventing multiple processes from
\* operating on the same file": a file with a control block has one descriptor.
OneDescriptorPerFile ==
    \A g \in Path : fcbs[g] # None => Cardinality({x \in Proc \X Fd : fds[x[1]][x[2]] = g}) <= 1

\* "Once the creator of a file marks it as shared, its contents become
\* permanently unalterable".
SharedNeverChanges ==
    [][\A e \in shared : kind[e] = "file" /\ kind'[e] = "file" => data'[e] = data[e]]_vars

\* "The kernel rejects any open() or create() call whose name differs only in
\* case from an existing entry": an open file has the spelling of its entry.
SpellingMatches == \A g \in Path : fcbs[g] # None /\ kind[EntryOf[g]] = "file" => name[EntryOf[g]] = g

\* The rights of a record are the "rwx permission bits" chmod was called with.
ModeIsKept ==
    \A g \in Path : perms[g] # None => asked[g] = perms[g].owner * 64 + perms[g].group * 8 + perms[g].world

\* A file keeps its record when it is renamed: metadata "tracks names, sizes
\* in bytes, directory flag, access protection rights".
RightsFollowFile ==
    [][\A g, h \in Path : /\ kind[EntryOf[g]] = "file" /\ kind'[EntryOf[g]] = "none"
                          /\ kind[EntryOf[h]] = "none" /\ kind'[EntryOf[h]] = "file"
                          /\ name[EntryOf[g]] = g /\ name'[EntryOf[h]] = h
                          => perms'[h] = perms[g]]_vars
=============================================================================
