------------------------------ MODULE FilePart ------------------------------
(***************************************************************************)
(* The logical file system as a part that stands beside others, and what   *)
(* is claimed of it.                                                       *)
(***************************************************************************)
CONSTANTS Proc, Value, None, Path, Entry, EntryOf, DirOf, Uid, Modes, Uses, MaxFds, MaxSize

VARIABLES kind, name, data, fcbs, fds, nextFd, perms, asked, shared, caller, use

Fs == INSTANCE LogicalFs

\* LogicalFs::open, close, create, delete, rename, mkdir and rmdir: two open files
\* are never one file of the volume under two spellings; who holds the lock of a
\* file has a descriptor to close; and what exists is in a directory that exists.
FilesSound == Fs!FilesSound

\* LogicalFs::open, read, write, seek and close make files exclusive, as long as
\* none is deleted, renamed or marked as shared.
ImplementsFiles == Fs!ImplementsFiles
=============================================================================
