----------------------------- MODULE MCStorage ------------------------------
(***************************************************************************)
(* Small instances of files and devices: the access matrix, open files,    *)
(* the overlay files at boot, the disk, its request queue, the console.    *)
(* They have no variable in common, so a behaviour has one of them at work *)
(* while the others stay in an initial state.                              *)
(***************************************************************************)
EXTENDS AccessMatrix, FilePart, DiskPart, DomainPart, ConsolePart, Integers, Sequences, TLC

CONSTANTS Parts,   \* which of the parts to check
          MaxLba, MaxCount, MaxBatch

\* The matrix as the boot tests leave it: an object with an owner, and one that
\* nobody governs, with a right that can be copied.  Domain 0 has a role.
TestRoles   == (0 :> {"read"}) @@ (1 :> {})
TestAcl     == (0 :> ("mine" :> {} @@ "free" :> {}))
            @@ (1 :> ("mine" :> {"owner"} @@ "free" :> {"read", "copy"}))
TestSecrets == (0 :> "none") @@ (1 :> "test")

\* A file with two spellings, and directories two deep.
TwoProcs    == {"p1", "p2"}
TwoUids     == ("p1" :> 0) @@ ("p2" :> 1)
Paths       == {"a", "A", "d", "d/b", "d/b/c"}
Entries     == {"a", "d", "d/b", "d/b/c"}
Folded      == [g \in Paths |-> IF g = "A" THEN "a" ELSE g]
Dirs        == ("a" :> None) @@ ("d" :> None) @@ ("d/b" :> "d") @@ ("d/b/c" :> "d/b")

\* Programs that work on one file, that share it, and that change the tree, the
\* upper part of it or all.
FileCalls  == [ops |-> {"open", "create", "read", "write", "seek", "rights"}, paths |-> {"a", "A"}]
ShareCalls == [ops |-> {"open", "create", "write", "shared"}, paths |-> {"a"}]
TreeCalls  == [ops |-> {"open", "create", "delete", "rename", "dirs"}, paths |-> {"a", "d", "d/b"}]
DeepCalls  == [ops |-> {"create", "dirs"}, paths |-> {"d", "d/b", "d/b/c"}]
AllUses    == {FileCalls, ShareCalls, TreeCalls, DeepCalls}

VARIABLES part,
          pending, qhead, batch, from, cscan, fcfs

Queue == INSTANCE DiskQueue WITH head <- qhead

ASSUME PartsAssumption ==
    /\ Parts \subseteq {"matrix", "files", "domains", "disk", "queue", "console"}
    /\ Fs!FsAssumption /\ Domains!DomainAssumption /\ Drive!DiskAssumption
    /\ Queue!QueueAssumption /\ Keys!ConsoleAssumption

fsVars      == <<kind, name, data, fcbs, fds, nextFd, perms, asked, shared, caller, use>>
domainVars  == <<file, torn, garbled, before, table, spc, spos, dirty, todo, faulty>>
diskVars    == <<bytes, crcs, dpos, dbuf, done, dpc, written, old, hurt>>
queueVars   == <<pending, qhead, batch, from, cscan, fcfs>>
consoleVars == <<ring, head, tail, line, ready, readyPos, blocking, result, typed, drained, got>>
allVars     == <<part, vars, fsVars, domainVars, diskVars, queueVars, consoleVars>>

MCInit ==
    /\ part \in Parts
    /\ Init /\ Drive!Init /\ Queue!Init /\ Keys!Init
    /\ Fs!Init
    /\ part # "files" => use = FileCalls /\ caller = "p1"
    /\ Domains!Init
    /\ part # "domains" => file = << >> /\ ~torn

MCNext ==
    \/ /\ part = "matrix" /\ Next
       /\ UNCHANGED <<part, fsVars, domainVars, diskVars, queueVars, consoleVars>>
    \/ /\ part = "files" /\ Fs!Next
       /\ UNCHANGED <<part, vars, domainVars, diskVars, queueVars, consoleVars>>
    \/ /\ part = "domains" /\ Domains!Next
       /\ UNCHANGED <<part, vars, fsVars, diskVars, queueVars, consoleVars>>
    \/ /\ part = "disk" /\ Drive!Next
       /\ UNCHANGED <<part, vars, fsVars, domainVars, queueVars, consoleVars>>
    \/ /\ part = "queue" /\ Queue!Next
       /\ UNCHANGED <<part, vars, fsVars, domainVars, diskVars, consoleVars>>
    \/ /\ part = "console" /\ Keys!Next
       /\ UNCHANGED <<part, vars, fsVars, domainVars, diskVars, queueVars>>

MCSpec == MCInit /\ [][MCNext]_allVars
-----------------------------------------------------------------------------
\* CscanScheduler::drain goes up from the head and comes back at most once, with
\* every request once and those of one sector in the order they came; requests that
\* FcfsScheduler::drain merged transfer the same sectors in the same order.
QueueSound ==
    part = "queue" => Queue!CscanSweeps /\ Queue!SameSectorInOrder /\ Queue!MergeIsTransparent

\* push_scancode, pop_scancode and dev_read: the ring holds the keys that found room
\* and were not drained, in order; reads return what was typed, in order, nothing
\* twice, and only characters of complete lines.
KeysSound ==
    part = "console" => Keys!TypeOK /\ Keys!RingKeepsOrder /\ Keys!ReadsReturnTyped
=============================================================================
