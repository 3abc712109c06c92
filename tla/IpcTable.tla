------------------------------ MODULE IpcTable ------------------------------
(***************************************************************************)
(* The handles of IPC objects (ipc/table.rs, ipc/shm.rs) and the system    *)
(* calls that make and drop them: SYS_PIPE_CREATE, SYS_SHM_OPEN,           *)
(* SYS_SHM_CLOSE, and the streams calls on a shared memory handle.         *)
(*                                                                         *)
(* Objects are numbered in the order they are made, handles count up from  *)
(* 0.  An object lives while an Arc to it does: an entry of IPC_TABLE or   *)
(* of SHM_REGISTRY.  What pipes do is in Pipe.                             *)
(***************************************************************************)
EXTENDS Integers, FiniteSets, Functions

CONSTANTS Name,        \* names of shared memory
          Size,        \* sizes asked for
          MaxHandles   \* bound on the handles made in one behaviour

ASSUME IpcTableAssumption == Size \subseteq Nat /\ MaxHandles \in Nat /\ "pipe" \notin Name

VARIABLES map,          \* IpcTable::map: handle -> object
          next_handle,  \* IpcTable::next_handle
          registry,     \* SHM_REGISTRY: name -> object
          objects,      \* every object made: its kind and size
          opened        \* history: the name each handle was opened with, or "pipe"

vars == <<map, next_handle, registry, objects, opened>>

Handle == 0..(MaxHandles - 1)

TypeOK ==
    /\ next_handle \in 0..MaxHandles
    /\ DOMAIN map \subseteq 0..(next_handle - 1)
    /\ DOMAIN registry \subseteq Name
    /\ \A h \in DOMAIN map : map[h] \in DOMAIN objects
    /\ \A n \in DOMAIN registry : registry[n] \in DOMAIN objects
    /\ \A o \in DOMAIN objects : objects[o] \in [kind : {"pipe", "shm"}, size : Size \cup {0}]
    /\ DOMAIN opened \subseteq Handle

Empty == [x \in {} |-> 0]

Init ==
    /\ map = Empty /\ registry = Empty /\ objects = Empty /\ opened = Empty
    /\ next_handle = 0

NewObject == Cardinality(DOMAIN objects)

With(f, x, y) == [z \in DOMAIN f \cup {x} |-> IF z = x THEN y ELSE f[z]]
Without(f, x) == Restrict(f, DOMAIN f \ {x})
-----------------------------------------------------------------------------
\* Mutant: a handle is the number of entries, so that a freed one comes again.
InsertReuses(o, as) ==
    LET h == Cardinality(DOMAIN map)
    IN  /\ next_handle < MaxHandles
        /\ map' = With(map, h, o)
        /\ opened' = With(opened, h, as)
        /\ next_handle' = next_handle + 1

\* IpcTable::insert.
Insert(o, as) ==
    /\ next_handle < MaxHandles
    /\ map' = With(map, next_handle, o)
    /\ opened' = With(opened, next_handle, as)
    /\ next_handle' = next_handle + 1

\* SYS_PIPE_CREATE.
PipeCreate ==
    /\ objects' = With(objects, NewObject, [kind |-> "pipe", size |-> 0])
    /\ Insert(NewObject, "pipe")
    /\ UNCHANGED registry

\* Mutant: every open makes an object of its own.
ShmOpenFresh(n, size) ==
    /\ objects' = With(objects, NewObject, [kind |-> "shm", size |-> size])
    /\ registry' = With(registry, n, NewObject)
    /\ Insert(NewObject, n)

\* SYS_SHM_OPEN: the object of that name, made with the given size if there
\* is none; the size of a later open is not looked at.
ShmOpen(n, size) ==
    IF n \in DOMAIN registry
    THEN Insert(registry[n], n) /\ UNCHANGED <<registry, objects>>
    ELSE /\ objects' = With(objects, NewObject, [kind |-> "shm", size |-> size])
         /\ registry' = With(registry, n, NewObject)
         /\ Insert(NewObject, n)

\* SYS_SHM_CLOSE: the handle is removed, whatever it is and if it is there.
ShmClose(h) ==
    /\ map' = Without(map, h)
    /\ UNCHANGED <<next_handle, registry, objects, opened>>
-----------------------------------------------------------------------------
Next ==
    \/ PipeCreate
    \/ \E n \in Name, size \in Size : ShmOpen(n, size)
    \/ \E h \in Handle : ShmClose(h)

Spec == Init /\ [][Next]_vars
-----------------------------------------------------------------------------
Live(o) == (\E h \in DOMAIN map : map[h] = o) \/ (\E n \in DOMAIN registry : registry[n] = o)

\* A handle means the same object for as long as it works, and once closed it
\* stays closed: a task that kept a stale handle never reaches another object.
HandleIsStable ==
    [][\A h \in 0..(next_handle - 1) :
          h \in DOMAIN map' => h \in DOMAIN map /\ map'[h] = map[h]]_vars

\* Two handles share their memory exactly if they were opened by one name, in
\* whatever order opens and closes came (SYS_SHM_OPEN goes by the name).
SharedByName ==
    \A g, h \in DOMAIN map : g # h => (map[g] = map[h] <=> opened[g] = opened[h] /\ opened[g] # "pipe")

\* shm.rs: shared memory is "Handled cleanly when its reference count drops to
\* 0 via IPC_TABLE removal", so none lives without a handle.
ShmFreedWithLastHandle ==
    \A o \in DOMAIN objects : Live(o) => \E h \in DOMAIN map : map[h] = o
=============================================================================
