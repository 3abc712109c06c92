----------------------------- MODULE SystemDomain -----------------------------
(***************************************************************************)
(* The overlay files auth.db and perms.db at boot (fs/system_domain.rs):   *)
(* load_at_boot reads the records, leaves out those whose status says that *)
(* an update was in flux, and rewrites a file that had any.  Both files    *)
(* are read and rewritten in the same way; a record is a status, a key (a  *)
(* uid or a path) and a value.  A file may end inside a record, a read may *)
(* fail, and the result of a write in a repair is not looked at.           *)
(***************************************************************************)
EXTENDS Integers, Sequences, FiniteSets

CONSTANTS NumKeys, Value, None,
          MaxRecords,   \* bound on the records of a file
          Faults        \* which of "read" and "write" may fail

DomainAssumption == NumKeys \in Nat \ {0} /\ MaxRecords \in Nat

Key == 1..NumKeys
Record == [dirty : BOOLEAN, key : Key, value : Value]

VARIABLES file,    \* the records, whole ones
          torn,    \* the file ends inside a further record
          garbled, \* a repair has put bytes behind the records that are none
          before,  \* history: what the file held at boot
          table,   \* AuthDb or PermsDb
          pc,      \* "load", "repair" or "done"
          pos,     \* records read or written so far
          dirty,   \* what load_auth_db or load_perms_db returns
          todo,    \* keys that the repair has still to write, in order
          faulty   \* history: a read or a write failed

vars == <<file, torn, garbled, before, table, pc, pos, dirty, todo, faulty>>

Files == UNION {[1..n -> Record] : n \in 0..MaxRecords}

TypeOK ==
    /\ file \in Seq(Record) /\ Len(file) <= MaxRecords
    /\ torn \in BOOLEAN /\ garbled \in BOOLEAN /\ dirty \in BOOLEAN
    /\ table \in [Key -> Value \cup {None}]
    /\ pc \in {"load", "repair", "done"} /\ pos \in 0..MaxRecords

Init ==
    /\ file \in Files /\ torn \in BOOLEAN /\ garbled = FALSE /\ before = file
    /\ table = [k \in Key |-> None]
    /\ pc = "load" /\ pos = 0 /\ dirty = FALSE /\ todo = << >> /\ faulty = FALSE
-----------------------------------------------------------------------------
\* Mutant: a record in flux is taken over too.
LoadRecordAny ==
    /\ pc = "load" /\ pos < Len(file)
    /\ pos' = pos + 1
    /\ table' = [table EXCEPT ![file[pos + 1].key] = file[pos + 1].value]
    /\ dirty' = (dirty \/ file[pos + 1].dirty)
    /\ UNCHANGED <<file, torn, garbled, before, pc, todo, faulty>>

\* read_exact_or_eof returns a record: a clean one replaces an earlier one of its key.
LoadRecord ==
    /\ pc = "load" /\ pos < Len(file)
    /\ pos' = pos + 1
    /\ LET r == file[pos + 1]
       IN  IF r.dirty
           THEN dirty' = TRUE /\ UNCHANGED table
           ELSE table' = [table EXCEPT ![r.key] = r.value] /\ UNCHANGED dirty
    /\ UNCHANGED <<file, torn, garbled, before, pc, todo, faulty>>

\* The keys of the table in order, as iter() gives them.
InOrder(S) == CHOOSE q \in [1..Cardinality(S) -> S] :
                \A i, j \in 1..Cardinality(S) : i < j => q[i] < q[j]
Keys == InOrder({k \in Key : table[k] # None})

\* The load ends, and load_at_boot repairs a file with dirty records.
LoadEnds(isDirty) ==
    /\ dirty' = isDirty
    /\ pc' = (IF isDirty THEN "repair" ELSE "done")
    /\ pos' = 0
    /\ todo' = (IF isDirty THEN Keys ELSE << >>)
    /\ UNCHANGED <<file, torn, garbled, before, table>>

\* The end of the file; a part of a record is an error.
LoadEof ==
    /\ pc = "load" /\ pos = Len(file)
    /\ LoadEnds(dirty \/ torn)
    /\ UNCHANGED faulty

\* The file cannot be opened: as if there were none.
LoadOpenError ==
    /\ pc = "load" /\ pos = 0 /\ "read" \in Faults
    /\ pc' = "done" /\ faulty' = TRUE
    /\ UNCHANGED <<file, torn, garbled, before, table, pos, dirty, todo>>

\* A read fails, and the load stops early.
LoadError ==
    /\ pc = "load" /\ "read" \in Faults
    /\ LoadEnds(TRUE)
    /\ faulty' = TRUE

\* Mutant: no seek to the start, so the records go behind those of the file.
RepairRecordAppends ==
    /\ pc = "repair" /\ todo # << >>
    /\ file' = Append(file, [dirty |-> FALSE, key |-> Head(todo), value |-> table[Head(todo)]])
    /\ pos' = pos + 1 /\ todo' = Tail(todo)
    /\ UNCHANGED <<torn, garbled, before, table, pc, dirty, faulty>>

\* repair: the next entry is written as a clean record.
RepairRecord ==
    /\ pc = "repair" /\ todo # << >>
    /\ LET r == [dirty |-> FALSE, key |-> Head(todo), value |-> table[Head(todo)]]
       IN  file' = CASE garbled                     -> file
                     [] ~garbled /\ pos < Len(file) -> [file EXCEPT ![pos + 1] = r]
                     [] OTHER                       -> Append(file, r)
    /\ pos' = (IF garbled THEN pos ELSE pos + 1) /\ todo' = Tail(todo)
    /\ UNCHANGED <<torn, garbled, before, table, pc, dirty, faulty>>

\* A write fails and nobody notices.  Some of its bytes may be in the file, and
\* then the records behind them are out of place.
RepairError ==
    /\ pc = "repair" /\ todo # << >> /\ "write" \in Faults
    /\ todo' = Tail(todo) /\ faulty' = TRUE
    /\ \/ UNCHANGED <<file, garbled>>
       \/ file' = SubSeq(file, 1, pos) /\ garbled' = TRUE
    /\ UNCHANGED <<torn, before, table, pc, pos, dirty>>

\* Mutant: what is behind the records that were written stays.
RepairEndsUntruncated ==
    /\ pc = "repair" /\ todo = << >>
    /\ pc' = "done"
    /\ UNCHANGED <<file, torn, garbled, before, table, pos, dirty, todo, faulty>>

\* truncate at the place where the last write ended.
RepairEnds ==
    /\ pc = "repair" /\ todo = << >>
    /\ file' = SubSeq(file, 1, pos) /\ torn' = garbled
    /\ pc' = "done"
    /\ UNCHANGED <<garbled, before, table, pos, dirty, todo, faulty>>

\* The file cannot be opened for the repair, or truncate fails: nothing more happens.
RepairGivesUp ==
    /\ pc = "repair" /\ "write" \in Faults
    /\ \/ pos = 0 /\ todo = Keys
       \/ todo = << >>
    /\ pc' = "done" /\ faulty' = TRUE /\ torn' = (torn \/ garbled)
    /\ UNCHANGED <<file, garbled, before, table, pos, dirty, todo>>

Next == LoadRecord \/ LoadEof \/ LoadOpenError \/ LoadError
        \/ RepairRecord \/ RepairError \/ RepairEnds \/ RepairGivesUp

Spec == Init /\ [][Next]_vars
-----------------------------------------------------------------------------
\* What a load makes of a file: the last clean record of each key.
Contents(records) ==
    [k \in Key |-> LET at == {i \in 1..Len(records) : records[i].key = k /\ ~records[i].dirty}
                   IN  IF at = {} THEN None ELSE records[CHOOSE i \in at : \A j \in at : j <= i].value]

\* After a boot without faults the table and the file agree, nothing in the file
\* is in flux, and the table is what the clean records of the file said.
BootRepairs ==
    pc = "done" /\ ~faulty =>
        /\ table = Contents(before)
        /\ Contents(file) = table
        /\ ~torn /\ \A i \in 1..Len(file) : ~file[i].dirty

\* Faults lose records but make up none: an entry of the table or of the file
\* was a clean record at boot, also when writes of the repair fail.
NothingMadeUp ==
    \A k \in Key :
        /\ table[k] # None => \E i \in 1..Len(before) : before[i] = [dirty |-> FALSE, key |-> k, value |-> table[k]]
        /\ Contents(file)[k] # None
              => \E i \in 1..Len(before) : before[i] = [dirty |-> FALSE, key |-> k, value |-> Contents(file)[k]]

\* The consistency checker is there "to verify and repair the /.system/ overlay
\* files": a clean record of the file is still there when it is done.
CleanRecordsKept == pc = "done" => \A k \in Key : Contents(before)[k] # None => Contents(file)[k] # None
=============================================================================
