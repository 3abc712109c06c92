--------------------------- MODULE ExclusiveFiles ---------------------------
(***************************************************************************)
(* What the open-file layer promises: a file is open in at most one        *)
(* process, and only that process reads it, writes it and moves its        *)
(* cursor, which starts at the beginning of the file.                      *)
(***************************************************************************)
EXTENDS Integers, Sequences

CONSTANTS Proc, Entry, Value, None, MaxSize

VARIABLES content,  \* the bytes of each file, None if it does not exist
          holder,   \* the process that has it open, or None
          pos,      \* its cursor, 0 when it is not open
          caller    \* the process that made the last call

vars == <<content, holder, pos, caller>>

Min2(m, n) == IF m < n THEN m ELSE n

Init ==
    /\ content = [e \in Entry |-> None]
    /\ holder = [e \in Entry |-> None]
    /\ pos = [e \in Entry |-> 0]
    /\ caller \in Proc

Acquire(p, e) ==
    /\ holder[e] = None
    /\ content[e] # None \/ content' = [content EXCEPT ![e] = << >>]
    /\ content[e] = None \/ UNCHANGED content
    /\ holder' = [holder EXCEPT ![e] = p]
    /\ UNCHANGED pos

Release(p, e) ==
    /\ holder[e] = p
    /\ holder' = [holder EXCEPT ![e] = None]
    /\ pos' = [pos EXCEPT ![e] = 0]
    /\ UNCHANGED content

\* Bytes are read one by one here; at the end of the file nothing happens.
Read(p, e) ==
    /\ holder[e] = p /\ pos[e] < Len(content[e])
    /\ pos' = [pos EXCEPT ![e] = @ + 1]
    /\ UNCHANGED <<content, holder>>

\* A byte goes where the cursor is, or at the end if the cursor is past it.
Write(p, e, v) ==
    /\ holder[e] = p
    /\ LET at == Min2(pos[e], Len(content[e]))
       IN  content' = [content EXCEPT ![e] = SubSeq(@, 1, at) \o <<v>> \o SubSeq(@, at + 2, Len(@))]
    /\ pos' = [pos EXCEPT ![e] = @ + 1]
    /\ UNCHANGED holder

Seek(p, e, n) ==
    /\ holder[e] = p
    /\ pos' = [pos EXCEPT ![e] = n]
    /\ UNCHANGED <<content, holder>>

\* A call that fails, or concerns only rights.
Other == UNCHANGED <<content, holder, pos>>

Next ==
    \E p \in Proc :
        /\ caller' = p
        /\ \/ Other
           \/ \E e \in Entry : \/ Acquire(p, e) \/ Release(p, e) \/ Read(p, e)
                               \/ \E v \in Value : Write(p, e, v)
                               \/ \E n \in 0..MaxSize : Seek(p, e, n)

Spec == Init /\ [][Next]_vars
=============================================================================
