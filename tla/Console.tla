------------------------------- MODULE Console -------------------------------
(***************************************************************************)
(* Keyboard input: the interrupt handler puts scancodes into a ring        *)
(* (interrupts.rs), a read of the console drains it into the line under    *)
(* construction and takes bytes from the last complete line (console.rs,   *)
(* dev_read of dispatch.rs).  A read is a system call and runs with        *)
(* interrupts off.  Keys are their characters; KeyUp stands for every      *)
(* scancode that decodes to none.  The device table and ioctl are here     *)
(* too: reads are made in the mode that ioctl set.                         *)
(***************************************************************************)
EXTENDS Integers, Sequences

CONSTANTS Char, Newline, KeyUp,
          RingSize,   \* 256 in the code
          LineSize,   \* 256 in the code
          ReadLens,   \* lengths of the buffers that reads are made with
          MaxKeys     \* bound on the keys pressed

ConsoleAssumption == RingSize \in Nat \ {0, 1} /\ LineSize \in Nat \ {0} /\ Newline \in Char

VARIABLES ring, head, tail,   \* SCANCODE_BUF, SCANCODE_HEAD, SCANCODE_TAIL
          line,               \* line_buf up to line_len
          ready, readyPos,    \* ready_buf up to ready_len, ready_pos
          blocking,           \* of the device table
          result,             \* whether the last read returned EAGAIN, and its mode
          typed,              \* history: the scancodes that found room
          drained,            \* history: how many of them were drained
          got                 \* history: the bytes that reads returned

vars == <<ring, head, tail, line, ready, readyPos, blocking, result, typed, drained, got>>

TypeOK ==
    /\ ring \in [0..(RingSize - 1) -> Char \cup {KeyUp}]
    /\ head \in 0..(RingSize - 1) /\ tail \in 0..(RingSize - 1)
    /\ Len(line) <= LineSize /\ Len(ready) <= LineSize
    /\ readyPos \in 0..Len(ready)
    /\ blocking \in BOOLEAN

Init ==
    /\ ring = [i \in 0..(RingSize - 1) |-> KeyUp]
    /\ head = 0 /\ tail = 0
    /\ line = << >> /\ ready = << >> /\ readyPos = 0
    /\ blocking = TRUE /\ result = [again |-> FALSE, blocking |-> TRUE]
    /\ typed = << >> /\ drained = 0 /\ got = << >>

\* Mutant: the last slot is filled, and a full ring looks empty.
RoomForAll == TRUE

Room == (tail + 1) % RingSize # head

\* keyboard_handler: push_scancode drops the code when the ring is full.
Key(c) ==
    /\ Len(typed) < MaxKeys
    /\ IF Room
       THEN /\ ring' = [ring EXCEPT ![tail] = c]
            /\ tail' = (tail + 1) % RingSize
            /\ typed' = Append(typed, c)
       ELSE UNCHANGED <<ring, tail, typed>>
    /\ UNCHANGED <<head, line, ready, readyPos, blocking, result, drained, got>>

\* The scancodes in the ring, oldest first.
Waiting == [i \in 1..((tail + RingSize - head) % RingSize) |-> ring[(head + i - 1) % RingSize]]

\* Mutant: a full line takes one more character.
AddedPast(l, c) == IF Len(l) <= LineSize THEN Append(l, c) ELSE l

\* A character goes to the line, if there is room.
Added(l, c) == IF Len(l) < LineSize THEN Append(l, c) ELSE l

\* Mutant: a newline leaves the line as it is.
DecodedKeepsLine(s, c) ==
    CASE c = KeyUp -> s
      [] c = Newline -> [line |-> s.line, ready |-> Added(s.line, c), pos |-> 0]
      [] OTHER       -> [s EXCEPT !.line = Added(s.line, c)]

\* One scancode: a newline makes the line the ready one.
Decoded(s, c) ==
    CASE c = KeyUp -> s
      [] c = Newline -> [line |-> << >>, ready |-> Added(s.line, c), pos |-> 0]
      [] OTHER       -> [s EXCEPT !.line = Added(s.line, c)]

\* drain_scancodes on line l and ready line r at position p, one code after the other.
Drained(codes, l, r, p) ==
    LET after[i \in 0..Len(codes)] ==
          IF i = 0 THEN [line |-> l, ready |-> r, pos |-> p] ELSE Decoded(after[i - 1], codes[i])
    IN  after[Len(codes)]

\* Up to n bytes of the ready line from position p.
Given(r, p, n) == SubSeq(r, p + 1, IF p + n < Len(r) THEN p + n ELSE Len(r))

\* dev_read with a buffer of n bytes: get() until the buffer is full or nothing
\* is ready; get() drains the ring when the ready line is used up.
Read(n) ==
    LET first == Given(ready, readyPos, n)
        full  == Len(first) = n
        d     == Drained(Waiting, line, ready, Len(ready))
        more  == Given(d.ready, d.pos, n - Len(first))
        out   == IF full THEN first ELSE first \o more
    IN  /\ IF full
           THEN readyPos' = readyPos + n /\ UNCHANGED <<head, line, ready, drained>>
           ELSE /\ head' = tail
                /\ drained' = Len(typed)
                /\ line' = d.line /\ ready' = d.ready
                /\ readyPos' = d.pos + Len(more)
        /\ got' = got \o out
        /\ result' = [again |-> out = << >>, blocking |-> blocking]
        /\ UNCHANGED <<ring, tail, blocking, typed>>

\* ioctl: IOCTL_SET_NONBLOCK and IOCTL_SET_BLOCK.
Ioctl(b) ==
    /\ blocking' = b
    /\ UNCHANGED <<ring, head, tail, line, ready, readyPos, result, typed, drained, got>>

Next ==
    \/ \E c \in Char \cup {KeyUp} : Key(c)
    \/ \E n \in ReadLens : Read(n)
    \/ \E b \in BOOLEAN : Ioctl(b)

Spec == Init /\ [][Next]_vars
-----------------------------------------------------------------------------
\* The ring holds the scancodes that found room and were not drained yet, in the
\* order they were typed, through any number of turns of head and tail.
RingKeepsOrder == Waiting = SubSeq(typed, drained + 1, Len(typed))

\* s can be made from t by leaving elements out.
SubSequence(s, t) ==
    LET at[i \in 0..Len(t)] ==
          IF i = 0 THEN 0
          ELSE IF at[i - 1] < Len(s) /\ s[at[i - 1] + 1] = t[i] THEN at[i - 1] + 1 ELSE at[i - 1]
    IN  at[Len(t)] = Len(s)

\* Reads return what was typed, in order and nothing twice, and only characters
\* of lines that are complete: those before the last newline that was drained.
ReadsReturnTyped ==
    LET ends == {i \in 1..drained : typed[i] = Newline}
    IN  SubSequence(got, SubSeq(typed, 1, IF ends = {} THEN 0 ELSE CHOOSE i \in ends : \A j \in ends : j <= i))

\* No line that was typed is lost: at most the ring drops keys when it is full.
LinesAreKept ==
    LET chars == SelectSeq(SubSeq(typed, 1, drained), LAMBDA c : c # KeyUp)
    IN  got \o SubSeq(ready, readyPos + 1, Len(ready)) \o line = chars

\* "both blocking and non-blocking I/O interfaces managed via an internal
\* device-status table": a read in blocking mode does not return EAGAIN.
BlockingReadsWait == result.again => ~result.blocking
=============================================================================
