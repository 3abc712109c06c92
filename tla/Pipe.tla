-------------------------------- MODULE Pipe --------------------------------
(***************************************************************************)
(* A pipe (ipc/pipe.rs), called directly or by the system calls            *)
(* SYS_PIPE_READ, SYS_PIPE_WRITE and SYS_PIPE_CLOSE.                       *)
(*                                                                         *)
(* The guard of buf is a spinlock guard, so what send, recv and close do   *)
(* between taking it and waiting or returning is one step.  A wait is      *)
(* left as soon as the task has the CPU again: prepare_switch makes a      *)
(* Blocked task Ready (see QueuedResource).  The scheduler is abstracted   *)
(* to the choice of a task.                                                *)
(*                                                                         *)
(* Dispatched: the system call evaluates IPC_TABLE.lock().get(handle) in   *)
(* the head of an `if let`, and that guard lives to the end of the body.   *)
(* Until the call returns preempt_count is not 0, the timer and schedule() *)
(* switch nothing.                                                         *)
(***************************************************************************)
EXTENDS Integers, Sequences

CONSTANTS Task, None,
          Closer,      \* the task that closes the pipe, the others send and receive
          PipeBuf,     \* PIPE_BUF, 4096 in the code
          SendLens,    \* lengths of the data that tasks send
          RecvLens,    \* lengths of the buffers that tasks receive into
          Dispatched,  \* the calls come through the system call dispatcher
          MaxCalls     \* bound on the calls of each task

PipeAssumption ==
    /\ Closer \in Task /\ None \notin Task
    /\ PipeBuf \in Nat \ {0}
    /\ SendLens \subseteq Nat /\ RecvLens \subseteq Nat
    /\ Dispatched \in BOOLEAN
    /\ MaxCalls \in Nat

\* A byte is known by the call that sends it and its place there: nothing looks
\* at the value.
Byte == (Task \ {Closer}) \X (0..(MaxCalls - 1)) \X UNION {1..n : n \in SendLens}

VARIABLES buf,      \* Pipe::buf
          closed,   \* Pipe::closed
          table,    \* the task that has the guard of IPC_TABLE
          cpu,      \* the current task
          pc,       \* control point of each task
          data,     \* what send has still to write
          want,     \* length of the buffer of recv
          calls,    \* calls made
          sent,     \* history: all that entered buf
          taken     \* history: all that recv returned

pipe == <<buf, closed, sent, taken>>
vars == <<buf, closed, table, cpu, pc, data, want, calls, sent, taken>>

PC == {"user", "send", "send_wait", "recv", "recv_wait", "close", "relock"}

TypeOK ==
    /\ buf \in Seq(Byte) /\ closed \in BOOLEAN
    /\ Len(buf) <= PipeBuf
    /\ table \in Task \cup {None}
    /\ cpu \in Task
    /\ pc \in [Task -> PC]
    /\ data \in [Task -> Seq(Byte)]
    /\ want \in [Task -> RecvLens \cup {0}]
    /\ calls \in [Task -> 0..MaxCalls]
    /\ sent \in Seq(Byte) /\ taken \in Seq(Byte)

Init ==
    /\ buf = << >> /\ closed = FALSE
    /\ table = None
    /\ cpu \in Task
    /\ pc = [t \in Task |-> "user"]
    /\ data = [t \in Task |-> << >>]
    /\ want = [t \in Task |-> 0]
    /\ calls = [t \in Task |-> 0]
    /\ sent = << >> /\ taken = << >>
-----------------------------------------------------------------------------
At(t, l) == cpu = t /\ pc[t] = l

Goto(t, l) == pc' = [pc EXCEPT ![t] = l]

Lesser(m, n) == IF m < n THEN m ELSE n

\* A call begins; the dispatcher looks the handle up.
Call(t, l) ==
    /\ At(t, "user")
    /\ (l = "close") = (t = Closer)
    /\ calls[t] < MaxCalls
    /\ calls' = [calls EXCEPT ![t] = @ + 1]
    /\ table' = (IF Dispatched THEN t ELSE None)
    /\ Goto(t, l)
    /\ UNCHANGED <<pipe, cpu>>

CallSend(t) ==
    /\ Call(t, "send")
    /\ \E n \in SendLens : data' = [data EXCEPT ![t] = [i \in 1..n |-> <<t, calls[t], i>>]]
    /\ UNCHANGED want

CallRecv(t) ==
    /\ Call(t, "recv")
    /\ \E n \in RecvLens : want' = [want EXCEPT ![t] = n]
    /\ UNCHANGED data

CallClose(t) == Call(t, "close") /\ UNCHANGED <<data, want>>

\* The call returns and drops the guard of the table.
Return(t) == Goto(t, "user") /\ table' = None

\* Mutant: the space is not looked at.
SendOverflows(t) ==
    /\ At(t, "send")
    /\ buf' = buf \o data[t] /\ sent' = sent \o data[t]
    /\ data' = [data EXCEPT ![t] = << >>]
    /\ Return(t)
    /\ UNCHANGED <<closed, cpu, want, calls, taken>>

\* send from a lock of buf to a wait or the return: write what fits.
Send(t) ==
    /\ At(t, "send")
    /\ \/ /\ data[t] = << >> \/ closed       \* Ok, or Err(Closed)
          /\ data' = [data EXCEPT ![t] = << >>]
          /\ Return(t)
          /\ UNCHANGED <<buf, sent>>
       \/ /\ data[t] # << >> /\ ~closed
          /\ LET n    == Lesser(Len(data[t]), PipeBuf - Len(buf))
                 part == SubSeq(data[t], 1, n)
             IN  /\ buf' = buf \o part /\ sent' = sent \o part
                 /\ data' = [data EXCEPT ![t] = SubSeq(@, n + 1, Len(@))]
                 /\ IF n = Len(data[t]) THEN Return(t)
                    ELSE Goto(t, "send_wait") /\ UNCHANGED table
    /\ UNCHANGED <<closed, cpu, want, calls, taken>>

\* Mutants of recv: the newest bytes are taken; an empty pipe is waited for
\* whether it is closed or not.
RecvNewest(t) ==
    /\ At(t, "recv")
    /\ buf # << >>
    /\ LET n == Lesser(want[t], Len(buf))
       IN  /\ taken' = taken \o SubSeq(buf, Len(buf) - n + 1, Len(buf))
           /\ buf' = SubSeq(buf, 1, Len(buf) - n)
    /\ Return(t)
    /\ UNCHANGED <<closed, cpu, data, want, calls, sent>>

RecvIgnoresClosed(t) ==
    /\ At(t, "recv")
    /\ \/ /\ buf = << >>
          /\ Goto(t, "recv_wait")
          /\ UNCHANGED <<buf, table, taken>>
       \/ /\ buf # << >>
          /\ LET n == Lesser(want[t], Len(buf))
             IN  /\ taken' = taken \o SubSeq(buf, 1, n)
                 /\ buf' = SubSeq(buf, n + 1, Len(buf))
          /\ Return(t)
    /\ UNCHANGED <<closed, cpu, data, want, calls, sent>>

\* recv from a lock of buf to a wait or the return: read what is there.
Recv(t) ==
    /\ At(t, "recv")
    /\ \/ /\ buf = << >> /\ closed            \* Ok(0)
          /\ Return(t)
          /\ UNCHANGED <<buf, taken>>
       \/ /\ buf = << >> /\ ~closed
          /\ Goto(t, "recv_wait")
          /\ UNCHANGED <<buf, table, taken>>
       \/ /\ buf # << >>
          /\ LET n == Lesser(want[t], Len(buf))
             IN  /\ taken' = taken \o SubSeq(buf, 1, n)
                 /\ buf' = SubSeq(buf, n + 1, Len(buf))
          /\ Return(t)
    /\ UNCHANGED <<closed, cpu, data, want, calls, sent>>

\* CondVar::wait between dropping the guard of buf and taking it again:
\* schedule() gives the CPU away unless a guard is alive.
Wait(t) ==
    /\ \/ At(t, "send_wait") /\ Goto(t, "send")
       \/ At(t, "recv_wait") /\ Goto(t, "recv")
    /\ IF table = None THEN cpu' \in Task ELSE UNCHANGED cpu
    /\ UNCHANGED <<pipe, table, data, want, calls>>

\* close, and in the dispatcher a second IPC_TABLE.lock() for remove(handle).
\* There the task spins on a lock whose guard it has itself: no step follows.
Close(t) ==
    /\ At(t, "close")
    /\ closed' = TRUE
    /\ IF Dispatched THEN Goto(t, "relock") /\ UNCHANGED table ELSE Return(t)
    /\ UNCHANGED <<buf, cpu, data, want, calls, sent, taken>>

\* The timer gives the CPU to task t, unless a guard is alive.
Preempt(t) ==
    /\ table = None
    /\ cpu # t
    /\ cpu' = t
    /\ UNCHANGED <<pipe, table, pc, data, want, calls>>
-----------------------------------------------------------------------------
Continue(t) == Send(t) \/ Recv(t) \/ Wait(t) \/ Close(t)

Next == \E t \in Task : CallSend(t) \/ CallRecv(t) \/ CallClose(t) \/ Continue(t) \/ Preempt(t)

Spec == Init /\ [][Next]_vars

\* The scheduler starves no task (NoStarvation of Scheduler), a task that has
\* the CPU again and again carries on with its call, and the closer closes the
\* pipe in the end.
FairSpec ==
    /\ Spec
    /\ \A t \in Task : SF_vars(Preempt(t)) /\ SF_vars(Continue(t))
    /\ SF_vars(CallClose(Closer))
-----------------------------------------------------------------------------
\* Every interleaving of senders, receivers and close leaves the pipe a
\* bounded FIFO channel: nothing lost, doubled or reordered, nothing accepted
\* after close.
Fifo == INSTANCE Channel WITH Item <- Byte, Capacity <- PipeBuf, open <- ~closed
ImplementsChannel == Fifo!Spec

\* A call does not wait for ever on a pipe that gets closed: what blocks on
\* an empty or a full pipe is let go (dispatch.rs, SYS_PIPE_CLOSE: "Wake up
\* any pending blocked threads").
CallReturns ==
    \A t \in Task \ {Closer} : pc[t] \in {"send", "send_wait", "recv", "recv_wait"} ~> pc[t] = "user"

\* SYS_PIPE_CLOSE itself returns.
CloseReturns == \A t \in Task : pc[t] \in {"close", "relock"} ~> pc[t] = "user"
=============================================================================
