------------------------------- MODULE DiskQueue -------------------------------
(***************************************************************************)
(* The two disk request schedulers (io/scheduler.rs): C-SCAN, and first    *)
(* come first served with adjacent writes merged.  Both take requests with *)
(* submit and give a batch with drain.  Requests have an id here, so that  *)
(* two requests of the same sectors can be told apart.                     *)
(***************************************************************************)
EXTENDS Integers, Sequences, SequencesExt

CONSTANTS MaxLba, MaxCount,
          MaxBatch   \* bound on the requests of one batch

QueueAssumption == {MaxLba, MaxCount, MaxBatch} \subseteq Nat

Request == [lba : 0..MaxLba, count : 0..MaxCount, write : BOOLEAN]

VARIABLES pending,  \* the requests submitted, in order (both schedulers get them)
          head,     \* CscanScheduler's head
          batch,    \* history: the requests of the last drain, in order of submission
          from,     \* history: head before the last drain
          cscan,    \* what the last drain of C-SCAN gave
          fcfs      \* what the last drain of FCFS gave

vars == <<pending, head, batch, from, cscan, fcfs>>

Init ==
    /\ pending = << >> /\ head = 0 /\ batch = << >> /\ from = 0
    /\ cscan = << >> /\ fcfs = << >>
-----------------------------------------------------------------------------
Submit(lba, count, write) ==
    /\ Len(pending) < MaxBatch
    /\ pending' = Append(pending, [id |-> Len(pending) + 1, lba |-> lba, count |-> count, write |-> write])
    /\ from' = head /\ batch' = << >> /\ cscan' = << >> /\ fcfs' = << >>
    /\ UNCHANGED head

\* Mutant: a sort that does not keep the order of requests of one sector.
ByLbaUnstable(s) == SortSeq(s, LAMBDA a, b : a.lba < b.lba \/ (a.lba = b.lba /\ a.id > b.id))

\* sort_by_key by lba, which is stable.
ByLba(s) == SortSeq(s, LAMBDA a, b : a.lba < b.lba \/ (a.lba = b.lba /\ a.id < b.id))

\* Mutant: the requests below the head come first.
CscanUnsplit(s, h) == ByLba(s)

\* drain of C-SCAN: the requests from the head up, then the others.
Cscan(s, h) ==
    LET sorted == ByLba(s)
        Above(r) == r.lba >= h
        Below(r) == r.lba < h
    IN  SelectSeq(sorted, Above) \o SelectSeq(sorted, Below)

\* Mutant: a write is merged into a request that reads.
MergesAny(last, r) == r.write /\ r.lba = last.lba + last.count

\* A write that goes on where the last request, a write, ends.
Merges(last, r) == r.write /\ last.write /\ r.lba = last.lba + last.count

\* drain of FCFS.
Fcfs(s) ==
    FoldLeft(LAMBDA merged, r :
                 IF merged # << >> /\ Merges(Last(merged), r)
                 THEN [merged EXCEPT ![Len(merged)].count = @ + r.count]
                 ELSE Append(merged, r),
             << >>, s)

\* drain of both.
Drain ==
    /\ pending' = << >>
    /\ batch' = pending /\ from' = head
    /\ cscan' = Cscan(pending, head) /\ fcfs' = Fcfs(pending)
    /\ head' = (IF pending = << >> THEN head ELSE Last(cscan').lba + Last(cscan').count)

Next == Drain \/ \E r \in Request : Submit(r.lba, r.count, r.write)

Spec == Init /\ [][Next]_vars
-----------------------------------------------------------------------------
\* A C-SCAN batch holds every request once, goes up from the head to the
\* highest sector and comes back at most once.
CscanSweeps ==
    /\ Len(cscan) = Len(batch) /\ ToSet(cscan) = ToSet(batch)
    /\ \A i, j \in 1..Len(cscan) :
           i < j => \/ cscan[i].lba <= cscan[j].lba /\ (cscan[i].lba >= from <=> cscan[j].lba >= from)
                    \/ cscan[i].lba >= from /\ cscan[j].lba < from

\* Requests that start at one sector are served in the order in which they came:
\* a read that follows a write sees it.
SameSectorInOrder ==
    \A i, j \in 1..Len(cscan) : i < j /\ cscan[i].lba = cscan[j].lba => cscan[i].id < cscan[j].id

\* The sectors that requests transfer, in order.
Transfers(s) ==
    FlattenSeq([i \in 1..Len(s) |-> [k \in 1..s[i].count |-> <<s[i].lba + k - 1, s[i].write>>]])

\* Merging changes neither which sectors are read and written nor their order.
MergeIsTransparent == Transfers(fcfs) = Transfers(batch)
=============================================================================
