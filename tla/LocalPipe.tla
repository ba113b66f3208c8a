------------------------------ MODULE LocalPipe ------------------------------
(***************************************************************************)
(* joule/models/pipes/local_pipe.py: the in-process pipe between a writer  *)
(* coroutine and a reader coroutine.  Both run on one asyncio event loop,  *)
(* so a step is the code between two awaits; the one exception is the loop *)
(* of _read, whose iterations are steps here but exclude every other       *)
(* coroutine (Busy), since that loop never awaits.                         *)
(*                                                                         *)
(* A row is the number of its place in the stream.  A queue entry carries  *)
(* its rows (none for the None that marks an interval break) and, for the  *)
(* properties only, the number of rows enqueued before it.                 *)
(***************************************************************************)
EXTENDS Integers, Sequences

CONSTANTS
    WriteLimit,  \* write_limit: maxsize of the queue in blocks, 0 is no limit
    CacheLines,  \* the argument of enable_cache
    MaxBlock,    \* bound: rows in one write
    MaxRows,     \* bound: rows written in all
    MaxBreaks    \* bound: interval breaks written in all

ASSUME PipeConstants ==
    /\ WriteLimit \in Nat /\ CacheLines \in Nat \ {0}
    /\ MaxBlock \in Nat /\ MaxRows \in Nat /\ MaxBreaks \in Nat

VARIABLES
    queue, queued_rows, read_buffer, interval_break, reread, closed, failed,
    lines,      \* len(_cache), 0 while the cache is not enabled
    cache,      \* the filled part of _cache
    wpc,        \* writer: "idle", "put" (queue.put of rows), "reset" (sleep(0)
                \* inside flush_cache), "brk" (queue.put of None)
    wrows,      \* rows of the current write not yet in the queue or the cache
    wthen,      \* what the writer does after the flush: "none", "brk", "close"
    rpc,        \* reader: "idle", "wait" (polling an empty queue), "drain"
    probe,      \* the current read was called by is_empty
    alloc,      \* rows allocated by _read for the array it fills
    nrow,       \* rows handed to write so far
    enq,        \* rows put into the queue so far
    consumed,   \* rows consumed so far
    breaks,     \* positions at which the interval was closed
    nbreak,     \* number of breaks put
    seen,       \* positions at which a read returned with end_of_interval set
    eof         \* the reader was given EmptyPipeError

link == <<queue, queued_rows, enq>>
writer == <<lines, cache, wpc, wrows, wthen, nrow>>
reader == <<read_buffer, interval_break, reread, rpc, probe, alloc, consumed,
            seen, eof>>
vars == <<link, closed, failed, breaks, nbreak, writer, reader>>

Row == Nat
Entry == [rows : Seq(Row), at : Nat]

Init ==
    /\ queue = <<>> /\ queued_rows = 0
    /\ read_buffer = <<>> /\ interval_break = FALSE /\ reread = FALSE
    /\ closed = FALSE /\ failed = FALSE
    /\ lines = 0 /\ cache = <<>>
    /\ wpc = "idle" /\ wrows = <<>> /\ wthen = "none"
    /\ rpc = "idle" /\ probe = FALSE /\ alloc = 0
    /\ nrow = 0 /\ enq = 0 /\ consumed = 0
    /\ breaks = {} /\ nbreak = 0 /\ seen = {} /\ eof = FALSE

-----------------------------------------------------------------------------
(* Derived state *)

Busy == rpc = "drain"
Full == WriteLimit > 0 /\ Len(queue) >= WriteLimit

\* Rows in the cache that are not in the queue, and rows that have left the
\* queue.
Cached == IF wpc = "reset" THEN 0 ELSE Len(cache)
Taken == consumed + Len(read_buffer)

-----------------------------------------------------------------------------
(* Writer: write, flush_cache, close_interval, close *)

\* enable_cache; the cache is enabled once and never disabled.
EnableCache ==
    /\ ~Busy /\ wpc = "idle" /\ lines = 0 /\ ~closed
    /\ lines' = CacheLines
    /\ UNCHANGED <<link, closed, failed, breaks, nbreak, cache,
                   wpc, wrows, wthen, nrow, reader>>

\* Fill the cache with as much of rows as fits; a full cache is flushed.
FillCache(rows) ==
    LET room == lines - Len(cache)
        k    == IF Len(rows) < room THEN Len(rows) ELSE room
    IN /\ cache' = cache \o SubSeq(rows, 1, k)
       /\ wrows' = SubSeq(rows, k + 1, Len(rows))
       /\ wpc' = IF k = room THEN "put" ELSE "idle"

\* write of n rows on a pipe that neither failed nor closed.  (On a closed
\* pipe it raises PipeError and changes nothing.)
Write(n) ==
    /\ ~Busy /\ wpc = "idle" /\ ~failed /\ ~closed
    /\ nrow + n <= MaxRows
    /\ LET rows == [i \in 1..n |-> nrow + i]
       IN IF lines = 0
          THEN wrows' = rows /\ wpc' = "put" /\ UNCHANGED cache
          ELSE FillCache(rows)
    /\ nrow' = nrow + n
    /\ UNCHANGED <<link, closed, failed, breaks, nbreak, lines, wthen,
                   reader>>

Enqueue(rows) ==
    /\ queue' = Append(queue, [rows |-> rows, at |-> enq])
    /\ queued_rows' = queued_rows + Len(rows)
    /\ enq' = enq + Len(rows)

\* _write: the put of the block completes once a slot is free.
PutRows ==
    /\ ~Busy /\ wpc = "put" /\ ~Full
    /\ IF lines = 0
       THEN Enqueue(wrows) /\ wrows' = <<>> /\ wpc' = "idle"
       ELSE Enqueue(cache) /\ wpc' = "reset" /\ UNCHANGED wrows
    /\ UNCHANGED <<closed, failed, breaks, nbreak, lines, cache, wthen, nrow,
                   reader>>

\* What the writer does when flush_cache returns, the cache holding c: a write
\* goes on with its remaining rows, close_interval puts its None, close closes.
AfterFlush(c) ==
    LET k == IF Len(wrows) < lines THEN Len(wrows) ELSE lines
    IN /\ cache' = c \o SubSeq(wrows, 1, k)
       /\ wrows' = SubSeq(wrows, k + 1, Len(wrows))
       /\ wpc' = CASE wrows # <<>> /\ k = lines -> "put"
                   [] wrows = <<>> /\ wthen = "brk" -> "brk"
                   [] OTHER -> "idle"
       /\ wthen' = IF wrows = <<>> THEN "none" ELSE wthen
       /\ closed' = (closed \/ (wrows = <<>> /\ wthen = "close"))

\* Mutant: _cache_index is not set back to 0 after the flush.
CacheFlushedNoReset ==
    /\ ~Busy /\ wpc = "reset"
    /\ AfterFlush(cache)
    /\ UNCHANGED <<link, failed, breaks, nbreak, lines, nrow,
                   reader>>

\* flush_cache after the await: the cache is emptied, the caller goes on.
CacheFlushed ==
    /\ ~Busy /\ wpc = "reset"
    /\ AfterFlush(<<>>)
    /\ UNCHANGED <<link, failed, breaks, nbreak, lines, nrow,
                   reader>>

\* flush_cache called by the user.
FlushCache ==
    /\ ~Busy /\ wpc = "idle" /\ ~closed /\ cache # <<>>
    /\ wpc' = "put"
    /\ UNCHANGED <<link, closed, failed, breaks, nbreak, lines, cache,
                   wrows, wthen, nrow, reader>>

\* Mutant: close_interval without the flush of the cache.
CloseIntervalNoFlush ==
    /\ ~Busy /\ wpc = "idle" /\ ~failed /\ ~closed /\ nbreak < MaxBreaks
    /\ wpc' = "brk" /\ UNCHANGED wthen
    /\ UNCHANGED <<link, closed, failed, breaks, nbreak, lines, cache,
                   wrows, nrow, reader>>

CloseInterval ==
    /\ ~Busy /\ wpc = "idle" /\ ~failed /\ ~closed /\ nbreak < MaxBreaks
    /\ IF cache # <<>> THEN wpc' = "put" /\ wthen' = "brk"
                       ELSE wpc' = "brk" /\ UNCHANGED wthen
    /\ UNCHANGED <<link, closed, failed, breaks, nbreak, lines, cache,
                   wrows, nrow, reader>>

PutNone ==
    /\ queue' = Append(queue, [rows |-> <<>>, at |-> enq])
    /\ breaks' = breaks \cup {nrow}
    /\ nbreak' = nbreak + 1

PutBreak ==
    /\ ~Busy /\ wpc = "brk" /\ ~Full
    /\ PutNone
    /\ wpc' = "idle"
    /\ UNCHANGED <<queued_rows, enq, closed, failed, lines, cache, wrows, wthen,
                   nrow, reader>>

\* close_interval_nowait: no test of closed, no flush; put_nowait raises
\* QueueFull on a full queue.  worker.py, its only caller, enables no cache.
CloseIntervalNowait ==
    /\ ~Busy /\ wpc = "idle" /\ ~failed /\ nbreak < MaxBreaks
    /\ lines = 0 /\ ~Full
    /\ PutNone
    /\ UNCHANGED <<queued_rows, enq, closed, failed, writer, reader>>

\* close by the writer, and by a write on a failed pipe.
Close ==
    /\ ~Busy /\ wpc = "idle" /\ ~closed
    /\ IF cache # <<>> THEN wpc' = "put" /\ wthen' = "close" /\ UNCHANGED closed
                       ELSE closed' = TRUE /\ UNCHANGED <<wpc, wthen>>
    /\ UNCHANGED <<link, failed, breaks, nbreak, lines, cache,
                   wrows, nrow, reader>>

\* close by the reader (data_read, data_subscribe): the close callback cancels
\* the writer task, wherever it waits.  Those writers enable no cache.
ReaderClose ==
    /\ rpc = "idle" /\ ~closed /\ lines = 0
    /\ closed' = TRUE
    /\ wpc' = "idle" /\ wrows' = <<>> /\ wthen' = "none"
    /\ nrow' = enq
    /\ UNCHANGED <<link, failed, breaks, nbreak, lines, cache,
                   reader>>

-----------------------------------------------------------------------------
(* Reader: is_empty / not_empty, read, consume, fail *)

\* The next read after is_empty returns the same data and leaves the flag.
Reread ==
    /\ rpc = "idle" /\ ~eof /\ reread
    /\ reread' = FALSE
    /\ seen' = IF interval_break THEN seen \cup {Taken} ELSE seen
    /\ UNCHANGED <<link, closed, failed, breaks, nbreak, writer,
                   read_buffer, interval_break, rpc, probe, alloc, consumed, eof>>

\* Mutant: the rows left over from the last read are not counted.
StartDrainNoBuffer ==
    /\ rpc' = "drain"
    /\ alloc' = queued_rows

\* Entering _read: the array for all rows queued so far is allocated.
StartDrain ==
    /\ rpc' = "drain"
    /\ alloc' = queued_rows + Len(read_buffer)

\* read(), or is_empty() when p.
Read(p) ==
    /\ rpc = "idle" /\ ~eof /\ ~reread /\ ~failed
    /\ interval_break' = FALSE
    /\ probe' = p
    /\ IF queue = <<>> /\ ~closed THEN rpc' = "wait" /\ UNCHANGED alloc
                                  ELSE StartDrain
    /\ UNCHANGED <<link, closed, failed, breaks, nbreak, writer,
                   read_buffer, reread, consumed, seen, eof>>

\* Mutant: the polling loop does not look at closed.
ReadWakeNotClosed ==
    /\ rpc = "wait" /\ queue # <<>>
    /\ StartDrain
    /\ UNCHANGED <<link, closed, failed, breaks, nbreak, writer,
                   read_buffer, interval_break, reread, probe, consumed, seen,
                   eof>>

\* Mutant: the polling loop does not look at the queue.
ReadWakeOnlyClosed ==
    /\ rpc = "wait" /\ closed
    /\ StartDrain
    /\ UNCHANGED <<link, closed, failed, breaks, nbreak, writer,
                   read_buffer, interval_break, reread, probe, consumed, seen,
                   eof>>

\* The polling loop of read finds a block, or the pipe closed.
ReadWake ==
    /\ rpc = "wait" /\ (queue # <<>> \/ closed)
    /\ StartDrain
    /\ UNCHANGED <<link, closed, failed, breaks, nbreak, writer,
                   read_buffer, interval_break, reread, probe, consumed, seen,
                   eof>>

\* One iteration of _read over a data block.
TakeBlock ==
    /\ rpc = "drain" /\ queue # <<>> /\ Head(queue).rows # <<>>
    /\ read_buffer' = read_buffer \o Head(queue).rows
    /\ queued_rows' = queued_rows - Len(Head(queue).rows)
    /\ queue' = Tail(queue)
    /\ UNCHANGED <<enq, closed, failed, breaks, nbreak, writer, interval_break,
                   reread, rpc, probe, alloc, consumed, seen, eof>>

\* The end of read, brk telling whether this read stopped at a break: an empty
\* result on a closed pipe raises EmptyPipeError, otherwise is_empty arranges
\* for the data to be read again and read returns it.
Return(brk) ==
    /\ rpc' = "idle"
    /\ eof' = (closed /\ read_buffer = <<>>)
    /\ reread' = (probe /\ ~eof')
    /\ seen' = IF brk /\ ~probe /\ ~eof' THEN seen \cup {Taken} ELSE seen

\* Mutant: the loop of _read goes on after the break.
TakeBreakAndGoOn ==
    /\ rpc = "drain" /\ queue # <<>> /\ Head(queue).rows = <<>>
    /\ interval_break' = TRUE
    /\ queue' = Tail(queue)
    /\ UNCHANGED <<queued_rows, enq, closed, failed, breaks, nbreak, writer, reread,
                   rpc, read_buffer, probe, alloc, consumed, seen, eof>>

\* _read meets None: the flag is set and the rest stays in the queue.
TakeBreak ==
    /\ rpc = "drain" /\ queue # <<>> /\ Head(queue).rows = <<>>
    /\ interval_break' = TRUE
    /\ queue' = Tail(queue)
    /\ Return(TRUE)
    /\ UNCHANGED <<queued_rows, enq, closed, failed, breaks, nbreak, writer,
                   read_buffer, probe, alloc, consumed>>

\* _read has emptied the queue.
DrainDone ==
    /\ rpc = "drain" /\ queue = <<>>
    /\ Return(FALSE)
    /\ UNCHANGED <<link, closed, failed, breaks, nbreak, writer,
                   read_buffer, interval_break, probe, alloc, consumed>>

Consume(n) ==
    /\ rpc = "idle" /\ n <= Len(read_buffer)
    /\ read_buffer' = SubSeq(read_buffer, n + 1, Len(read_buffer))
    /\ consumed' = consumed + n
    /\ UNCHANGED <<link, closed, failed, breaks, nbreak, writer,
                   interval_break, reread, rpc, probe, alloc, seen, eof>>

\* fail: the reader's owner gave up (api/data.py _send_data); it reads no more.
Fail ==
    /\ ~Busy /\ ~failed
    /\ failed' = TRUE
    /\ rpc' = "idle"
    /\ UNCHANGED <<link, closed, breaks, nbreak, writer,
                   read_buffer, interval_break, reread, probe, alloc, consumed,
                   seen, eof>>

-----------------------------------------------------------------------------
WriterNext ==
    \/ \E n \in 1..MaxBlock : Write(n)
    \/ EnableCache \/ PutRows \/ CacheFlushed \/ FlushCache
    \/ CloseInterval \/ PutBreak \/ CloseIntervalNowait \/ Close

ReaderNext ==
    \/ \E p \in BOOLEAN : Read(p)
    \/ Reread \/ ReadWake \/ TakeBlock \/ TakeBreak \/ DrainDone
    \/ \E n \in 1..MaxRows : Consume(n)
    \/ ReaderClose \/ Fail

Next == WriterNext \/ ReaderNext

Spec == Init /\ [][Next]_vars

\* Scheduling the code justifies: a coroutine that can run is run by the event
\* loop (weak fairness), and every consumer in the repository is a loop that
\* reads again and consumes what it read (so consuming is strongly fair: it is
\* disabled only while a read is under way).
ConsumeAll == read_buffer # <<>> /\ Consume(Len(read_buffer))

Fairness ==
    /\ WF_vars(PutRows) /\ WF_vars(CacheFlushed) /\ WF_vars(PutBreak)
    /\ WF_vars(\E p \in BOOLEAN : Read(p))
    /\ WF_vars(Reread) /\ WF_vars(ReadWake)
    /\ WF_vars(TakeBlock) /\ WF_vars(TakeBreak) /\ WF_vars(DrainDone)
    /\ SF_vars(ConsumeAll)

FairSpec == Spec /\ Fairness

-----------------------------------------------------------------------------
(* Properties *)

\* Types of the state; in particular the count of queued rows never goes
\* negative.
TypeOK ==
    /\ queue \in Seq(Entry) /\ queued_rows \in Nat
    /\ read_buffer \in Seq(Row) /\ cache \in Seq(Row) /\ wrows \in Seq(Row)
    /\ interval_break \in BOOLEAN /\ reread \in BOOLEAN /\ probe \in BOOLEAN
    /\ closed \in BOOLEAN /\ failed \in BOOLEAN /\ eof \in BOOLEAN
    /\ lines \in {0, CacheLines}
    /\ wpc \in {"idle", "put", "reset", "brk"}
    /\ wthen \in {"none", "brk", "close"}
    /\ rpc \in {"idle", "wait", "drain"}
    /\ alloc \in Nat /\ nrow \in Nat /\ enq \in Nat /\ consumed \in Nat
    /\ nbreak \in Nat
    /\ breaks \subseteq Nat /\ seen \subseteq Nat

\* A run of rows starting right after position k.
RunFrom(s, k) == \A j \in 1..Len(s) : s[j] = k + j

\* The position up to which the entries before queue[i] reach.
Before(i) == IF i = 1 THEN Taken ELSE queue[i - 1].at + Len(queue[i - 1].rows)

\* No row is lost, repeated or reordered on its way from write through the
\* cache, the queue and the read buffer to consume, whatever the interleaving
\* of flushes, polls and reads: each holds exactly the run of rows that
\* follows the one before it.
RowsInOrder ==
    /\ RunFrom(read_buffer, consumed)
    /\ \A i \in 1..Len(queue) :
          queue[i].at = Before(i) /\ RunFrom(queue[i].rows, queue[i].at)
    /\ enq = Before(Len(queue) + 1)
    /\ wpc # "reset" => RunFrom(cache, enq)
    /\ RunFrom(wrows, enq + Cached)
    /\ nrow = enq + Cached + Len(wrows)

\* _read sizes its array from queued_rows before it copies the blocks
\* ("relies on the total size of data written to the pipe"): while it drains
\* the queue, the next block always fits in what is left of the array.
BlockFits ==
    rpc = "drain" /\ queue # <<>> =>
        Len(read_buffer) + Len(Head(queue).rows) <= alloc

\* A reader is told of every break before it is given a row from beyond it:
\* a break that lies before a row already read was flagged by end_of_interval
\* on a read that ended exactly there.  In particular the flag survives the
\* pair is_empty / read, and close_interval does not overtake cached rows.
BreaksFlagged == \A b \in breaks : b < Taken => b \in seen

\* A writer waiting for a slot gets it, unless the pipe fails: a consumer that
\* keeps reading never leaves the writer blocked on a full queue.
WriterUnblocked == (wpc # "idle") ~> (wpc = "idle" \/ failed)

\* A closed pipe comes to an end: the reader is given EmptyPipeError and does
\* not poll for ever.
ReaderEnds == closed ~> (eof \/ failed)

\* LocalPipe implements the channel a pipe promises.
Channel == INSTANCE IntervalChannel WITH
    sent <- enq, brks <- breaks, got <- consumed, flagged <- seen,
    shut <- closed, ended <- eof

IsChannel == Channel!Spec

=============================================================================
