------------------------------ MODULE InputPipe ------------------------------
(***************************************************************************)
(* joule/models/pipes/input_pipe.py: rows and interval tokens out of a byte*)
(* stream (an OS pipe, a socket or an HTTP body) that arrives in pieces of *)
(* any size.                                                               *)
(*                                                                         *)
(* The producer's items are rows and interval tokens of RowBytes bytes     *)
(* each; a byte is its position in the stream, so a run of bytes is a row  *)
(* only when it is one whole item.                                         *)
(***************************************************************************)
EXTENDS Integers, Sequences, FiniteSets

CONSTANTS
    RowBytes,     \* dtype.itemsize
    BufferSize,   \* BUFFER_SIZE, in rows
    MaxItems      \* bound: rows and tokens of the stream

ASSUME InputPipeConstants ==
    RowBytes \in Nat \ {0} /\ BufferSize \in Nat \ {0} /\ MaxItems \in Nat

VARIABLES
    wire,            \* what the producer wrote: "row" or "token"
    torn,            \* bytes of a row cut off by the producer's end
    shut,            \* the producer has closed its end
    taken,           \* bytes that have left the reader
    pc,              \* "idle", "loop", or "error" after an exception
    raw, max_rows,   \* locals of read
    byte_buffer, unprocessed_np_buffer,
    buffer,          \* buffer[:last_index]: the items of its rows
    interval_break, reread,
    got,             \* rows consumed
    flagged,         \* breaks the consumer was told of
    ended            \* EmptyPipeError was raised

stream == <<wire, torn, shut>>
locals == <<raw, max_rows>>
buffers == <<byte_buffer, unprocessed_np_buffer, buffer>>
flags == <<interval_break, reread>>
vars == <<stream, taken, pc, locals, buffers, flags, got, flagged, ended>>

\* Rows among the first k items.
RowsUpTo(k) == Cardinality({i \in 1..k : wire[i] = "row"})
sent == RowsUpTo(Len(wire))
brks == {RowsUpTo(i) : i \in {k \in 1..Len(wire) : wire[k] = "token"}}
Bytes == Len(wire) * RowBytes + torn

Init ==
    /\ wire = <<>> /\ torn = 0 /\ shut = FALSE /\ taken = 0
    /\ pc = "idle" /\ raw = <<>> /\ max_rows = 0
    /\ byte_buffer = <<>> /\ unprocessed_np_buffer = <<>> /\ buffer = <<>>
    /\ interval_break = FALSE /\ reread = FALSE
    /\ got = 0 /\ flagged = {} /\ ended = FALSE

-----------------------------------------------------------------------------
(* The producer *)

\* OutputPipe.write, or the body of an HTTP response.
Write ==
    /\ ~shut /\ Len(wire) < MaxItems
    /\ wire' = Append(wire, "row")
    /\ UNCHANGED <<torn, shut, taken, pc, locals, buffers, flags, got, flagged, ended>>

\* close_interval writes the token.
WriteToken ==
    /\ ~shut /\ Len(wire) < MaxItems
    /\ wire' = Append(wire, "token")
    /\ UNCHANGED <<torn, shut, taken, pc, locals, buffers, flags, got, flagged, ended>>

\* The producer ends, in the middle of a row if it is killed.
Shut(n) ==
    /\ ~shut
    /\ shut' = TRUE /\ torn' = n
    /\ UNCHANGED <<wire, taken, pc, locals, buffers, flags, got, flagged, ended>>

-----------------------------------------------------------------------------
(* Slices of byte strings: s[:n] and s[n:], where a negative n counts from the end *)

Place(s, n) ==
    IF n < 0 THEN IF Len(s) + n < 0 THEN 0 ELSE Len(s) + n
    ELSE IF n < Len(s) THEN n ELSE Len(s)
First(s, n) == SubSeq(s, 1, Place(s, n))
After(s, n) == SubSeq(s, Place(s, n) + 1, Len(s))

\* The i-th row of a byte string; 0 when its bytes are not one item.
Item(s, i) ==
    LET b == s[(i - 1) * RowBytes + 1]
        k == (b + RowBytes - 1) \div RowBytes
    IN IF k <= Len(wire) /\ \A j \in 1..RowBytes :
            s[(i - 1) * RowBytes + j] = (k - 1) * RowBytes + j
       THEN k ELSE 0

RowsOf(s) == [i \in 1..(Len(s) \div RowBytes) |-> Item(s, i)]

\* find_interval_token: aligned rows that are tokens.
Tokens(s) ==
    {i \in 1..(Len(s) \div RowBytes) : Item(s, i) # 0 /\ wire[Item(s, i)] = "token"}

-----------------------------------------------------------------------------
(* read *)

\* not_empty reads and asks for the same data again; a full buffer is returned
\* as it is.  The consumer makes room before the buffer is over full.
ReadBegin(peek) ==
    /\ pc = "idle" /\ ~ended /\ Len(buffer) <= BufferSize
    /\ \/ /\ reread
          /\ reread' = peek
          /\ UNCHANGED <<pc, locals>>
       \/ /\ ~reread
          /\ max_rows' = BufferSize - (Len(buffer) + (Len(unprocessed_np_buffer) % RowBytes))
          /\ pc' = IF max_rows' = 0 THEN "idle" ELSE "loop"
          /\ raw' = <<>> /\ reread' = peek
    /\ UNCHANGED <<stream, taken, buffers, interval_break, got, flagged, ended>>

AtEof == shut /\ taken = Bytes

\* Whole rows, and the bytes of the row that is not complete.
Split(new) ==
    LET extra == (Len(new) + Len(byte_buffer)) % RowBytes
    IN IF extra = 0 THEN [np |-> byte_buffer \o new, bytes |-> <<>>]
       ELSE [np |-> byte_buffer \o First(new, -extra), bytes |-> After(new, -extra)]

\* Mutant: what was left of the last read is put behind the new rows.
QueueBehind(np) ==
    LET all == np \o unprocessed_np_buffer
        fits == unprocessed_np_buffer = <<>> \/ Len(all) <= max_rows * RowBytes
    IN [np |-> IF fits THEN all ELSE First(all, max_rows * RowBytes),
        rest |-> IF fits THEN <<>> ELSE After(all, max_rows * RowBytes)]

\* What the last read left over goes first, as far as the buffer has room.
Queue(np) ==
    LET all == unprocessed_np_buffer \o np
        fits == unprocessed_np_buffer = <<>> \/ Len(all) <= max_rows * RowBytes
    IN [np |-> IF fits THEN all ELSE First(all, max_rows * RowBytes),
        rest |-> IF fits THEN <<>> ELSE After(all, max_rows * RowBytes)]

\* The end of read: rows up to the first token join the buffer.  A row that is
\* not complete at the end of the stream, or too many rows, raise a ValueError.
Finish(new) ==
    LET cut == Split(new)
        q == Queue(cut.np)
        at == Tokens(q.np)
        loc == CHOOSE i \in at : \A j \in at : i <= j
        rows == IF at = {} THEN q.np ELSE First(q.np, (loc - 1) * RowBytes)
    IN \/ /\ Len(q.np) % RowBytes # 0 \/ Len(buffer \o RowsOf(rows)) > 2 * BufferSize
          /\ pc' = "error"
          /\ UNCHANGED <<buffers, interval_break, flagged>>
       \/ /\ Len(q.np) % RowBytes = 0 /\ Len(buffer \o RowsOf(rows)) <= 2 * BufferSize
          /\ pc' = "idle"
          /\ byte_buffer' = cut.bytes
          /\ unprocessed_np_buffer' =
                 IF at = {} THEN q.rest ELSE After(q.np, loc * RowBytes) \o q.rest
          /\ buffer' = buffer \o RowsOf(rows)
          /\ interval_break' = (at # {})
          /\ flagged' = IF at = {} THEN flagged
                        ELSE flagged \cup {RowsUpTo(Item(q.np, loc))}

\* reader.read returns n bytes; less than a row, and it is called again.
Chunk(n) ==
    LET new == raw \o [i \in 1..n |-> taken + i]
    IN /\ pc = "loop"
       /\ n <= max_rows * RowBytes /\ taken + n <= Bytes
       /\ taken' = taken + n
       /\ IF Len(new) < RowBytes
          THEN raw' = new /\ UNCHANGED <<pc, buffers, interval_break, flagged>>
          ELSE raw' = <<>> /\ Finish(new)
       /\ UNCHANGED <<stream, max_rows, reread, got, ended>>

\* Mutant: a pipe without data returns no rows.
EofReturns ==
    /\ pc = "loop" /\ AtEof
    /\ Finish(raw) /\ raw' = <<>>
    /\ UNCHANGED <<stream, taken, max_rows, got, reread, ended>>

\* The reader is at its end: what is left over, or EmptyPipeError.
ReadEof ==
    /\ pc = "loop" /\ AtEof
    /\ \/ /\ unprocessed_np_buffer = <<>> /\ buffer = <<>>
          /\ ended' = TRUE /\ pc' = "idle" /\ reread' = FALSE
          /\ UNCHANGED <<raw, buffers, interval_break, flagged>>
       \/ /\ unprocessed_np_buffer # <<>> \/ buffer # <<>>
          /\ Finish(raw) /\ raw' = <<>>
          /\ UNCHANGED <<reread, ended>>
    /\ UNCHANGED <<stream, taken, max_rows, got>>

\* consume: n rows leave the buffer.  (A row out of order counts as a row that
\* was never sent.)
Consume(n) ==
    /\ pc = "idle" /\ n <= Len(buffer)
    /\ buffer' = After(buffer, n)
    /\ got' = IF \A i \in 1..n : buffer[i] # 0 /\ wire[buffer[i]] = "row"
                                 /\ RowsUpTo(buffer[i]) = got + i
              THEN got + n ELSE sent + 1
    /\ UNCHANGED <<stream, taken, pc, locals, byte_buffer, unprocessed_np_buffer, flags,
                   flagged, ended>>

-----------------------------------------------------------------------------
Read == (\E peek \in BOOLEAN : ReadBegin(peek)) \/ ReadEof
        \/ \E n \in 1..(BufferSize * RowBytes) : Chunk(n)

Next ==
    \/ Write \/ WriteToken \/ \E n \in 0..(RowBytes - 1) : Shut(n)
    \/ Read
    \/ \E n \in 1..(2 * BufferSize) : Consume(n)

Spec == Init /\ [][Next]_vars

\* The consumer reads on, and uses up what it has read.
FairSpec ==
    /\ Spec /\ WF_vars(Read)
    /\ SF_vars(pc = "idle" /\ Consume(Len(buffer)))

-----------------------------------------------------------------------------
(* Properties *)

\* Types of the state.
TypeOK ==
    /\ wire \in Seq({"row", "token"}) /\ Len(wire) <= MaxItems
    /\ torn \in 0..(RowBytes - 1) /\ shut \in BOOLEAN /\ taken \in 0..Bytes
    /\ pc \in {"idle", "loop", "error"} /\ max_rows \in (-RowBytes)..BufferSize
    /\ Len(raw) < RowBytes /\ Len(byte_buffer) < RowBytes
    /\ torn = 0 => Len(unprocessed_np_buffer) % RowBytes = 0
    /\ Len(buffer) <= 2 * BufferSize /\ ended \in BOOLEAN
    /\ interval_break \in BOOLEAN /\ reread \in BOOLEAN

\* The end of the stream came while the last row was split over two reads.
LastRowSplit == ended /\ Len(raw) + Len(byte_buffer) >= RowBytes

\* However the bytes are cut up, the consumer gets the producer's rows in order,
\* each once, and hears of every break before a row behind it; the pipe reports
\* its end only when all rows are consumed, unless the last row came in two
\* parts.
Channel == INSTANCE IntervalChannel WITH ended <- ended /\ ~LastRowSplit

ImplementsChannel == Channel!Spec

\* Once the producer has closed its end, a consumer that keeps reading and
\* consuming comes to the end of the pipe, unless the last row was torn.
ReachesEnd == shut ~> (ended \/ torn > 0)

=============================================================================
