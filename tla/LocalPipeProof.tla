---------------------------- MODULE LocalPipeProof ----------------------------
(***************************************************************************)
(* Proofs about LocalPipe for every queue limit, cache size and bound: the *)
(* safety invariants the runs check, and that the pipe implements          *)
(* IntervalChannel.                                                        *)
(***************************************************************************)
EXTENDS LocalPipe, SequenceTheorems, TLAPS

-----------------------------------------------------------------------------
(* The inductive invariant *)

\* What the writer holds at each of its places in the code.
WriterShape ==
    /\ Len(cache) <= lines
    /\ wpc \in {"idle", "brk"} => wrows = <<>>
    /\ wpc = "brk" => cache = <<>>
    /\ wpc = "put" => IF lines = 0 THEN wrows # <<>> ELSE cache # <<>>
    /\ wpc = "reset" => lines # 0
    /\ wthen # "none" => wrows = <<>> /\ wpc \in {"put", "reset"} /\ lines # 0
    /\ wpc # "idle" => ~closed

\* The queue is made of consecutive stretches of the stream, none of which
\* reaches beyond the rows enqueued, and its Nones are breaks.
QueueShape ==
    /\ \A i, j \in 1..Len(queue) :
          i < j => queue[i].at + Len(queue[i].rows) <= queue[j].at
    /\ \A i \in 1..Len(queue) :
          /\ Taken <= queue[i].at
          /\ queue[i].at + Len(queue[i].rows) <= enq
          /\ queue[i].rows = <<>> => queue[i].at \in breaks

\* The rows in the queue are counted, and so is the array of a read.
Counted ==
    /\ queued_rows + Taken = enq
    /\ rpc = "drain" => alloc = queued_rows + Len(read_buffer)

\* Where a break is that the reader was not told about: still in the queue, or
\* found by is_empty and waiting for the next read, or hidden by the end.
Pending(b) ==
    \/ \E i \in 1..Len(queue) : queue[i].rows = <<>> /\ queue[i].at = b
    \/ b = Taken /\ (eof \/ (reread /\ interval_break))

ReaderShape ==
    /\ rpc # "idle" => ~eof /\ ~reread /\ ~interval_break
    /\ reread /\ interval_break => Taken \in breaks
    /\ \A b \in breaks : b \in seen \/ Pending(b)

Inv ==
    TypeOK /\ RowsInOrder /\ WriterShape /\ QueueShape /\ Counted /\ ReaderShape

-----------------------------------------------------------------------------
USE PipeConstants DEF Row, Entry

LEMMA InitInv == Init => Inv
  <1> SUFFICES ASSUME Init PROVE Inv
    OBVIOUS
  <1> USE DEF Init
  <1>1. TypeOK
    <2>1. /\ queue \in Seq(Entry) /\ read_buffer \in Seq(Row)
          /\ cache \in Seq(Row) /\ wrows \in Seq(Row)
      OBVIOUS
    <2> QED BY <2>1 DEF TypeOK
  <1>2. RowsInOrder
    BY DEF RowsInOrder, RunFrom, Before, Taken, Cached
  <1>3. WriterShape /\ QueueShape
    BY DEF WriterShape, QueueShape
  <1>4. Counted /\ ReaderShape
    BY DEF Counted, Taken, Cached, ReaderShape
  <1> QED BY <1>1, <1>2, <1>3, <1>4 DEF Inv

LEMMA StutterInv == Inv /\ UNCHANGED vars => Inv'
  <1> SUFFICES ASSUME Inv, UNCHANGED vars PROVE Inv'
    OBVIOUS
  <1>1. UNCHANGED <<queue, queued_rows, enq, closed, failed, breaks, nbreak, lines, cache, wpc,
                    wrows, wthen, nrow, read_buffer, interval_break, reread, rpc, probe, alloc,
                    consumed, seen, eof>>
    BY DEF vars, link, writer, reader
  <1>2. TypeOK'
    BY <1>1 DEF Inv, TypeOK
  <1>3. Taken' = Taken /\ Cached' = Cached /\ \A i : Before(i)' = Before(i)
    BY <1>1 DEF Taken, Cached, Before
  <1>4. RowsInOrder'
    BY <1>1, <1>3 DEF Inv, RowsInOrder, RunFrom
  <1>5. WriterShape' /\ QueueShape' /\ Counted'
    BY <1>1, <1>3 DEF Inv, WriterShape, QueueShape, Counted
  <1>6. ReaderShape'
    BY <1>1, <1>3 DEF Inv, ReaderShape, Pending
  <1> QED BY <1>2, <1>4, <1>5, <1>6 DEF Inv

-----------------------------------------------------------------------------
(* Runs of rows *)

LEMMA NoRows ==
  ASSUME NEW s \in Seq(Row) PROVE Len(s) \in Nat /\ (s = <<>> <=> Len(s) = 0)
  BY EmptySeq

LEMMA LeqTrans ==
  ASSUME NEW a \in Nat, NEW b \in Nat, NEW c \in Nat, a <= b, b <= c PROVE a <= c
  OBVIOUS

LEMMA PlusAssoc ==
  ASSUME NEW a \in Nat, NEW b \in Nat, NEW c \in Nat PROVE a + (b + c) = (a + b) + c
  OBVIOUS

LEMMA Predecessor ==
  ASSUME NEW a \in Nat \ {0}
  PROVE  a - 1 \in Nat /\ a - 1 + 1 = a /\ a + 1 - 1 = a /\ a + 1 # 1
  OBVIOUS

\* Moving k of the q items in one place to another that holds t.
LEMMA Moved ==
  ASSUME NEW q \in Nat, NEW t \in Nat, NEW k \in Nat, t + k <= q + t
  PROVE  q - k \in Nat /\ q - k + (t + k) = q + t
  OBVIOUS

LEMMA EmptyRun == ASSUME NEW k \in Nat PROVE RunFrom(<<>>, k)
  BY DEF RunFrom

\* A run cut in two.
LEMMA CutRun ==
  ASSUME NEW s \in Seq(Row), NEW k \in Nat, NEW m \in 0..Len(s), RunFrom(s, k)
  PROVE  /\ SubSeq(s, 1, m) \in Seq(Row) /\ Len(SubSeq(s, 1, m)) = m
         /\ RunFrom(SubSeq(s, 1, m), k)
         /\ SubSeq(s, m + 1, Len(s)) \in Seq(Row)
         /\ Len(SubSeq(s, m + 1, Len(s))) = Len(s) - m
         /\ RunFrom(SubSeq(s, m + 1, Len(s)), k + m)
  <1>1. \A i \in 1..Len(s) : s[i] \in Row
    BY ElementOfSeq
  <1>2. /\ SubSeq(s, 1, m) \in Seq(Row) /\ Len(SubSeq(s, 1, m)) = m
        /\ \A i \in 1..m : SubSeq(s, 1, m)[i] = s[i]
    BY <1>1, SubSeqProperties
  <1>3. /\ SubSeq(s, m + 1, Len(s)) \in Seq(Row)
        /\ Len(SubSeq(s, m + 1, Len(s))) = Len(s) - m
        /\ \A i \in 1..(Len(s) - m) : SubSeq(s, m + 1, Len(s))[i] = s[m + i]
    BY <1>1, SubSeqProperties
  <1> QED BY <1>2, <1>3 DEF RunFrom

\* A run continued by another.
LEMMA JoinRuns ==
  ASSUME NEW s \in Seq(Row), NEW t \in Seq(Row), NEW k \in Nat,
         RunFrom(s, k), RunFrom(t, k + Len(s))
  PROVE  s \o t \in Seq(Row) /\ Len(s \o t) = Len(s) + Len(t) /\ RunFrom(s \o t, k)
  <1>1. /\ s \o t \in Seq(Row) /\ Len(s \o t) = Len(s) + Len(t)
        /\ \A i \in 1 .. Len(s) + Len(t) :
              (s \o t)[i] = IF i <= Len(s) THEN s[i] ELSE t[i - Len(s)]
    BY ConcatProperties
  <1> QED BY <1>1 DEF RunFrom

-----------------------------------------------------------------------------
(* The writer's steps *)

\* What Inv says of the writer.
WriterOK ==
    /\ lines \in {0, CacheLines} /\ cache \in Seq(Row) /\ wrows \in Seq(Row)
    /\ wpc \in {"idle", "put", "reset", "brk"} /\ wthen \in {"none", "brk", "close"}
    /\ nrow \in Nat
    /\ wpc # "reset" => RunFrom(cache, enq)
    /\ RunFrom(wrows, enq + Cached)
    /\ nrow = enq + Cached + Len(wrows)
    /\ WriterShape

LEMMA InvWriterOK == Inv => WriterOK
  BY DEF Inv, TypeOK, RowsInOrder, WriterOK

\* A step of the writer that leaves the queue and the reader alone.
LEMMA WriterStep ==
  ASSUME Inv, UNCHANGED <<link, breaks, nbreak, failed, reader>>,
         closed' \in BOOLEAN, WriterOK'
  PROVE  Inv'
  <1>1. TypeOK'
    BY DEF Inv, TypeOK, WriterOK, link, reader
  <1>2. RowsInOrder'
    BY DEF Inv, RowsInOrder, WriterOK, Before, RunFrom, Taken, link, reader
  <1>3. QueueShape' /\ Counted' /\ ReaderShape'
    BY DEF Inv, QueueShape, Counted, ReaderShape, Pending, Taken, link, reader
  <1> QED BY <1>1, <1>2, <1>3 DEF Inv, WriterOK

LEMMA EnableCacheInv == Inv /\ EnableCache => Inv'
  <1> SUFFICES ASSUME Inv, EnableCache PROVE Inv'
    OBVIOUS
  <1>1. WriterOK'
    BY InvWriterOK DEF WriterOK, EnableCache, RunFrom, Cached, WriterShape, link
  <1> QED BY <1>1, WriterStep DEF EnableCache, Inv, TypeOK

LEMMA WriteInv == ASSUME NEW n \in 1..MaxBlock, Inv, Write(n) PROVE Inv'
  <1> DEFINE rows == [i \in 1..n |-> nrow + i]
  <1>1. /\ WriterOK /\ TypeOK /\ wpc = "idle" /\ wrows = <<>> /\ Len(wrows) = 0
        /\ UNCHANGED <<link, breaks, nbreak, failed, reader, closed, lines, wthen>>
        /\ nrow' = nrow + n /\ n \in Nat \ {0} /\ ~closed
    BY InvWriterOK DEF Inv, Write, WriterOK, WriterShape
  <1>2. nrow = enq + Len(cache)
    BY <1>1 DEF WriterOK, Cached, TypeOK
  <1>3. rows \in Seq(Row) /\ Len(rows) = n /\ RunFrom(rows, enq + Len(cache))
    BY <1>1, <1>2 DEF RunFrom, WriterOK
  <1>4. WriterOK'
    <2>1. CASE lines = 0
      <3>1. wrows' = rows /\ wpc' = "put" /\ cache' = cache
        BY <2>1 DEF Write
      <3>2. Len(cache) = 0 /\ Cached' = 0 /\ wthen = "none"
        BY <1>1, <2>1, <3>1, NoRows DEF WriterOK, WriterShape, Cached
      <3>3. wrows' # <<>> /\ wrows' \in Seq(Row) /\ Len(wrows') = n
        BY <1>1, <1>3, <3>1, NoRows
      <3>4. nrow' = enq' + Cached' + Len(wrows') /\ RunFrom(wrows', enq' + Cached')
        BY <1>1, <1>2, <1>3, <3>1, <3>2, <3>3 DEF link, TypeOK
      <3>5. WriterShape'
        BY <1>1, <2>1, <3>1, <3>2, <3>3 DEF WriterShape
      <3>6. RunFrom(cache', enq')
        BY <1>1, <3>1 DEF WriterOK, link
      <3> QED
        BY <1>1, <3>1, <3>2, <3>3, <3>4, <3>5, <3>6 DEF WriterOK, TypeOK
    <2>2. CASE lines # 0
      <3> DEFINE room == lines - Len(cache)
                 k == IF Len(rows) < room THEN Len(rows) ELSE room
      <3>1. /\ cache' = cache \o SubSeq(rows, 1, k)
            /\ wrows' = SubSeq(rows, k + 1, Len(rows))
            /\ wpc' = IF k = room THEN "put" ELSE "idle"
        BY <2>2 DEF Write, FillCache
      <3>2. /\ room \in Nat /\ k \in 0..Len(rows) /\ k <= room
            /\ k # room => k = Len(rows)
            /\ lines = Len(cache) + room /\ lines \in Nat \ {0}
        BY <1>1, <1>3, <2>2 DEF WriterOK, WriterShape
      <3> HIDE DEF rows, k, room
      <3>3. /\ SubSeq(rows, 1, k) \in Seq(Row) /\ Len(SubSeq(rows, 1, k)) = k
            /\ RunFrom(SubSeq(rows, 1, k), enq + Len(cache))
            /\ wrows' \in Seq(Row) /\ Len(wrows') = Len(rows) - k
            /\ RunFrom(wrows', enq + Len(cache) + k)
        <4>1. enq + Len(cache) \in Nat
          BY <1>1 DEF TypeOK
        <4>2. rows \in Seq(Row) /\ RunFrom(rows, enq + Len(cache))
          BY <1>3
        <4> QED BY <3>1, <3>2, <4>1, <4>2, CutRun
      <3>4. /\ cache' \in Seq(Row) /\ Len(cache') = Len(cache) + k
            /\ RunFrom(cache', enq)
        <4>1. RunFrom(cache, enq) /\ cache \in Seq(Row) /\ enq \in Nat
          BY <1>1 DEF WriterOK, TypeOK
        <4>2. PICK t \in Seq(Row) : t = SubSeq(rows, 1, k)
          BY <3>3
        <4>3. cache' = cache \o t /\ Len(t) = k /\ RunFrom(t, enq + Len(cache))
          BY <3>1, <3>3, <4>2
        <4>4. cache \o t \in Seq(Row) /\ Len(cache \o t) = Len(cache) + Len(t) /\ RunFrom(cache \o t, enq)
          BY <4>1, <4>3, JoinRuns
        <4> QED BY <4>3, <4>4
      <3>5. Cached' = Len(cache) + k
        BY <3>1, <3>4 DEF Cached
      <3>6. nrow' = enq' + Cached' + Len(wrows') /\ RunFrom(wrows', enq' + Cached')
        BY <1>1, <1>2, <1>3, <3>2, <3>3, <3>4, <3>5 DEF link, TypeOK
      <3>7. WriterShape'
        <4>1. wpc' = "idle" => wrows' = <<>>
          <5>1. wpc' = "idle" => Len(wrows') = 0
            BY <1>3, <3>1, <3>2, <3>3
          <5> QED BY <3>3, <5>1, NoRows
        <4>2. Len(cache') <= lines' /\ (wpc' = "put" => cache' # <<>>)
          <5>1. lines' = lines /\ Len(cache) \in Nat
            BY <1>1 DEF WriterOK
          <5>2. Len(cache') <= lines' /\ (wpc' = "put" => Len(cache') # 0)
            BY <3>1, <3>2, <3>4, <5>1
          <5> QED BY <3>4, <5>2, NoRows
        <4>3. wthen' = "none" /\ wpc' \in {"idle", "put"} /\ lines' # 0 /\ ~closed'
          BY <1>1, <2>2, <3>1 DEF WriterOK, WriterShape
        <4> QED
          BY <4>1, <4>2, <4>3 DEF WriterShape
      <3>8. wpc' \in {"idle", "put"} /\ RunFrom(cache', enq')
        BY <1>1, <3>1, <3>4 DEF link
      <3>9. /\ nrow' \in Nat /\ lines' \in {0, CacheLines}
            /\ wthen' \in {"none", "brk", "close"}
        BY <1>1 DEF TypeOK
      <3> QED
        BY <3>3, <3>4, <3>6, <3>7, <3>8, <3>9 DEF WriterOK
    <2> QED BY <2>1, <2>2
  <1> QED BY <1>1, <1>4, WriterStep DEF TypeOK

LEMMA CacheFlushedInv == Inv /\ CacheFlushed => Inv'
  <1> SUFFICES ASSUME Inv, CacheFlushed PROVE Inv'
    OBVIOUS
  <1> DEFINE k == IF Len(wrows) < lines THEN Len(wrows) ELSE lines
  <1>1. /\ WriterOK /\ TypeOK /\ wpc = "reset" /\ ~closed
        /\ UNCHANGED <<link, breaks, nbreak, failed, reader, lines, nrow>>
    BY InvWriterOK DEF Inv, CacheFlushed, WriterOK, WriterShape
  <1>2. /\ cache' = <<>> \o SubSeq(wrows, 1, k)
        /\ wrows' = SubSeq(wrows, k + 1, Len(wrows))
        /\ wpc' = CASE wrows # <<>> /\ k = lines -> "put"
                    [] wrows = <<>> /\ wthen = "brk" -> "brk"
                    [] OTHER -> "idle"
        /\ wthen' = IF wrows = <<>> THEN "none" ELSE wthen
        /\ closed' = (closed \/ (wrows = <<>> /\ wthen = "close"))
    BY DEF CacheFlushed, AfterFlush
  <1>3. /\ k \in 0..Len(wrows) /\ lines \in Nat \ {0} /\ k <= lines
        /\ k # lines => k = Len(wrows)
        /\ wrows \in Seq(Row) /\ RunFrom(wrows, enq) /\ nrow = enq + Len(wrows)
        /\ enq \in Nat
    BY <1>1 DEF WriterOK, WriterShape, Cached, TypeOK
  <1> HIDE DEF k
  <1>4. /\ cache' \in Seq(Row) /\ Len(cache') = k /\ RunFrom(cache', enq)
        /\ wrows' \in Seq(Row) /\ Len(wrows') = Len(wrows) - k
        /\ RunFrom(wrows', enq + k)
    <2>1. /\ SubSeq(wrows, 1, k) \in Seq(Row) /\ Len(SubSeq(wrows, 1, k)) = k
          /\ RunFrom(SubSeq(wrows, 1, k), enq)
          /\ wrows' \in Seq(Row) /\ Len(wrows') = Len(wrows) - k
          /\ RunFrom(wrows', enq + k)
      <3>1. PICK t : t = SubSeq(wrows, k + 1, Len(wrows))
        OBVIOUS
      <3>2. /\ SubSeq(wrows, 1, k) \in Seq(Row) /\ Len(SubSeq(wrows, 1, k)) = k
            /\ RunFrom(SubSeq(wrows, 1, k), enq)
            /\ t \in Seq(Row) /\ Len(t) = Len(wrows) - k /\ RunFrom(t, enq + k)
        BY <1>3, <3>1, CutRun
      <3>3. wrows' = t
        BY <1>2, <3>1
      <3> QED BY <3>2, <3>3
    <2>2. cache' = SubSeq(wrows, 1, k)
      <3>1. PICK t \in Seq(Row) : t = SubSeq(wrows, 1, k)
        BY <2>1
      <3>2. <<>> \o t = t
        BY ConcatEmptySeq
      <3> QED BY <1>2, <3>1, <3>2
    <2> QED BY <2>1, <2>2
  <1>5. wpc' \in {"put", "brk", "idle"} /\ Cached' = k
    BY <1>2, <1>4 DEF Cached
  <1>6. nrow' = enq' + Cached' + Len(wrows') /\ RunFrom(wrows', enq' + Cached')
    BY <1>1, <1>3, <1>4, <1>5 DEF link
  <1>7. WriterShape'
    <2>1. wpc' # "put" => Len(wrows') = 0
      <3>1. CASE wrows = <<>>
        <4>1. PICK n \in Nat : n = Len(wrows) /\ n = 0
          BY <1>3, <3>1, NoRows
        <4>2. k = 0
          BY <1>3, <4>1
        <4> QED BY <1>4, <4>1, <4>2
      <3>2. CASE wrows # <<>> /\ k = lines
        BY <1>2, <3>2
      <3>3. CASE k # lines
        BY <1>3, <1>4, <3>3
      <3> QED BY <3>1, <3>2, <3>3
    <2>2. wpc' = "brk" => Len(cache') = 0
      <3>1. wrows = <<>> => Len(wrows) = 0
        BY <1>3, NoRows
      <3> QED BY <1>2, <1>3, <1>4, <3>1
    <2>3. wpc' = "put" => Len(cache') # 0
      BY <1>2, <1>3, <1>4
    <2>4. /\ wpc' # "put" => wrows' = <<>>
          /\ wpc' = "brk" => cache' = <<>>
          /\ wpc' = "put" => cache' # <<>>
      BY <1>4, <2>1, <2>2, <2>3, NoRows
    <2>5. Len(cache') <= lines' /\ lines' # 0
      BY <1>1, <1>3, <1>4
    <2>6. wthen' = "none"
      BY <1>1, <1>2 DEF WriterOK, WriterShape
    <2>7. wpc' # "idle" => ~closed'
      BY <1>1, <1>2 DEF WriterOK, WriterShape
    <2> QED BY <1>5, <2>4, <2>5, <2>6, <2>7 DEF WriterShape
  <1>8. WriterOK'
    <2>1. RunFrom(cache', enq') /\ nrow' \in Nat /\ lines' \in {0, CacheLines}
      BY <1>1, <1>4 DEF link, TypeOK
    <2>2. wthen' \in {"none", "brk", "close"}
      BY <1>1, <1>2 DEF TypeOK
    <2> QED BY <1>4, <1>5, <1>6, <1>7, <2>1, <2>2 DEF WriterOK
  <1>9. closed' \in BOOLEAN
    BY <1>2
  <1> QED BY <1>1, <1>8, <1>9, WriterStep

LEMMA FlushCacheInv == Inv /\ FlushCache => Inv'
  <1> SUFFICES ASSUME Inv, FlushCache PROVE Inv'
    OBVIOUS
  <1>1. lines # 0
    BY InvWriterOK, NoRows DEF FlushCache, WriterOK, WriterShape
  <1>2. WriterOK'
    BY <1>1, InvWriterOK
    DEF WriterOK, FlushCache, RunFrom, Cached, WriterShape, link
  <1> QED BY <1>2, WriterStep DEF FlushCache, Inv, TypeOK

LEMMA CloseIntervalInv == Inv /\ CloseInterval => Inv'
  <1> SUFFICES ASSUME Inv, CloseInterval PROVE Inv'
    OBVIOUS
  <1>1. cache # <<>> => lines # 0
    BY InvWriterOK, NoRows DEF WriterOK, WriterShape
  <1>2. WriterOK'
    BY <1>1, InvWriterOK
    DEF WriterOK, CloseInterval, RunFrom, Cached, WriterShape, link
  <1> QED BY <1>2, WriterStep DEF CloseInterval, Inv, TypeOK

LEMMA CloseInv == Inv /\ Close => Inv'
  <1> SUFFICES ASSUME Inv, Close PROVE Inv'
    OBVIOUS
  <1>1. cache # <<>> => lines # 0
    BY InvWriterOK, NoRows DEF WriterOK, WriterShape
  <1>2. WriterOK'
    BY <1>1, InvWriterOK
    DEF WriterOK, Close, RunFrom, Cached, WriterShape, link
  <1>3. closed' \in BOOLEAN
    BY DEF Close, Inv, TypeOK
  <1> QED BY <1>2, <1>3, WriterStep DEF Close

LEMMA ReaderCloseInv == Inv /\ ReaderClose => Inv'
  <1> SUFFICES ASSUME Inv, ReaderClose PROVE Inv'
    OBVIOUS
  <1>1. /\ cache = <<>> /\ cache' = cache /\ wrows' = <<>> /\ enq' = enq
        /\ nrow' = enq /\ enq \in Nat
    BY InvWriterOK, NoRows
    DEF ReaderClose, WriterOK, WriterShape, link, Inv, TypeOK
  <1>2. nrow' = enq' + Cached' + Len(wrows')
    BY <1>1 DEF Cached
  <1>3. WriterOK'
    BY <1>1, <1>2, InvWriterOK, EmptyRun
    DEF WriterOK, ReaderClose, RunFrom, Cached, WriterShape, Inv, TypeOK
  <1> QED BY <1>3, WriterStep DEF ReaderClose

\* What Inv says of an entry of the queue.
LEMMA EntryFacts ==
  ASSUME Inv, NEW i \in 1..Len(queue)
  PROVE  /\ queue[i] \in Entry /\ queue[i].at \in Nat
         /\ queue[i].rows \in Seq(Row) /\ Len(queue[i].rows) \in Nat
         /\ Taken <= queue[i].at
         /\ queue[i].at + Len(queue[i].rows) <= enq
         /\ queue[i].rows = <<>> => queue[i].at \in breaks
         /\ queue[i].at = Before(i) /\ RunFrom(queue[i].rows, queue[i].at)
  <1>1. queue[i] \in Entry
    BY ElementOfSeq DEF Inv, TypeOK
  <1>2. /\ queue[i].at \in Nat /\ queue[i].rows \in Seq(Row)
        /\ Len(queue[i].rows) \in Nat
    BY <1>1
  <1>3. /\ Taken <= queue[i].at
        /\ queue[i].at + Len(queue[i].rows) <= enq
        /\ queue[i].rows = <<>> => queue[i].at \in breaks
    BY DEF Inv, QueueShape
  <1>4. queue[i].at = Before(i) /\ RunFrom(queue[i].rows, queue[i].at)
    BY DEF Inv, RowsInOrder
  <1> QED BY <1>1, <1>2, <1>3, <1>4

\* A step that appends rows, or a break when there are none, to the queue.
LEMMA EnqueueStep ==
  ASSUME Inv, NEW rows \in Seq(Row), RunFrom(rows, enq),
         queue' = Append(queue, [rows |-> rows, at |-> enq]),
         queued_rows' = queued_rows + Len(rows), enq' = enq + Len(rows),
         breaks' = IF rows = <<>> THEN breaks \cup {enq} ELSE breaks,
         nbreak' \in Nat, ~Busy, UNCHANGED <<closed, failed, reader>>, WriterOK'
  PROVE  Inv'
  <1> DEFINE e == [rows |-> rows, at |-> enq]
  <1>1. TypeOK /\ enq \in Nat /\ queue \in Seq(Entry) /\ Len(queue) \in Nat
    BY DEF Inv, TypeOK
  <1>2. e \in Entry /\ Len(rows) \in Nat
    BY <1>1
  <1>3. /\ queue' \in Seq(Entry) /\ Len(queue') = Len(queue) + 1
        /\ \A i \in 1..Len(queue) : queue'[i] = queue[i]
        /\ queue'[Len(queue) + 1] = e
    BY <1>1, <1>2, AppendProperties
  <1>4. e.rows = rows /\ e.at = enq
    OBVIOUS
  <1>5. /\ read_buffer' = read_buffer /\ consumed' = consumed /\ Taken' = Taken
        /\ seen' = seen /\ eof' = eof /\ reread' = reread /\ rpc' = rpc
        /\ interval_break' = interval_break /\ alloc' = alloc
    BY DEF reader, Taken
  <1>6. \A i \in 1..Len(queue) :
           /\ queue[i] \in Entry /\ queue[i].at \in Nat
           /\ Len(queue[i].rows) \in Nat /\ Taken <= queue[i].at
           /\ queue[i].at + Len(queue[i].rows) <= enq
    BY EntryFacts
  <1> HIDE DEF e
  <1>7. TypeOK'
    <2>1. breaks' \subseteq Nat
      BY <1>1 DEF TypeOK
    <2>2. queued_rows' \in Nat /\ enq' \in Nat
      BY <1>1, <1>2 DEF TypeOK
    <2>3. /\ lines' \in {0, CacheLines} /\ cache' \in Seq(Row)
          /\ wrows' \in Seq(Row) /\ nrow' \in Nat
          /\ wpc' \in {"idle", "put", "reset", "brk"}
          /\ wthen' \in {"none", "brk", "close"}
      BY DEF WriterOK
    <2> QED BY <1>1, <1>3, <2>1, <2>2, <2>3 DEF TypeOK, reader
  <1>8. RowsInOrder'
    <2>1. RunFrom(read_buffer', consumed')
      BY <1>5 DEF Inv, RowsInOrder
    <2>2. PICK n \in Nat : n = Len(queue)
      BY <1>1
    <2>3. \A i \in 1 .. n + 1 : Before(i)' = Before(i)
      BY <1>1, <1>3, <1>5, <2>2 DEF Before
    <2>4. Before(n + 1)' = enq
      BY <2>2, <2>3 DEF Inv, RowsInOrder
    <2>5. \A i \in 1 .. n : queue[i].at = Before(i) /\ RunFrom(queue[i].rows, queue[i].at)
      BY <2>2 DEF Inv, RowsInOrder
    <2>6. ASSUME NEW i \in 1 .. n + 1
          PROVE  queue'[i].at = Before(i)' /\ RunFrom(queue'[i].rows, queue'[i].at)
      <3>1. CASE i = n + 1
        BY <1>3, <1>4, <2>2, <2>4, <3>1
      <3>2. CASE i # n + 1
        <4>1. i \in 1 .. n
          BY <2>2, <3>2
        <4> QED BY <1>3, <2>2, <2>3, <2>5, <4>1
      <3> QED BY <3>1, <3>2
    <2>7. enq' = Before(n + 1 + 1)'
      BY <1>1, <1>2, <1>3, <1>4, <2>2 DEF Before
    <2>8. Len(queue') = n + 1
      BY <1>3, <2>2
    <2> QED
      BY <2>1, <2>6, <2>7, <2>8 DEF RowsInOrder, WriterOK
  <1>9. QueueShape'
    <2>1. ASSUME NEW i \in 1..Len(queue'), NEW j \in 1..Len(queue'), i < j
          PROVE  queue'[i].at + Len(queue'[i].rows) <= queue'[j].at
      <3>1. i \in 1..Len(queue) /\ queue'[i] = queue[i]
        BY <1>1, <1>3, <2>1
      <3>2. CASE j = Len(queue) + 1
        BY <1>3, <1>4, <1>6, <3>1, <3>2
      <3>3. CASE j # Len(queue) + 1
        <4>1. j \in 1..Len(queue) /\ queue'[j] = queue[j]
          BY <1>1, <1>3, <3>3
        <4> QED BY <2>1, <3>1, <4>1 DEF Inv, QueueShape
      <3> QED BY <3>2, <3>3
    <2>2. ASSUME NEW i \in 1..Len(queue')
          PROVE  /\ Taken' <= queue'[i].at
                 /\ queue'[i].at + Len(queue'[i].rows) <= enq'
                 /\ queue'[i].rows = <<>> => queue'[i].at \in breaks'
      <3>1. CASE i = Len(queue) + 1
        <4>1. Taken <= enq /\ Taken \in Nat
          <5>1. Taken \in Nat /\ queued_rows \in Nat
            BY <1>1 DEF TypeOK, Taken
          <5>2. queued_rows + Taken = enq
            BY DEF Inv, Counted
          <5> QED BY <5>1, <5>2
        <4> QED BY <1>1, <1>2, <1>3, <1>4, <1>5, <3>1, <4>1
      <3>2. CASE i # Len(queue) + 1
        <4>1. i \in 1..Len(queue) /\ queue'[i] = queue[i]
          BY <1>1, <1>3, <3>2
        <4>2. queue[i].rows = <<>> => queue[i].at \in breaks
          BY <4>1 DEF Inv, QueueShape
        <4>3. queue'[i].rows = <<>> => queue'[i].at \in breaks'
          BY <4>1, <4>2
        <4>4. enq <= enq' /\ enq' \in Nat
          BY <1>1, <1>2
        <4>5. queue[i].at + Len(queue[i].rows) <= enq
          BY <1>6, <4>1
        <4>6. queue[i].at \in Nat /\ Len(queue[i].rows) \in Nat
          BY <1>6, <4>1
        <4>7. queue[i].at + Len(queue[i].rows) <= enq'
          <5>1. queue[i].at + Len(queue[i].rows) \in Nat
            <6>1. PICK a \in Nat, l \in Nat : a = queue[i].at /\ l = Len(queue[i].rows)
              BY <4>6
            <6>2. a + l \in Nat
              OBVIOUS
            <6> QED BY <6>1, <6>2
          <5> QED BY <1>1, <4>4, <4>5, <5>1, LeqTrans
        <4> QED BY <1>5, <1>6, <4>1, <4>3, <4>7
      <3> QED BY <3>1, <3>2
    <2> QED BY <2>1, <2>2 DEF QueueShape
  <1>10. Counted'
    <2>1. queued_rows \in Nat /\ Taken \in Nat /\ queued_rows + Taken = enq
      BY <1>1 DEF TypeOK, Taken, Inv, Counted
    <2>2. queued_rows' + Taken' = enq'
      BY <1>2, <1>5, <2>1
    <2>3. rpc # "drain"
      BY DEF Busy
    <2> QED BY <1>5, <2>2, <2>3 DEF Counted
  <1>11. ReaderShape'
    <2>1. \A b : Pending(b) => Pending(b)'
      BY <1>1, <1>3, <1>5 DEF Pending
    <2>2. \A b : rows = <<>> /\ b = enq => Pending(b)'
      BY <1>1, <1>3, <1>4 DEF Pending
    <2>3. \A b \in breaks' : b \in breaks \/ (rows = <<>> /\ b = enq)
      OBVIOUS
    <2>4. \A b \in breaks : b \in seen \/ Pending(b)
      BY DEF Inv, ReaderShape
    <2>5. \A b \in breaks' : b \in seen' \/ Pending(b)'
      BY <1>5, <2>1, <2>2, <2>3, <2>4
    <2>6. reread /\ interval_break => Taken \in breaks'
      BY DEF Inv, ReaderShape
    <2> QED BY <1>5, <2>5, <2>6 DEF Inv, ReaderShape
  <1> QED BY <1>7, <1>8, <1>9, <1>10, <1>11 DEF Inv, WriterOK

LEMMA PutRowsInv == Inv /\ PutRows => Inv'
  <1> SUFFICES ASSUME Inv, PutRows PROVE Inv'
    OBVIOUS
  <1>1. /\ WriterOK /\ TypeOK /\ ~Busy /\ wpc = "put" /\ enq \in Nat /\ ~closed
        /\ UNCHANGED <<closed, failed, breaks, nbreak, lines, cache, wthen, nrow,
                       reader>>
    BY InvWriterOK DEF Inv, PutRows, TypeOK, WriterOK, WriterShape
  <1>2. CASE lines = 0
    <2>1. Enqueue(wrows) /\ wrows' = <<>> /\ wpc' = "idle"
      BY <1>2 DEF PutRows
    <2>2. /\ Len(cache) = 0 /\ cache = <<>> /\ wthen = "none"
          /\ wrows # <<>> /\ wrows \in Seq(Row)
      BY <1>1, <1>2, NoRows DEF WriterOK, WriterShape
    <2>3. Cached = 0 /\ Cached' = 0
      BY <1>1, <2>1, <2>2 DEF Cached
    <2>4. RunFrom(wrows, enq) /\ nrow = enq + Len(wrows)
      BY <1>1, <2>2, <2>3 DEF WriterOK
    <2>5. enq' = enq + Len(wrows) /\ enq' \in Nat /\ Len(wrows') = 0
      BY <1>1, <2>1, <2>2 DEF Enqueue
    <2>6. nrow' = enq' + Cached' + Len(wrows')
      BY <1>1, <2>3, <2>4, <2>5
    <2>7. RunFrom(wrows', enq' + Cached') /\ RunFrom(cache', enq')
      BY <1>1, <2>1, <2>2, <2>3, <2>5, EmptyRun
    <2>8. WriterShape'
      BY <1>1, <1>2, <2>1, <2>2 DEF WriterShape
    <2>9. WriterOK'
      BY <1>1, <2>1, <2>6, <2>7, <2>8 DEF WriterOK
    <2> QED BY <1>1, <2>1, <2>2, <2>4, <2>9, EnqueueStep DEF Enqueue, TypeOK
  <1>3. CASE lines # 0
    <2>1. Enqueue(cache) /\ wpc' = "reset" /\ wrows' = wrows
      BY <1>3 DEF PutRows
    <2>2. cache # <<>> /\ cache \in Seq(Row) /\ RunFrom(cache, enq)
      BY <1>1, <1>3 DEF WriterOK, WriterShape
    <2>3. Cached = Len(cache) /\ Cached' = 0
      BY <1>1, <2>1 DEF Cached
    <2>4. enq' = enq + Len(cache) /\ enq' \in Nat
      BY <1>1, <2>1, <2>2 DEF Enqueue
    <2>5. nrow' = enq' + Cached' + Len(wrows') /\ RunFrom(wrows', enq' + Cached')
      BY <1>1, <2>1, <2>3, <2>4 DEF WriterOK
    <2>6. WriterShape'
      BY <1>1, <1>3, <2>1, <2>2 DEF WriterOK, WriterShape
    <2>7. WriterOK'
      BY <1>1, <2>1, <2>5, <2>6 DEF WriterOK
    <2> QED BY <1>1, <2>1, <2>2, <2>7, EnqueueStep DEF Enqueue, TypeOK
  <1> QED BY <1>2, <1>3

\* Both ways of closing an interval put the None right after the last row.
LEMMA BreakStep ==
  ASSUME Inv, ~Busy, PutNone, wpc \in {"idle", "brk"}, wpc' = "idle",
         wpc = "idle" => lines = 0,
         UNCHANGED <<queued_rows, enq, closed, failed, lines, cache, wrows, wthen,
                     nrow, reader>>
  PROVE  Inv' /\ nrow = enq
  <1>1. /\ WriterOK /\ enq \in Nat /\ queued_rows \in Nat /\ nbreak \in Nat
        /\ cache \in Seq(Row) /\ wrows = <<>> /\ Len(wrows) = 0
        /\ wthen = "none"
    BY InvWriterOK DEF Inv, TypeOK, WriterOK, WriterShape
  <1>2. Len(cache) = 0 /\ cache = <<>>
    BY <1>1, NoRows DEF WriterOK, WriterShape
  <1>3. Cached = 0 /\ Cached' = 0
    BY <1>2 DEF Cached
  <1>4. nrow = enq
    BY <1>1, <1>3 DEF WriterOK
  <1>5. WriterShape'
    BY <1>1, <1>2 DEF WriterOK, WriterShape
  <1>6. WriterOK'
    BY <1>1, <1>2, <1>3, <1>5 DEF WriterOK
  <1>7. /\ <<>> \in Seq(Row) /\ RunFrom(<<>>, enq)
        /\ queued_rows' = queued_rows + Len(<<>>) /\ enq' = enq + Len(<<>>)
    BY <1>1, EmptyRun
  <1>8. /\ queue' = Append(queue, [rows |-> <<>>, at |-> enq])
        /\ breaks' = breaks \cup {enq} /\ nbreak' \in Nat
    BY <1>1, <1>4 DEF PutNone
  <1> QED BY <1>4, <1>6, <1>7, <1>8, EnqueueStep

LEMMA PutBreakInv == Inv /\ PutBreak => Inv' /\ nrow = enq
  BY BreakStep DEF PutBreak

LEMMA CloseIntervalNowaitInv == Inv /\ CloseIntervalNowait => Inv' /\ nrow = enq
  BY BreakStep DEF CloseIntervalNowait, writer

-----------------------------------------------------------------------------
(* The reader's steps *)

\* What Inv says of the reader.
ReaderOK ==
    /\ read_buffer \in Seq(Row) /\ consumed \in Nat /\ alloc \in Nat
    /\ interval_break \in BOOLEAN /\ reread \in BOOLEAN /\ probe \in BOOLEAN
    /\ eof \in BOOLEAN /\ rpc \in {"idle", "wait", "drain"} /\ seen \subseteq Nat
    /\ RunFrom(read_buffer, consumed)
    /\ rpc = "drain" => alloc = queued_rows + Len(read_buffer)

LEMMA InvReaderOK == Inv => ReaderOK /\ Taken \in Nat
  BY DEF Inv, TypeOK, RowsInOrder, Counted, ReaderOK, Taken

\* A step of the reader that leaves the queue and the writer alone.
LEMMA ReaderStep ==
  ASSUME Inv, UNCHANGED <<link, closed, breaks, nbreak, writer>>,
         failed' \in BOOLEAN, Taken' = Taken, ReaderOK', ReaderShape'
  PROVE  Inv'
  <1>1. TypeOK'
    BY DEF Inv, TypeOK, ReaderOK, link, writer
  <1>2. RowsInOrder'
    <2>1. \A i \in 1..Len(queue') :
             queue'[i].at = Before(i)' /\ RunFrom(queue'[i].rows, queue'[i].at)
      BY DEF Inv, RowsInOrder, Before, link
    <2>2. enq' = Before(Len(queue) + 1)'
      BY DEF Inv, RowsInOrder, Before, link
    <2>3. /\ wpc' # "reset" => RunFrom(cache', enq')
          /\ RunFrom(wrows', enq' + Cached')
          /\ nrow' = enq' + Cached' + Len(wrows')
      BY DEF Inv, RowsInOrder, Cached, link, writer
    <2> QED BY <2>1, <2>2, <2>3 DEF RowsInOrder, ReaderOK
  <1>3. WriterShape'
    BY DEF Inv, WriterShape, writer
  <1>4. QueueShape' /\ Counted'
    BY DEF Inv, QueueShape, Counted, ReaderOK, link
  <1> QED BY <1>1, <1>2, <1>3, <1>4 DEF Inv

LEMMA RereadInv == Inv /\ Reread => Inv'
  <1> SUFFICES ASSUME Inv, Reread PROVE Inv'
    OBVIOUS
  <1>1. Taken' = Taken /\ Taken \in Nat
    BY InvReaderOK DEF Reread, Taken
  <1>2. ReaderOK'
    BY <1>1, InvReaderOK DEF ReaderOK, Reread, link, RunFrom
  <1>3. ReaderShape'
    <2>1. \A b \in breaks : b \in seen \/ Pending(b)
      BY DEF Inv, ReaderShape
    <2>2. \A b : Pending(b) => b \in seen' \/ Pending(b)'
      BY <1>1 DEF Pending, Reread, link
    <2> QED BY <2>1, <2>2 DEF ReaderShape, Reread
  <1> QED BY <1>1, <1>2, <1>3, ReaderStep DEF Reread, Inv, TypeOK

\* Entering _read: nothing was pending that the read could overwrite.
LEMMA ReadInv == ASSUME NEW p \in BOOLEAN, Inv, Read(p) PROVE Inv'
  <1>1. Taken' = Taken /\ Taken \in Nat
    BY InvReaderOK DEF Read, Taken
  <1>2. ReaderOK'
    <2>1. ReaderOK /\ queued_rows \in Nat
      BY InvReaderOK DEF Inv, TypeOK
    <2>2. alloc' \in Nat
      BY <2>1 DEF ReaderOK, Read, StartDrain
    <2>3. /\ UNCHANGED <<queued_rows, read_buffer, reread, consumed, seen, eof>>
          /\ interval_break' \in BOOLEAN /\ probe' \in BOOLEAN
      BY DEF Read, link
    <2>4. /\ rpc' \in {"idle", "wait", "drain"}
          /\ rpc' = "drain" => alloc' = queued_rows' + Len(read_buffer')
      BY <2>3 DEF Read, StartDrain
    <2> QED BY <2>1, <2>2, <2>3, <2>4 DEF ReaderOK
  <1>3. ReaderShape'
    <2>1. \A b \in breaks : b \in seen \/ Pending(b)
      BY DEF Inv, ReaderShape
    <2>2. \A b : Pending(b) => Pending(b)'
      BY <1>1 DEF Pending, Read, link
    <2> QED BY <2>1, <2>2 DEF ReaderShape, Read
  <1> QED BY <1>1, <1>2, <1>3, ReaderStep DEF Read, Inv, TypeOK

LEMMA ReadWakeInv == Inv /\ ReadWake => Inv'
  <1> SUFFICES ASSUME Inv, ReadWake PROVE Inv'
    OBVIOUS
  <1>1. Taken' = Taken /\ Taken \in Nat
    BY InvReaderOK DEF ReadWake, Taken
  <1>2. ReaderOK'
    <2>1. ReaderOK /\ queued_rows \in Nat
      BY InvReaderOK DEF Inv, TypeOK
    <2> QED BY <2>1 DEF ReaderOK, ReadWake, StartDrain, link
  <1>3. ReaderShape'
    BY <1>1 DEF Inv, ReaderShape, Pending, ReadWake, link
  <1> QED BY <1>1, <1>2, <1>3, ReaderStep DEF ReadWake, Inv, TypeOK

LEMMA DrainDoneInv == Inv /\ DrainDone => Inv'
  <1> SUFFICES ASSUME Inv, DrainDone PROVE Inv'
    OBVIOUS
  <1>1. Taken' = Taken /\ Taken \in Nat
    BY InvReaderOK DEF DrainDone, Taken
  <1>2. eof' \in BOOLEAN /\ reread' \in BOOLEAN /\ seen' = seen /\ rpc' = "idle"
    <2>1. eof' \in BOOLEAN
      BY DEF DrainDone, Return
    <2>2. probe \in BOOLEAN
      BY DEF Inv, TypeOK
    <2> QED BY <2>1, <2>2 DEF DrainDone, Return
  <1>3. ReaderOK'
    <2>1. UNCHANGED <<read_buffer, interval_break, probe, alloc, consumed>>
      BY DEF DrainDone
    <2> QED BY <1>2, <2>1, InvReaderOK DEF ReaderOK
  <1>4. ReaderShape'
    BY <1>1, <1>2 DEF Inv, ReaderShape, Pending, DrainDone, link
  <1> QED BY <1>1, <1>3, <1>4, ReaderStep DEF DrainDone, Inv, TypeOK

LEMMA ConsumeInv == ASSUME NEW n \in 1..MaxRows, Inv, Consume(n) PROVE Inv'
  <1>1. ReaderOK /\ n \in 0..Len(read_buffer)
    BY InvReaderOK DEF Consume, ReaderOK
  <1>2. /\ read_buffer' \in Seq(Row) /\ Len(read_buffer') = Len(read_buffer) - n
        /\ RunFrom(read_buffer', consumed')
    BY <1>1, CutRun DEF Consume, ReaderOK
  <1>3. Taken' = Taken
    <2>1. consumed' = consumed + n
      BY DEF Consume
    <2>2. consumed \in Nat /\ Len(read_buffer) \in Nat /\ n \in Nat
      BY <1>1 DEF ReaderOK
    <2>3. consumed + n + (Len(read_buffer) - n) = consumed + Len(read_buffer)
      BY <2>2
    <2> QED BY <1>2, <2>1, <2>3 DEF Taken
  <1>4. ReaderOK'
    BY <1>1, <1>2 DEF ReaderOK, Consume
  <1>5. ReaderShape'
    BY <1>3 DEF Inv, ReaderShape, Pending, Consume, link
  <1> QED BY <1>3, <1>4, <1>5, ReaderStep DEF Consume, Inv, TypeOK

LEMMA FailInv == Inv /\ Fail => Inv'
  <1> SUFFICES ASSUME Inv, Fail PROVE Inv'
    OBVIOUS
  <1>1. Taken' = Taken
    BY DEF Fail, Taken
  <1>2. ReaderOK'
    BY InvReaderOK DEF ReaderOK, Fail, RunFrom, link
  <1>3. ReaderShape'
    BY <1>1 DEF Inv, ReaderShape, Pending, Fail, link
  <1> QED BY <1>1, <1>2, <1>3, ReaderStep DEF Fail

\* The rows of the entry at the head of the queue.
FirstRows == Head(queue).rows

\* Taking the first entry off the queue.
LEMMA DequeueStep ==
  ASSUME Inv, queue # <<>>, NEW r \in Seq(Row), r = FirstRows,
         queue' = Tail(queue), read_buffer' = read_buffer \o r,
         queued_rows' = queued_rows - Len(r),
         UNCHANGED <<enq, consumed, closed, failed, breaks, nbreak, writer>>
  PROVE  /\ Head(queue) = queue[1] /\ Head(queue).at = Taken
         /\ Len(read_buffer') = Len(read_buffer) + Len(r)
         /\ Taken' = Taken + Len(r)
         /\ Len(queue) \in Nat \ {0} /\ Len(queue') = Len(queue) - 1
         /\ \A i \in 1..Len(queue') : queue'[i] = queue[i + 1]
         /\ read_buffer' \in Seq(Row) /\ RunFrom(read_buffer', consumed')
         /\ queue' \in Seq(Entry) /\ queued_rows' \in Nat
         /\ queued_rows' + Taken' = enq'
         /\ RowsInOrder' /\ QueueShape' /\ WriterShape'
  <1>1. TypeOK /\ queue \in Seq(Entry) /\ ReaderOK /\ Taken \in Nat /\ enq \in Nat
    BY InvReaderOK DEF Inv, TypeOK
  <1>2. Len(queue) \in Nat \ {0} /\ Head(queue) = queue[1]
    BY <1>1, EmptySeq
  <1>3. /\ queue' \in Seq(Entry) /\ Len(queue') = Len(queue) - 1
        /\ \A i \in 1..Len(queue') : queue'[i] = queue[i + 1]
    BY <1>1, HeadTailProperties
  <1>4. /\ Len(r) \in Nat /\ Taken + Len(r) <= enq /\ RunFrom(r, Taken)
        /\ queue[1].at = Taken /\ queue[1].rows = r
    <2>1. 1 \in 1..Len(queue) /\ Before(1) = Taken
      BY <1>2 DEF Before
    <2> QED BY <1>2, <2>1, EntryFacts DEF FirstRows
  <1>5. /\ read_buffer' \in Seq(Row) /\ RunFrom(read_buffer', consumed')
        /\ Len(read_buffer') = Len(read_buffer) + Len(r)
    BY <1>1, <1>2, <1>4, JoinRuns DEF ReaderOK, Taken
  <1>6. Taken' = Taken + Len(r)
    <2>1. consumed \in Nat /\ Len(read_buffer) \in Nat /\ consumed' = consumed
      BY <1>1 DEF ReaderOK
    <2>2. consumed + (Len(read_buffer) + Len(r))
            = consumed + Len(read_buffer) + Len(r)
      BY <1>4, <2>1, PlusAssoc
    <2> QED BY <1>5, <2>1, <2>2 DEF Taken
  <1>7. queued_rows' \in Nat /\ queued_rows' + Taken' = enq'
    <2>1. queued_rows \in Nat /\ queued_rows + Taken = enq
      BY <1>1 DEF TypeOK, Inv, Counted
    <2>2. queued_rows' = queued_rows - Len(r) /\ enq' = enq
      BY <1>2, <1>4
    <2>3. Taken + Len(r) <= queued_rows + Taken
      BY <1>4, <2>1
    <2>4. /\ queued_rows - Len(r) \in Nat
          /\ queued_rows - Len(r) + (Taken + Len(r)) = queued_rows + Taken
      BY <1>1, <1>4, <2>1, <2>3, Moved
    <2> QED BY <1>6, <2>1, <2>2, <2>4
  <1>8. RowsInOrder'
    <2>1. PICK n \in Nat : n = Len(queue')
      BY <1>2, <1>3, Predecessor
    <2>2. \A i \in 1 .. n + 1 : Before(i)' = Before(i + 1)
      <3> SUFFICES ASSUME NEW i \in 1 .. n + 1 PROVE Before(i)' = Before(i + 1)
        OBVIOUS
      <3>1. CASE i = 1
        <4>1. Before(1)' = Taken'
          BY DEF Before
        <4>2. Before(1 + 1) = queue[1].at + Len(queue[1].rows)
          BY DEF Before
        <4> QED BY <1>4, <1>6, <3>1, <4>1, <4>2
      <3>2. CASE i # 1
        <4>1. i - 1 \in 1 .. n /\ i - 1 + 1 = i /\ i + 1 # 1 /\ i + 1 - 1 = i
          BY <3>2, Predecessor
        <4>2. queue'[i - 1] = queue[i]
          BY <1>3, <2>1, <4>1
        <4>3. Before(i)' = queue'[i - 1].at + Len(queue'[i - 1].rows)
          BY <3>2 DEF Before
        <4>4. Before(i + 1) = queue[i].at + Len(queue[i].rows)
          BY <4>1 DEF Before
        <4> QED BY <4>2, <4>3, <4>4
      <3> QED BY <3>1, <3>2
    <2>3. ASSUME NEW i \in 1 .. n
          PROVE  queue'[i].at = Before(i)' /\ RunFrom(queue'[i].rows, queue'[i].at)
      <3>1. i + 1 \in 1..Len(queue) /\ queue'[i] = queue[i + 1]
        BY <1>2, <1>3, <2>1
      <3> QED BY <2>2, <3>1, EntryFacts
    <2>4. enq' = Before(n + 1)'
      <3>1. n + 1 + 1 = Len(queue) + 1
        BY <1>2, <1>3, <2>1
      <3>2. enq = Before(Len(queue) + 1)
        BY DEF Inv, RowsInOrder
      <3> QED BY <2>2, <3>1, <3>2
    <2>5. /\ wpc' # "reset" => RunFrom(cache', enq')
          /\ RunFrom(wrows', enq' + Cached')
          /\ nrow' = enq' + Cached' + Len(wrows')
      BY DEF Inv, RowsInOrder, Cached, writer
    <2> QED BY <1>5, <2>1, <2>3, <2>4, <2>5 DEF RowsInOrder
  <1>9. QueueShape'
    <2>1. \A i \in 1..Len(queue') : i + 1 \in 1..Len(queue) /\ queue'[i] = queue[i + 1]
      BY <1>2, <1>3
    <2>2. ASSUME NEW i \in 1..Len(queue'), NEW j \in 1..Len(queue'), i < j
          PROVE  queue'[i].at + Len(queue'[i].rows) <= queue'[j].at
      BY <2>1, <2>2 DEF Inv, QueueShape
    <2>3. ASSUME NEW i \in 1..Len(queue') PROVE Taken' <= queue'[i].at
      <3>1. 1 \in 1..Len(queue) /\ 1 < i + 1
        BY <1>2
      <3>2. queue[1].at + Len(queue[1].rows) <= queue[i + 1].at
        BY <2>1, <3>1 DEF Inv, QueueShape
      <3>3. Taken + Len(r) <= queue[i + 1].at
        BY <1>4, <3>2
      <3> QED BY <1>6, <2>1, <3>3
    <2>4. \A i \in 1..Len(queue') :
             /\ queue'[i].at + Len(queue'[i].rows) <= enq'
             /\ queue'[i].rows = <<>> => queue'[i].at \in breaks'
      BY <2>1 DEF Inv, QueueShape
    <2> QED BY <2>2, <2>3, <2>4 DEF QueueShape
  <1>10. WriterShape'
    BY DEF Inv, WriterShape, writer
  <1> QED
    BY <1>2, <1>3, <1>4, <1>5, <1>6, <1>7, <1>8, <1>9, <1>10

LEMMA FirstRowsFacts ==
  Inv /\ queue # <<>> => FirstRows \in Seq(Row) /\ Len(FirstRows) \in Nat
  <1> SUFFICES ASSUME Inv, queue # <<>>
               PROVE  FirstRows \in Seq(Row) /\ Len(FirstRows) \in Nat
    OBVIOUS
  <1>1. queue \in Seq(Entry)
    BY DEF Inv, TypeOK
  <1>2. Head(queue) \in Entry
    BY <1>1, HeadTailProperties
  <1> QED BY <1>2 DEF FirstRows

LEMMA TakeBlockInv == Inv /\ TakeBlock => Inv'
  <1> SUFFICES ASSUME Inv, TakeBlock PROVE Inv'
    OBVIOUS
  <1>1. PICK r \in Seq(Row) :
           /\ r = FirstRows /\ r # <<>> /\ Len(r) \in Nat
           /\ read_buffer' = read_buffer \o r /\ queued_rows' = queued_rows - Len(r)
    BY FirstRowsFacts DEF TakeBlock, FirstRows
  <1>2. /\ queue # <<>> /\ queue' = Tail(queue) /\ rpc = "drain"
        /\ UNCHANGED <<enq, closed, failed, breaks, nbreak, writer, interval_break,
                       reread, rpc, probe, alloc, consumed, seen, eof>>
    BY DEF TakeBlock
  <1>3. /\ Head(queue) = queue[1]
        /\ Len(read_buffer') = Len(read_buffer) + Len(r)
        /\ Taken' = Taken + Len(r)
        /\ Len(queue) \in Nat \ {0} /\ Len(queue') = Len(queue) - 1
        /\ \A i \in 1..Len(queue') : queue'[i] = queue[i + 1]
        /\ read_buffer' \in Seq(Row)
        /\ queue' \in Seq(Entry) /\ queued_rows' \in Nat
        /\ queued_rows' + Taken' = enq'
        /\ RowsInOrder' /\ QueueShape' /\ WriterShape'
    BY <1>1, <1>2, DequeueStep
  <1>4. TypeOK'
    <2>1. TypeOK
      BY DEF Inv
    <2>2. UNCHANGED <<enq, closed, failed, breaks, nbreak, lines, cache, wpc, wrows, wthen, nrow,
                      interval_break, reread, rpc, probe, alloc, consumed, seen, eof>>
      BY <1>2 DEF writer
    <2>3. read_buffer' \in Seq(Row) /\ queue' \in Seq(Entry) /\ queued_rows' \in Nat
      BY <1>3
    <2> QED BY <2>1, <2>2, <2>3 DEF TypeOK
  <1>5. Counted'
    <2>1. alloc = queued_rows + Len(read_buffer) /\ queued_rows \in Nat
      BY <1>2 DEF Inv, Counted, TypeOK
    <2>2. Len(read_buffer) \in Nat
      BY DEF Inv, TypeOK
    <2>3. queued_rows = queued_rows' + Len(r)
      BY <1>1, <1>3, <2>1
    <2>4. alloc' = queued_rows' + Len(read_buffer')
      BY <1>1, <1>2, <1>3, <2>1, <2>2, <2>3
    <2> QED BY <1>3, <2>4 DEF Counted
  <1>6. ReaderShape'
    <2>1. ~eof /\ ~reread /\ ~interval_break
      BY <1>2 DEF Inv, ReaderShape
    <2>2. queue[1].rows # <<>>
      BY <1>1, <1>3 DEF FirstRows
    <2>3. ASSUME NEW b \in breaks, b \notin seen PROVE Pending(b)'
      <3>1. PICK i \in 1..Len(queue) : queue[i].rows = <<>> /\ queue[i].at = b
        BY <2>1, <2>3 DEF Inv, ReaderShape, Pending
      <3>2. i # 1
        BY <2>2, <3>1
      <3>3. i - 1 \in 1..Len(queue') /\ i - 1 + 1 = i
        BY <1>3, <3>2
      <3>4. queue'[i - 1] = queue[i]
        BY <1>3, <3>3
      <3> QED BY <3>1, <3>3, <3>4 DEF Pending
    <2> QED BY <1>2, <2>1, <2>3 DEF ReaderShape
  <1> QED BY <1>3, <1>4, <1>5, <1>6 DEF Inv

LEMMA TakeBreakInv ==
  Inv /\ TakeBreak => Inv' /\ Taken \in breaks /\ Taken' = Taken
  <1> SUFFICES ASSUME Inv, TakeBreak
               PROVE  Inv' /\ Taken \in breaks /\ Taken' = Taken
    OBVIOUS
  <1>1. /\ queue # <<>> /\ queue' = Tail(queue) /\ rpc = "drain" /\ Return(TRUE)
        /\ interval_break' = TRUE
        /\ UNCHANGED <<queued_rows, enq, closed, failed, breaks, nbreak, writer,
                       read_buffer, probe, alloc, consumed>>
    BY DEF TakeBreak
  <1>2. FirstRows = <<>> /\ <<>> \in Seq(Row)
    BY DEF TakeBreak, FirstRows
  <1>3. /\ read_buffer' = read_buffer \o <<>>
        /\ queued_rows' = queued_rows - Len(<<>>)
    <2>1. read_buffer \in Seq(Row) /\ queued_rows \in Nat
      BY DEF Inv, TypeOK
    <2>2. read_buffer \o <<>> = read_buffer
      BY <2>1, ConcatEmptySeq
    <2>3. queued_rows - Len(<<>>) = queued_rows
      BY <2>1
    <2> QED BY <1>1, <2>2, <2>3
  <1>4. /\ Head(queue) = queue[1] /\ Head(queue).at = Taken
        /\ Taken' = Taken + Len(<<>>)
        /\ Len(queue) \in Nat \ {0} /\ Len(queue') = Len(queue) - 1
        /\ \A i \in 1..Len(queue') : queue'[i] = queue[i + 1]
        /\ queue' \in Seq(Entry) /\ queued_rows' \in Nat
        /\ queued_rows' + Taken' = enq'
        /\ RowsInOrder' /\ QueueShape' /\ WriterShape'
    BY <1>1, <1>2, <1>3, DequeueStep
  <1>5. Taken' = Taken /\ Taken \in Nat
    BY <1>1, InvReaderOK DEF Taken
  <1>6. Taken \in breaks
    <2>1. 1 \in 1..Len(queue) /\ queue[1].rows = <<>>
      BY <1>2, <1>4 DEF FirstRows
    <2>2. queue[1].at \in breaks
      BY <2>1, EntryFacts
    <2> QED BY <1>4, <2>2
  <1>7. /\ rpc' = "idle" /\ eof' \in BOOLEAN /\ reread' = (probe /\ ~eof')
        /\ seen' = IF ~probe /\ ~eof' THEN seen \cup {Taken} ELSE seen
    BY <1>1 DEF Return
  <1>8. TypeOK'
    <2>1. TypeOK
      BY DEF Inv
    <2>2. reread' \in BOOLEAN
      BY <1>7, <2>1 DEF TypeOK
    <2>3. seen' \subseteq Nat
      BY <1>5, <1>7, <2>1 DEF TypeOK
    <2> QED BY <1>1, <1>4, <1>7, <2>1, <2>2, <2>3 DEF TypeOK, writer
  <1>9. Counted'
    BY <1>4, <1>7 DEF Counted
  <1>10. ReaderShape'
    <2>1. ~eof /\ ~reread /\ ~interval_break
      BY <1>1 DEF Inv, ReaderShape
    <2>2. ASSUME NEW b \in breaks, b \notin seen' PROVE Pending(b)'
      <3>1. b \notin seen
        BY <1>7, <2>2
      <3>2. PICK i \in 1..Len(queue) : queue[i].rows = <<>> /\ queue[i].at = b
        BY <2>1, <3>1 DEF Inv, ReaderShape, Pending
      <3>3. CASE i = 1
        <4>1. b = Taken'
          BY <1>4, <1>5, <3>2, <3>3
        <4>2. eof' \/ (reread' /\ interval_break')
          BY <1>1, <1>5, <1>7, <2>2, <4>1
        <4> QED BY <4>1, <4>2 DEF Pending
      <3>4. CASE i # 1
        <4>1. i - 1 \in 1..Len(queue') /\ i - 1 + 1 = i
          BY <1>4, <3>4
        <4>2. queue'[i - 1] = queue[i]
          BY <1>4, <4>1
        <4> QED BY <3>2, <4>1, <4>2 DEF Pending
      <3> QED BY <3>3, <3>4
    <2> QED BY <1>1, <1>5, <1>6, <1>7, <2>2 DEF ReaderShape
  <1> QED BY <1>4, <1>5, <1>6, <1>8, <1>9, <1>10 DEF Inv

-----------------------------------------------------------------------------
(* Every step *)

LEMMA NextInv == Inv /\ [Next]_vars => Inv'
  <1> SUFFICES ASSUME Inv, [Next]_vars PROVE Inv'
    OBVIOUS
  <1>1. ASSUME NEW n \in 1..MaxBlock, Write(n) PROVE Inv'
    BY <1>1, WriteInv
  <1>2. CASE EnableCache BY <1>2, EnableCacheInv
  <1>3. CASE PutRows BY <1>3, PutRowsInv
  <1>4. CASE CacheFlushed BY <1>4, CacheFlushedInv
  <1>5. CASE FlushCache BY <1>5, FlushCacheInv
  <1>6. CASE CloseInterval BY <1>6, CloseIntervalInv
  <1>7. CASE PutBreak BY <1>7, PutBreakInv
  <1>8. CASE CloseIntervalNowait BY <1>8, CloseIntervalNowaitInv
  <1>9. CASE Close BY <1>9, CloseInv
  <1>10. ASSUME NEW p \in BOOLEAN, Read(p) PROVE Inv'
    BY <1>10, ReadInv
  <1>11. CASE Reread BY <1>11, RereadInv
  <1>12. CASE ReadWake BY <1>12, ReadWakeInv
  <1>13. CASE TakeBlock BY <1>13, TakeBlockInv
  <1>14. CASE TakeBreak BY <1>14, TakeBreakInv
  <1>15. CASE DrainDone BY <1>15, DrainDoneInv
  <1>16. ASSUME NEW n \in 1..MaxRows, Consume(n) PROVE Inv'
    BY <1>16, ConsumeInv
  <1>17. CASE ReaderClose BY <1>17, ReaderCloseInv
  <1>18. CASE Fail BY <1>18, FailInv
  <1>19. CASE UNCHANGED vars BY <1>19, StutterInv
  <1> QED
    BY <1>1, <1>2, <1>3, <1>4, <1>5, <1>6, <1>7, <1>8, <1>9, <1>10, <1>11,
       <1>12, <1>13, <1>14, <1>15, <1>16, <1>17, <1>18, <1>19
    DEF Next, WriterNext, ReaderNext

\* The strengthening behind the theorems below: every step of the writer and
\* of the reader of local_pipe.py keeps Inv.
THEOREM InvHolds == Spec => []Inv
  BY InitInv, NextInv, PTL DEF Spec

\* Types; in particular _queued_rows, which _read uses to size its array,
\* never goes negative.
THEOREM TypeCorrect == Spec => []TypeOK
  <1>1. Inv => TypeOK BY DEF Inv
  <1> QED BY <1>1, InvHolds, PTL

\* No row is lost, repeated or reordered between write and consume, for every
\* cache size, queue limit and interleaving of flushes, polls and reads.
THEOREM OrderKept == Spec => []RowsInOrder
  <1>1. Inv => RowsInOrder BY DEF Inv
  <1> QED BY <1>1, InvHolds, PTL

LEMMA InvBlockFits == Inv => BlockFits
  <1> SUFFICES ASSUME Inv, rpc = "drain", queue # <<>>
               PROVE  Len(read_buffer) + Len(FirstRows) <= alloc
    BY DEF BlockFits, FirstRows
  <1>1. 1 \in 1..Len(queue) /\ Head(queue) = queue[1]
    BY EmptySeq DEF Inv, TypeOK
  <1>2. Taken <= queue[1].at /\ queue[1].at + Len(FirstRows) <= enq
    BY <1>1, EntryFacts DEF FirstRows
  <1>3. queue[1].at \in Nat /\ Len(FirstRows) \in Nat
    BY <1>1, EntryFacts DEF FirstRows
  <1>4. /\ alloc = queued_rows + Len(read_buffer) /\ queued_rows + Taken = enq
        /\ queued_rows \in Nat /\ Len(read_buffer) \in Nat /\ Taken \in Nat
    BY InvReaderOK DEF Inv, Counted, TypeOK
  <1> QED BY <1>2, <1>3, <1>4

\* The array _read allocates from _queued_rows has room for every block it
\* takes off the queue ("relies on the total size of data written").
THEOREM BlocksFit == Spec => []BlockFits
  BY InvHolds, InvBlockFits, PTL

LEMMA InvBreaksFlagged == Inv => BreaksFlagged
  <1> SUFFICES ASSUME Inv, NEW b \in breaks, b < Taken PROVE b \in seen
    BY DEF BreaksFlagged
  <1>1. Taken \in Nat /\ b \in Nat
    BY InvReaderOK DEF Inv, TypeOK
  <1>2. \A i \in 1..Len(queue) : Taken <= queue[i].at
    BY DEF Inv, QueueShape
  <1>3. ~Pending(b)
    BY <1>1, <1>2 DEF Pending
  <1> QED BY <1>3 DEF Inv, ReaderShape

\* The reader was told of every break that lies before a row it was given,
\* also when is_empty found the break first.
THEOREM BreaksAreFlagged == Spec => []BreaksFlagged
  BY InvHolds, InvBreaksFlagged, PTL

-----------------------------------------------------------------------------
(* LocalPipe implements IntervalChannel *)

abstract == <<enq, breaks, consumed, seen, closed, eof>>

LEMMA PutRowsSends == Inv /\ PutRows => Channel!Send
  <1> SUFFICES ASSUME Inv, PutRows PROVE Channel!Send
    OBVIOUS
  <1>1. ~closed /\ enq \in Nat /\ wpc = "put"
    BY DEF Inv, WriterShape, TypeOK, PutRows
  <1>2. PICK r \in Seq(Row) : r # <<>> /\ enq' = enq + Len(r)
    BY <1>1 DEF Inv, TypeOK, WriterShape, PutRows, Enqueue
  <1>3. enq' \in Nat /\ enq' > enq
    BY <1>1, <1>2, NoRows
  <1> QED BY <1>1, <1>3 DEF Channel!Send, PutRows, reader

LEMMA PutBreakBreaks == Inv /\ (PutBreak \/ CloseIntervalNowait) => Channel!Break
  <1> SUFFICES ASSUME Inv, PutBreak \/ CloseIntervalNowait PROVE Channel!Break
    OBVIOUS
  <1>1. nrow = enq
    BY PutBreakInv, CloseIntervalNowaitInv
  <1> QED BY <1>1 DEF Channel!Break, PutBreak, CloseIntervalNowait, PutNone, reader

LEMMA RereadAnnounces == Inv /\ Reread => Channel!Announce \/ UNCHANGED abstract
  <1> SUFFICES ASSUME Inv, Reread PROVE Channel!Announce \/ UNCHANGED abstract
    OBVIOUS
  <1>1. CASE interval_break
    <2>1. Taken \in breaks /\ seen' = seen \cup {Taken}
      BY <1>1 DEF Inv, ReaderShape, Reread
    <2>2. consumed <= Taken
      BY DEF Inv, TypeOK, Taken
    <2> QED BY <2>1, <2>2 DEF Channel!Announce, Reread, link
  <1>2. CASE ~interval_break
    BY <1>2 DEF Reread, link, abstract
  <1> QED BY <1>1, <1>2

LEMMA TakeBreakAnnounces ==
  Inv /\ TakeBreak => Channel!Announce \/ Channel!End \/ UNCHANGED abstract
  <1> SUFFICES ASSUME Inv, TakeBreak
               PROVE  Channel!Announce \/ Channel!End \/ UNCHANGED abstract
    OBVIOUS
  <1>1. Taken \in breaks /\ ~eof
    BY TakeBreakInv DEF TakeBreak, Inv, ReaderShape
  <1>2. /\ UNCHANGED <<enq, breaks, consumed, closed>>
        /\ eof' = (closed /\ read_buffer = <<>>)
        /\ seen' = IF ~probe /\ ~eof' THEN seen \cup {Taken} ELSE seen
    BY DEF TakeBreak, Return
  <1>3. consumed \in Nat /\ Len(read_buffer) \in Nat /\ eof \in BOOLEAN
    BY DEF Inv, TypeOK
  <1>4. CASE closed /\ read_buffer = <<>>
    <2>1. consumed = Taken
      BY <1>3, <1>4 DEF Taken
    <2> QED BY <1>1, <1>2, <1>4, <2>1 DEF Channel!End
  <1>5. CASE ~(closed /\ read_buffer = <<>>) /\ ~probe
    <2>1. consumed <= Taken
      BY <1>3 DEF Taken
    <2>2. ~eof' /\ eof' = eof /\ seen' = seen \cup {Taken}
      BY <1>1, <1>2, <1>3, <1>5
    <2> QED BY <1>1, <1>2, <2>1, <2>2 DEF Channel!Announce
  <1>6. CASE ~(closed /\ read_buffer = <<>>) /\ probe
    BY <1>1, <1>2, <1>3, <1>6 DEF abstract
  <1> QED BY <1>4, <1>5, <1>6

LEMMA DrainDoneEnds == Inv /\ DrainDone => Channel!End \/ UNCHANGED abstract
  <1> SUFFICES ASSUME Inv, DrainDone PROVE Channel!End \/ UNCHANGED abstract
    OBVIOUS
  <1>1. /\ UNCHANGED <<enq, breaks, consumed, closed, seen>>
        /\ eof' = (closed /\ read_buffer = <<>>) /\ ~eof /\ queue = <<>>
    BY DEF DrainDone, Return, link, Inv, ReaderShape
  <1>2. CASE closed /\ read_buffer = <<>>
    <2>1. enq = Taken
      BY <1>1 DEF Inv, RowsInOrder, Before
    <2>2. consumed = Taken
      BY <1>2 DEF Taken, Inv, TypeOK
    <2> QED BY <1>1, <1>2, <2>1, <2>2 DEF Channel!End
  <1>3. CASE ~(closed /\ read_buffer = <<>>)
    <2>1. eof \in BOOLEAN
      BY DEF Inv, TypeOK
    <2> QED BY <1>1, <1>3, <2>1 DEF abstract
  <1> QED BY <1>2, <1>3

LEMMA ConsumeReceives ==
  ASSUME NEW n \in 1..MaxRows, Inv, Consume(n) PROVE Channel!Receive
  <1>1. /\ consumed \in Nat /\ Len(read_buffer) \in Nat /\ enq \in Nat
        /\ queued_rows \in Nat /\ queued_rows + Taken = enq
    BY DEF Inv, TypeOK, Counted
  <1>2. consumed' = consumed + n /\ n <= Len(read_buffer)
    BY DEF Consume
  <1>3. consumed' <= Taken /\ Taken <= enq /\ Taken \in Nat
    BY <1>1, <1>2 DEF Taken
  <1>4. consumed' \in Nat /\ consumed < consumed' /\ consumed' <= enq
    BY <1>1, <1>2, <1>3
  <1>5. \A b \in breaks : b < consumed' => b \in seen
    <2>1. \A b \in breaks : b \in Nat
      BY DEF Inv, TypeOK
    <2>2. \A b \in breaks : b < Taken => b \in seen
      BY InvBreaksFlagged DEF BreaksFlagged
    <2> QED BY <1>3, <1>4, <2>1, <2>2
  <1> QED BY <1>4, <1>5 DEF Channel!Receive, Consume, link

LEMMA NextChannel == Inv /\ [Next]_vars => [Channel!Next]_(Channel!vars)
  <1> SUFFICES ASSUME Inv, [Next]_vars
               PROVE  Channel!Next \/ UNCHANGED abstract
    BY DEF Channel!vars, abstract
  <1>1. ASSUME NEW n \in 1..MaxBlock, Write(n) PROVE UNCHANGED abstract
    BY <1>1 DEF Write, abstract, link, reader
  <1>2. CASE EnableCache \/ FlushCache \/ CloseInterval
    BY <1>2 DEF EnableCache, FlushCache, CloseInterval, abstract, link, reader
  <1>3. CASE PutRows
    BY <1>3, PutRowsSends DEF Channel!Next
  <1>4. CASE PutBreak \/ CloseIntervalNowait
    BY <1>4, PutBreakBreaks DEF Channel!Next
  <1>5. CASE CacheFlushed \/ Close \/ ReaderClose
    <2>1. /\ UNCHANGED <<enq, breaks, consumed, seen, eof>>
          /\ closed' = closed \/ closed' = TRUE
      <3>1. CASE CacheFlushed
        <4>1. closed \in BOOLEAN
          BY DEF Inv, TypeOK
        <4>2. closed' = (closed \/ (wrows = <<>> /\ wthen = "close"))
          BY <3>1 DEF CacheFlushed, AfterFlush
        <4>3. closed' = closed \/ closed' = TRUE
          BY <4>1, <4>2
        <4>4. UNCHANGED <<enq, breaks, consumed, seen, eof>>
          BY <3>1 DEF CacheFlushed, link, reader
        <4> QED BY <4>3, <4>4
      <3>2. CASE Close \/ ReaderClose
        BY <3>2 DEF Close, ReaderClose, link, reader
      <3> QED BY <1>5, <3>1, <3>2
    <2> QED BY <2>1 DEF Channel!Shut, Channel!Next, abstract
  <1>6. ASSUME NEW p \in BOOLEAN, Read(p) PROVE UNCHANGED abstract
    BY <1>6 DEF Read, abstract, link
  <1>7. CASE Reread
    BY <1>7, RereadAnnounces DEF Channel!Next
  <1>8. CASE ReadWake \/ TakeBlock \/ Fail
    BY <1>8 DEF ReadWake, TakeBlock, Fail, abstract, link
  <1>9. CASE TakeBreak
    BY <1>9, TakeBreakAnnounces DEF Channel!Next
  <1>10. CASE DrainDone
    BY <1>10, DrainDoneEnds DEF Channel!Next
  <1>11. ASSUME NEW n \in 1..MaxRows, Consume(n) PROVE Channel!Next
    BY <1>11, ConsumeReceives DEF Channel!Next
  <1>12. CASE UNCHANGED vars
    BY <1>12 DEF vars, abstract, link, reader
  <1> QED
    BY <1>1, <1>2, <1>3, <1>4, <1>5, <1>6, <1>7, <1>8, <1>9, <1>10, <1>11, <1>12
    DEF Next, WriterNext, ReaderNext

\* local_pipe.py implements the channel every pipe promises: rows are received
\* in the order they were written, none from beyond a break the consumer was
\* not told of, and the end only at a break or after the last row.
THEOREM ImplementsChannel == Spec => IsChannel
  <1>1. Init => Channel!Init
    BY DEF Init, Channel!Init
  <1> QED BY <1>1, InvHolds, NextChannel, PTL DEF Spec, IsChannel, Channel!Spec
=============================================================================
