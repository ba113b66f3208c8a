-------------------------------- MODULE Store --------------------------------
(***************************************************************************)
(* joule/models/data_store/timescale.py with psql_helpers.py and the       *)
(* Decimator: the tables of one stream under an inserter, remove,          *)
(* consolidate, decimate and reads, each of which awaits the database many *)
(* times while the others run.                                             *)
(*                                                                         *)
(* Token (0, the timestamp of an interval token) is None as well.          *)
(***************************************************************************)
EXTENDS StoreTables, IntervalTools

data == <<rows, boundaries>>
decimation == <<decim, dtable>>
ghosts == <<cuts, frayed, raced>>
vars == <<data, decimation, ins, rm, con, scan, ghosts, ops>>

None == 0
Times == 1..MaxTime
Limits == {None} \cup Times

NoInserter == [on |-> FALSE, last |-> None, buf |-> <<>>, made |-> FALSE]
Idle == [pc |-> "idle", s |-> None, e |-> None]
NoRead == [pc |-> "idle", kind |-> "read", level |-> 1, req |-> <<None, None>>,
           s |-> None, ends |-> <<>>, i |-> 1, blocks |-> <<>>, buf |-> <<>>,
           made |-> FALSE, dirty |-> FALSE]

Init ==
    /\ rows = {} /\ boundaries = {} /\ decim = {} /\ dtable = FALSE
    /\ ins = NoInserter
    /\ rm = Idle /\ con = [pc |-> "idle", del |-> {}] /\ scan = NoRead
    /\ cuts = {} /\ frayed = {} /\ raced = FALSE /\ ops = <<0, 0, 0>>

Count(k, max) == ops[k] < max /\ ops' = [ops EXCEPT ![k] = @ + 1]

-----------------------------------------------------------------------------
(* Queries *)

\* ORDER BY time ASC
Sorted(T) ==
    [i \in 1..Cardinality(T) |-> CHOOSE t \in T : Cardinality({u \in T : u <= t}) = i]

\* query_time_bounds: [start, end), either side may be open.
InRange(T, s, e) == {t \in T : (s = None \/ t >= s) /\ (e = None \/ t < e)}

\* close_interval: a boundary right after the last row at or before ts, unless
\* one separates that row from ts already.
CloseAt(R, B, ts) ==
    LET before == {t \in R : t <= ts}
    IN IF before # {} /\ \A b \in B : b <= ts => Max(before) > b
       THEN B \cup {Max(before) + 1} ELSE B

\* limit_time_bounds: the request cut to the extent of the data.
LimitBounds(s, e) ==
    IF rows = {} THEN <<None, None>>
    ELSE <<Max({s, Min(rows)}), IF e = None THEN Max(rows) + 1 ELSE Min({e, Max(rows) + 1})>>

\* get_boundaries: the boundaries in the range, with its two ends.
GetBoundaries(s, e) ==
    LET lo == IF s = None THEN Min(rows) ELSE s
        hi == IF e = None THEN Max(rows) + 1 ELSE e
    IN <<lo>> \o Sorted(InRange(boundaries, lo, hi)) \o <<hi>>

\* intervals: between two boundaries, from the first row to the row before the
\* second; a marker with no rows behind it makes none.
Intervals(s, e) ==
    LET b == GetBoundaries(s, e)
        rowsIn(i) == {r \in rows : b[i] <= r /\ r < b[i + 1]}
        upTo(i) == {r \in rows : r < b[i + 1]}
    IN IF rows = {} THEN <<>>
       ELSE FlattenSeq([i \in 1..(Len(b) - 1) |->
                IF rowsIn(i) = {} THEN <<>>
                ELSE <<[lo |-> Min(rowsIn(i)), hi |-> Max(upTo(i)) + 1]>>])

\* Row count and max-rows give the decimation level of a read: the first power
\* of Factor that brings the rows under the limit.
Level(count, limit) ==
    IF limit = 0 \/ count <= limit THEN 1
    ELSE CHOOSE f \in {Factor ^ n : n \in 1..count} :
            f * limit >= count /\ (f \div Factor) * limit < count

-----------------------------------------------------------------------------
(* The Decimator *)

\* The integer timestamp of a decimated row.
Mean(g) == SumSet(g) \div Cardinality(g)

\* Mutant: the rows left over are dropped.
DecimateNoLeftovers(buf, new) ==
    LET all == buf \o new
        n == Len(all) \div Factor
    IN [groups |-> {{all[i] : i \in ((k - 1) * Factor + 1)..(k * Factor)} : k \in 1..n},
        rest |-> <<>>]

\* _process: whole groups of Factor rows, the rest is kept for later.
Decimate(buf, new) ==
    LET all == buf \o new
        n == Len(all) \div Factor
    IN [groups |-> {{all[i] : i \in ((k - 1) * Factor + 1)..(k * Factor)} : k \in 1..n},
        rest |-> SubSeq(all, n * Factor + 1, Len(all))]

\* process creates its table once and copies the groups; the copy fails when the
\* table was dropped since, or a group's timestamp is stored already.
CopyRaises(made, groups) ==
    \/ made /\ ~dtable /\ groups # {}
    \/ \E g \in groups, h \in decim : Mean(g) = Mean(h)

-----------------------------------------------------------------------------
(* The inserter (module Inserter has its steps and failures) *)

\* A change of the rows, boundaries or decimated rows under a read.
Touch == scan' = IF scan.pc = "idle" THEN scan ELSE [scan EXCEPT !.dirty = TRUE]

\* Consecutive rows a..b from the pipe of the inserter, or of one that takes over:
\* its first rows close whatever precedes them.  An error of the decimator is not
\* caught, it ends the inserter.
Insert(a, b, first) ==
    LET me == IF first THEN NoInserter ELSE ins
        d == Decimate(me.buf, Sorted(a..b))
        fails == CopyRaises(me.made, d.groups)
    IN /\ Count(1, MaxWrites)
       /\ first \/ ins.on
       /\ a > me.last /\ (a..b) \cap rows = {}
       /\ boundaries' = IF first THEN CloseAt(rows, boundaries, a - 1) ELSE boundaries
       /\ rows' = rows \cup a..b
       /\ decim' = IF fails THEN decim ELSE decim \cup d.groups
       /\ dtable' = (dtable \/ ~me.made)
       /\ ins' = IF fails THEN NoInserter
                 ELSE [on |-> TRUE, last |-> b, buf |-> d.rest, made |-> TRUE]
       /\ cuts' = cuts \ a..b
       /\ frayed' = ((frayed \cup IF first /\ ins.on THEN {ins.last} ELSE {}) \ a..b)
                    \cup (IF fails THEN {b} ELSE {})
       /\ raced' = (raced \/ con.pc # "idle" \/ rm.pc # "idle")
       /\ Touch /\ UNCHANGED <<rm, con>>

\* An interval break: boundary and decimator.
Break ==
    /\ ins.on
    /\ boundaries' = CloseAt(rows, boundaries, ins.last)
    /\ ins' = [ins EXCEPT !.buf = <<>>]
    /\ cuts' = cuts \cup {c \in {ins.last} : \E r \in rows : r <= c}
    /\ raced' = (raced \/ rm.pc # "idle" \/ con.pc # "idle")
    /\ Touch /\ UNCHANGED <<rows, decimation, rm, con, frayed, ops>>

-----------------------------------------------------------------------------
(* remove: a query per table, then the boundary *)

RemoveBegin(s, e) ==
    /\ rm.pc = "idle" /\ Count(2, MaxEdits)
    /\ rm' = [pc |-> "rows", s |-> s, e |-> e]
    /\ decim' = {g \in decim : Mean(g) \notin InRange(Times, s, e)}
    /\ Touch /\ UNCHANGED <<data, dtable, ins, con, ghosts>>

RemoveRows ==
    /\ rm.pc = "rows"
    /\ rm' = [rm EXCEPT !.pc = "bounds"]
    /\ rows' = rows \ InRange(rows, rm.s, rm.e)
    /\ cuts' = {c \in cuts \cup (rows \ rows') : \E r \in rows' : r <= c}
    /\ raced' = (raced \/ con.pc # "idle")
    /\ Touch /\ UNCHANGED <<boundaries, decimation, ins, con, frayed, ops>>

RemoveBounds ==
    /\ rm.pc = "bounds"
    /\ rm' = IF rm.s = None THEN Idle ELSE [rm EXCEPT !.pc = "mark"]
    /\ boundaries' = boundaries \ InRange(boundaries, rm.s, rm.e)
    /\ Touch /\ UNCHANGED <<rows, decimation, ins, con, ghosts, ops>>

\* Mutant: the boundary is forgotten.
RemoveUnmarked ==
    /\ rm.pc = "mark"
    /\ rm' = Idle
    /\ Touch /\ UNCHANGED <<data, decimation, ins, con, ghosts, ops>>

RemoveMark ==
    /\ rm.pc = "mark"
    /\ rm' = Idle
    /\ boundaries' = CloseAt(rows, boundaries, rm.s)
    /\ Touch /\ UNCHANGED <<rows, decimation, ins, con, ghosts, ops>>

-----------------------------------------------------------------------------
(* consolidate: the intervals, then the boundaries before the small gaps *)

ConsolidateBegin(s, e) ==
    LET list == Intervals(s, e)
        gaps == IntervalDifference(<<[lo |-> list[1].lo, hi |-> list[Len(list)].hi]>>, list)
        small == {gaps[i] : i \in {j \in 1..Len(gaps) : gaps[j].hi - gaps[j].lo <= Gap}}
    IN /\ con.pc = "idle" /\ Count(2, MaxEdits)
       /\ s # None \/ e = None \/ rows # {}
       /\ con' = IF list = <<>> \/ small = {} THEN con
                 ELSE [pc |-> "delete", del |-> {g.lo : g \in small}]
       /\ raced' = (raced \/ rm.pc # "idle")
       /\ UNCHANGED <<data, decimation, ins, rm, scan, cuts, frayed>>

ConsolidateDelete ==
    /\ con.pc = "delete"
    /\ con' = [pc |-> "idle", del |-> {}]
    /\ boundaries' = boundaries \ con.del
    /\ Touch /\ UNCHANGED <<rows, decimation, ins, rm, ghosts, ops>>

-----------------------------------------------------------------------------
(* extract, and decimate which extracts into a new decimation table *)

\* extract up to its time bounds and its level; without rows to decimate the
\* caller gets one empty block.
Extract(s, e, limit) ==
    LET b == LimitBounds(s, e)
        count == Cardinality(InRange(rows, b[1], b[2]))
    IN /\ scan.pc = "idle" /\ Count(3, MaxReads)
       /\ scan' = [NoRead EXCEPT !.pc = IF limit # 0 /\ count = 0 THEN "done" ELSE "list",
                              !.req = <<s, e>>, !.level = Level(count, limit),
                              !.s = b[1], !.ends = <<b[2]>>]
       /\ UNCHANGED <<data, decimation, ins, rm, con, ghosts>>

\* The old tables are dropped first; a stream without rows ends in an error.
DecimateBegin ==
    /\ scan.pc = "idle" /\ Count(3, MaxReads)
    /\ decim' = {} /\ dtable' = FALSE
    /\ scan' = IF rows = {} THEN scan
            ELSE [NoRead EXCEPT !.pc = "list", !.kind = "decimate", !.s = Min(rows),
                                !.ends = <<Max(rows) + 1>>]
    /\ UNCHANGED <<data, ins, rm, con, ghosts>>

\* Head of the loop over the boundaries: no query for an empty range.
NextInterval(y) ==
    LET left == {k \in y.i..Len(y.ends) : y.ends[k] # y.s}
    IN IF left = {} THEN [y EXCEPT !.pc = "done"]
       ELSE [y EXCEPT !.pc = "block", !.i = Min(left)]

\* The boundaries of the request; its end is the last of them.
ExtractBounds ==
    /\ scan.pc = "list"
    /\ scan' = NextInterval([scan EXCEPT !.ends = Sorted(InRange(boundaries, scan.s, @[1])) \o @])
    /\ UNCHANGED <<data, decimation, ins, rm, con, ghosts, ops>>

Table(level) == IF level = 1 THEN rows ELSE {Mean(g) : g \in decim}

\* SELECT ... LIMIT block_size, with a token after the last block of an interval.
Block ==
    LET found == Sorted(InRange(Table(scan.level), scan.s, scan.ends[scan.i]))
        got == SubSeq(found, 1, Min({BlockSize, Len(found)}))
    IN IF Len(got) < BlockSize /\ scan.i < Len(scan.ends) THEN Append(got, Token) ELSE got

\* Mutant: the next block begins at the last row again.
AfterBlockRepeats(y, blk) ==
    IF Len(blk) < BlockSize THEN NextInterval([y EXCEPT !.s = y.ends[y.i], !.i = @ + 1])
    ELSE [y EXCEPT !.s = Last(blk)]

\* A short block is the last of its interval, otherwise the loop goes on after
\* the last entry of the block.
AfterBlock(y, blk) ==
    IF Len(blk) < BlockSize THEN NextInterval([y EXCEPT !.s = y.ends[y.i], !.i = @ + 1])
    ELSE [y EXCEPT !.s = Last(blk) + 1]

\* A block goes to the reader's callback.
ReadBlock ==
    /\ scan.pc = "block" /\ scan.kind = "read" /\ Len(scan.blocks) < MaxBlocks
    /\ scan' = IF scan.level > 1 /\ ~dtable THEN [scan EXCEPT !.pc = "done"]
            ELSE AfterBlock([scan EXCEPT !.blocks = IF Block = <<>> THEN @ ELSE Append(@, Block)],
                            Block)
    /\ UNCHANGED <<data, decimation, ins, rm, con, ghosts, ops>>

\* redecimator: the rows of the block are decimated, a token closes the interval.
DecimateBlock ==
    LET closes == Block # <<>> /\ Last(Block) = Token
        new == IF closes THEN Front(Block) ELSE Block
        d == Decimate(scan.buf, new)
        fails == CopyRaises(scan.made, d.groups)
    IN /\ scan.pc = "block" /\ scan.kind = "decimate" /\ Len(scan.blocks) < MaxBlocks
       /\ decim' = IF fails THEN decim ELSE decim \cup d.groups
       /\ dtable' = (dtable \/ (new # <<>> /\ ~scan.made))
       /\ scan' = IF fails THEN [scan EXCEPT !.pc = "done", !.dirty = TRUE]
               ELSE AfterBlock([scan EXCEPT !.buf = IF closes THEN <<>> ELSE d.rest,
                                         !.made = @ \/ new # <<>>,
                                         !.blocks = IF Block = <<>> THEN @ ELSE Append(@, Block)],
                               Block)
       /\ UNCHANGED <<data, ins, rm, con, ghosts, ops>>

\* The request is answered.
ReadDone ==
    /\ scan.pc = "done"
    /\ scan' = NoRead
    /\ UNCHANGED <<data, decimation, ins, rm, con, ghosts, ops>>

DropDecimations ==
    /\ dtable /\ Count(2, MaxEdits)
    /\ decim' = {} /\ dtable' = FALSE
    /\ Touch /\ UNCHANGED <<data, ins, rm, con, ghosts>>

-----------------------------------------------------------------------------
ExtractStep == ExtractBounds \/ ReadBlock \/ DecimateBlock \/ ReadDone

Next ==
    \/ \E a \in Times, n \in Lengths, first \in BOOLEAN :
            a + n - 1 \in Times /\ Insert(a, a + n - 1, first)
    \/ Break
    \/ \E r \in Ranges : RemoveBegin(r[1], r[2]) \/ ConsolidateBegin(r[1], r[2])
    \/ RemoveRows \/ RemoveBounds \/ RemoveMark \/ ConsolidateDelete
    \/ \E r \in Ranges, limit \in RowLimits : Extract(r[1], r[2], limit)
    \/ DecimateBegin \/ DropDecimations \/ ExtractStep

Spec == Init /\ [][Next]_vars

-----------------------------------------------------------------------------
(* The answer to a JSON read: retrieve_data collects the blocks by interval *)

\* Mutant: a finished interval stays open.
RetrieveForgets(acc, blk) ==
    LET closes == blk # <<>> /\ Last(blk) = Token
        part == acc.segment \o (IF closes THEN Front(blk) ELSE blk)
    IN IF closes /\ part # <<>>
       THEN [done |-> Append(acc.done, part), segment |-> part]
       ELSE [acc EXCEPT !.segment = part]

\* A token ends the segment, if there is one; rows before it belong to it.
RetrieveData(acc, blk) ==
    LET closes == blk # <<>> /\ Last(blk) = Token
        part == acc.segment \o (IF closes THEN Front(blk) ELSE blk)
    IN IF closes /\ part # <<>>
       THEN [done |-> Append(acc.done, part), segment |-> <<>>]
       ELSE [acc EXCEPT !.segment = part]

Segments ==
    LET all == FoldLeft(RetrieveData, [done |-> <<>>, segment |-> <<>>], scan.blocks)
    IN IF all.segment = <<>> THEN all.done ELSE Append(all.done, all.segment)

-----------------------------------------------------------------------------
(* Properties *)

\* Types of the state.
TypeOK ==
    /\ rows \subseteq Times /\ boundaries \subseteq 2..(MaxTime + 1)
    /\ \A g \in decim : g \subseteq Times /\ Cardinality(g) = Factor
    /\ (decim # {} => dtable) /\ dtable \in BOOLEAN /\ raced \in BOOLEAN
    /\ ins.on \in BOOLEAN /\ ins.last \in Limits /\ Len(ins.buf) < Factor
    /\ rm.pc \in {"idle", "rows", "bounds", "mark"} /\ rm.s \in Limits /\ rm.e \in Limits
    /\ con.pc \in {"idle", "delete"} /\ con.del \subseteq 2..(MaxTime + 1)
    /\ scan.pc \in {"idle", "list", "block", "done"} /\ Len(scan.buf) < Factor
    /\ cuts \subseteq Times /\ frayed \subseteq Times /\ ops \in (0..MaxWrites) \X (0..MaxEdits) \X (0..MaxReads)

\* A read that nothing disturbs returns the stored rows of its range, each once
\* and in order, in one segment per interval.
ReadsExact ==
    LET R == InRange(Table(scan.level), LimitBounds(scan.req[1], scan.req[2])[1],
                     LimitBounds(scan.req[1], scan.req[2])[2])
    IN scan.pc = "done" /\ scan.kind = "read" /\ ~scan.dirty /\ ~Overfull
       => /\ FlattenSeq(Segments) = Sorted(R)
          /\ {ToSet(Segments[i]) : i \in 1..Len(Segments)} = {Together(R, t) : t \in R}

\* A recomputed decimation holds, for every interval, its rows in groups of
\* Factor from the first on, and nothing else.
DecimationExact ==
    LET groups(C) == Decimate(<<>>, Sorted(C)).groups
    IN scan.pc = "done" /\ scan.kind = "decimate" /\ ~scan.dirty /\ ~Overfull
       => decim = UNION {groups(Together(rows, t)) : t \in rows}

=============================================================================
