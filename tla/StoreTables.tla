----------------------------- MODULE StoreTables ------------------------------
(***************************************************************************)
(* The tables of one stream in the data store, the operations in progress  *)
(* on them (Store says what these do), and what is promised of the order   *)
(* of a read and of the boundaries between the rows.                       *)
(*                                                                         *)
(* A row is its timestamp, a decimated row the set of the rows it averages.*)
(* The boundary table may hold a time twice; every query treats the copies *)
(* alike, so a set stands for it.  Timestamps begin at 1: 0 is the         *)
(* timestamp of an interval token.                                         *)
(***************************************************************************)
EXTENDS Integers, Sequences, SequencesExt, FiniteSetsExt

CONSTANTS
    BlockSize,     \* extract_block_size
    Factor,        \* factor of the decimator
    Gap,           \* max_gap of consolidate
    RowLimits,     \* max-rows of a read, 0 when it is not given
    Lengths,       \* rows in a block the inserter takes from its pipe
    Ranges,        \* <<start, end>> of the requests, 0 when one is not given
    MaxTime,       \* bound: the last timestamp
    MaxWrites,     \* bound: blocks the inserter takes from its pipe
    MaxEdits,      \* bound: removes, consolidations, dropped decimations
    MaxReads,      \* bound: reads and decimations
    MaxBlocks      \* bound: blocks of one extraction

ASSUME StoreConstants ==
    /\ BlockSize \in Nat \ {0} /\ Factor \in Nat \ {0, 1} /\ Gap \in Nat \ {0}
    /\ RowLimits \subseteq Nat /\ Lengths \subseteq Nat \ {0} /\ MaxTime \in Nat
    /\ Ranges \subseteq (0..MaxTime) \X (0..MaxTime)
    /\ MaxWrites \in Nat /\ MaxEdits \in Nat /\ MaxReads \in Nat /\ MaxBlocks \in Nat

VARIABLES
    rows,          \* data.stream<id>
    boundaries,    \* data.stream<id>_intervals
    decim,         \* data.stream<id>_<Factor>
    dtable,        \* that table exists
    ins,           \* the inserter: running, last_ts, its decimator's buffer and path_created
    rm,            \* the remove in progress
    con,           \* the consolidate in progress: boundaries to delete
    scan,          \* the extraction in progress, or the last one
    cuts,          \* removed rows, and rows after which the producer closed its interval
    frayed,        \* last rows of the inserters that went away without a break
    raced,         \* a consolidate or remove met a change between two of its queries
    ops            \* writes, edits and reads so far

Token == 0

\* The rows of R that no boundary separates from t.
Together(R, t) ==
    {u \in R : ~ \E b \in boundaries : Min({t, u}) < b /\ b <= Max({t, u})}

\* Rows the producer separated, or between which rows were removed, never look
\* like one interval, unless a consolidation found the gap small, two operations
\* overlapped, or an inserter left its rows without a break.
GapsStayMarked ==
    rm.pc = "idle" /\ ~raced =>
        \A t, u \in rows :
            /\ t < u /\ \A v \in rows : ~(t < v /\ v < u)
            /\ u - (t + 1) > Gap
            /\ \E c \in cuts : t <= c /\ c < u
            /\ t \notin frayed /\ t # ins.last /\ t \notin boundaries
            => u \notin Together(rows, t)

\* A token filled the last block of an interval up to the block size.
Overfull == \E i \in 1..Len(scan.blocks) :
                Len(scan.blocks[i]) = BlockSize /\ Last(scan.blocks[i]) = Token

\* Whatever is inserted, removed or consolidated between two blocks, no row
\* reaches a reader twice or out of order (_extract_data goes on after the last
\* row of a block).
ReadsInOrder ==
    ~Overfull =>
        \A i, j \in 1..Len(scan.blocks) :
            \A k \in 1..Len(scan.blocks[i]), l \in 1..Len(scan.blocks[j]) :
                LET t == scan.blocks[i][k]
                    u == scan.blocks[j][l]
                IN (i < j \/ (i = j /\ k < l)) /\ t # Token /\ u # Token => t < u

=============================================================================
