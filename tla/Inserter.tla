------------------------------- MODULE Inserter -------------------------------
(***************************************************************************)
(* joule/models/data_store/timescale_inserter.py (Inserter.run) and the     *)
(* loop of daemon._spawn_inserter that replaces a failed inserter: rows    *)
(* move from the inserter's LocalPipe into the stream's table, interval    *)
(* breaks into its boundary table, over a database that may fail at every  *)
(* await.                                                                  *)
(*                                                                         *)
(* The rows the worker writes are numbered 1, 2, ...; row r has timestamp  *)
(* Ts(r).  The pipe is what module LocalPipe says of it: read returns the  *)
(* rows up to the next break, together with what was not consumed.         *)
(***************************************************************************)
EXTENDS Naturals, FiniteSetsExt

CONSTANTS
    BadRows,       \* rows with a NaN in them
    KeepAll,       \* TRUE: keep_us is KEEP_ALL, nothing is ever cleaned up
    MergeGap,      \* merge_gap in microseconds (0 for the daemon's inserters)
    MaxRows,       \* bound: rows written to the stream
    MaxBreaks,     \* bound: interval breaks of the producer
    MaxFailures    \* bound: failures of the database

ASSUME InserterConstants ==
    /\ BadRows \subseteq Nat /\ KeepAll \in BOOLEAN /\ MergeGap \in Nat
    /\ MaxRows \in Nat /\ MaxBreaks \in Nat /\ MaxFailures \in Nat

VARIABLES
    sent,         \* rows written to the stream
    pbreaks,      \* rows after which the producer closed its interval
    taken,        \* breaks that have left the pipe
    got,          \* last row consumed from, or never put into, this pipe
    rd,           \* last row in the pipe's read buffer
    flag,         \* pipe.end_of_interval
    pc,           \* "init", "read", "measure", "acquire", "first", "check",
                  \* "copy", "decimate", "break", "cleanup", "retry",
                  \* "dataerror", "failed", "ended"
    measured,     \* the chunk interval has been set
    first_insert, last_ts,
    table,        \* timestamps of the stored rows
    bounds,       \* times of the stored interval boundaries
    cutoff,       \* the latest cutoff of cleanup
    dropped,      \* rows thrown away with the pipe of an inserter
    failures,     \* failures so far
    skipped       \* one of them was not in the copy of the rows

producer == <<sent, pbreaks>>
pipe == <<taken, got, rd, flag>>
inserter == <<pc, measured, first_insert, last_ts>>
database == <<table, bounds, cutoff, dropped>>
vars == <<producer, pipe, inserter, database, failures, skipped>>

Ts(r) == 2 * r

\* last_ts = None
None == 0

Init ==
    /\ sent = 0 /\ pbreaks = {}
    /\ taken = {} /\ got = 0 /\ rd = 0 /\ flag = FALSE
    /\ pc = "init" /\ measured = FALSE /\ first_insert = TRUE /\ last_ts = None
    /\ table = {} /\ bounds = {} /\ cutoff = 0 /\ dropped = {}
    /\ failures = 0 /\ skipped = FALSE

-----------------------------------------------------------------------------
(* The worker's side of the pipe *)

WriteRows ==
    /\ sent < MaxRows
    /\ sent' = sent + 1
    /\ UNCHANGED <<pbreaks, pipe, inserter, database, failures, skipped>>

CloseInterval ==
    /\ sent \notin pbreaks /\ Cardinality(pbreaks) < MaxBreaks
    /\ pbreaks' = pbreaks \cup {sent}
    /\ UNCHANGED <<sent, pipe, inserter, database, failures, skipped>>

-----------------------------------------------------------------------------
(* Inserter.run *)

data == (got + 1)..rd

\* create_stream_table, outside of any try.
CreateTable ==
    /\ pc = "init"
    /\ pc' = "read"
    /\ UNCHANGED <<producer, pipe, measured, first_insert, last_ts, database,
                   failures, skipped>>

\* pipe.read: it waits for something in the queue, then takes everything up to
\* the first break.
Read ==
    /\ pc = "read"
    /\ LET ahead == pbreaks \ taken
       IN \/ /\ ahead # {}
             /\ rd' = Min(ahead) /\ taken' = taken \cup {Min(ahead)} /\ flag' = TRUE
          \/ /\ ahead = {} /\ sent > rd
             /\ rd' = sent /\ flag' = FALSE /\ UNCHANGED taken
    /\ pc' = IF measured THEN "acquire" ELSE "measure"
    /\ UNCHANGED <<producer, got, measured, first_insert, last_ts, database,
                   failures, skipped>>

\* _measure_data_rate: with enough rows the chunk interval is set, once.
MeasureDataRate(m) ==
    /\ pc = "measure"
    /\ measured' = m
    /\ pc' = "acquire"
    /\ UNCHANGED <<producer, pipe, first_insert, last_ts, database, failures, skipped>>

\* pool.acquire.
Acquire ==
    /\ pc = "acquire"
    /\ pc' = IF data = {} THEN "break" ELSE IF first_insert THEN "first" ELSE "check"
    /\ first_insert' = IF data = {} THEN first_insert ELSE FALSE
    /\ UNCHANGED <<producer, pipe, measured, last_ts, database, failures, skipped>>

\* psql_helpers.close_interval: a boundary right after the last row at or before
\* ts, unless one separates that row from ts already.
CloseAt(ts) ==
    LET rows == {t \in table : t <= ts}
        seen == {b \in bounds : b <= ts}
    IN IF rows # {} /\ \A b \in seen : Max(rows) > b
       THEN bounds \cup {Max(rows) + 1} ELSE bounds

\* psql_helpers.remove_interval_breaks with the merge gap before ts.
Merged(bs, ts) ==
    IF MergeGap = 0 THEN bs ELSE {b \in bs : ~(ts - MergeGap <= b /\ b <= ts)}

\* The boundary before the first rows of this inserter.
FirstInsert ==
    /\ pc = "first"
    /\ bounds' = Merged(CloseAt(Ts(got + 1) - 1), Ts(got + 1))
    /\ pc' = "check"
    /\ UNCHANGED <<producer, pipe, measured, first_insert, last_ts, table, cutoff, dropped,
                   failures, skipped>>

\* Timestamps that go back, or values that are not numbers, are a DataError;
\* last_ts moves on before the rows are copied.
Check ==
    /\ pc = "check"
    /\ IF last_ts >= Ts(got + 1) \/ data \cap BadRows # {}
       THEN pc' = "dataerror" /\ UNCHANGED last_ts
       ELSE pc' = "copy" /\ last_ts' = Ts(rd)
    /\ UNCHANGED <<producer, pipe, measured, first_insert, database, failures, skipped>>

\* Mutant: the rows are consumed with a failed copy too.
CopyConsumesAnyway(stored) ==
    /\ pc = "copy" /\ failures < MaxFailures
    /\ failures' = failures + 1
    /\ table' = IF stored THEN table \cup {Ts(r) : r \in data} ELSE table
    /\ got' = rd
    /\ pc' = "retry"
    /\ UNCHANGED <<producer, taken, rd, flag, measured, first_insert, last_ts,
                   bounds, cutoff, dropped, skipped>>

\* copy_to_table loses its connection; the server may have stored the rows.
CopyFails(stored) ==
    /\ pc = "copy" /\ failures < MaxFailures
    /\ failures' = failures + 1
    /\ table' = IF stored THEN table \cup {Ts(r) : r \in data} ELSE table
    /\ pc' = "retry"
    /\ UNCHANGED <<producer, pipe, measured, first_insert, last_ts, bounds, cutoff,
                   dropped, skipped>>

\* copy_to_table; a stored timestamp is a UniqueViolationError, so a DataError.
Copy ==
    /\ pc = "copy"
    /\ IF \E r \in data : Ts(r) \in table
       THEN pc' = "dataerror" /\ UNCHANGED <<table, got>>
       ELSE /\ table' = table \cup {Ts(r) : r \in data}
            /\ got' = rd
            /\ pc' = "decimate"
    /\ UNCHANGED <<producer, taken, rd, flag, measured, first_insert, last_ts,
                   bounds, cutoff, dropped, failures, skipped>>

\* decimator.process (its tables are not modelled).
Decimate ==
    /\ pc = "decimate"
    /\ pc' = "break"
    /\ UNCHANGED <<producer, pipe, measured, first_insert, last_ts, database,
                   failures, skipped>>

\* Mutant: breaks are written only when they come without rows.
BreakOnlyWhenIdle ==
    /\ pc = "break"
    /\ bounds' = IF flag /\ last_ts # None /\ Ts(rd) # last_ts
                 THEN CloseAt(last_ts) ELSE bounds
    /\ pc' = "cleanup"
    /\ UNCHANGED <<producer, pipe, measured, first_insert, last_ts, table, cutoff, dropped,
                   failures, skipped>>

\* The boundary of an interval break.
Break ==
    /\ pc = "break"
    /\ bounds' = IF flag /\ last_ts # None THEN CloseAt(last_ts) ELSE bounds
    /\ pc' = "cleanup"
    /\ UNCHANGED <<producer, pipe, measured, first_insert, last_ts, table, cutoff, dropped,
                   failures, skipped>>

\* cleanup, when it is due: boundaries before the cutoff are deleted, and the
\* chunks that lie before it entirely (up to d) are dropped.
Cleanup(c, d) ==
    /\ pc = "cleanup"
    /\ IF KeepAll THEN c = cutoff ELSE c \in cutoff..Ts(got)
    /\ d <= c
    /\ cutoff' = c
    /\ bounds' = {b \in bounds : b >= c}
    /\ table' = {t \in table : t >= d}
    /\ pc' = "read"
    /\ UNCHANGED <<producer, pipe, measured, first_insert, last_ts, dropped,
                   failures, skipped>>

\* A lost connection anywhere else inside the inner try; a boundary that was
\* being written may be stored.
ConnectionError(stored) ==
    /\ pc \in {"acquire", "first", "decimate", "break", "cleanup"}
    /\ failures < MaxFailures
    /\ failures' = failures + 1 /\ skipped' = TRUE
    /\ bounds' = CASE stored /\ pc = "first" -> CloseAt(Ts(got + 1) - 1)
                   [] stored /\ pc = "break" /\ flag /\ last_ts # None -> CloseAt(last_ts)
                   [] OTHER -> bounds
    /\ pc' = "retry"
    /\ UNCHANGED <<producer, pipe, measured, first_insert, last_ts, table, cutoff,
                   dropped>>

\* "trying again in 2 seconds"
Retry ==
    /\ pc = "retry"
    /\ pc' = "read"
    /\ UNCHANGED <<producer, pipe, measured, first_insert, last_ts, database,
                   failures, skipped>>

\* An error no handler catches: any failure while the table is created or the
\* data rate measured, any other exception of the database elsewhere.
Uncaught ==
    /\ pc \in {"init", "measure", "acquire", "first", "copy", "decimate", "break",
               "cleanup"}
    /\ failures < MaxFailures
    /\ failures' = failures + 1
    /\ pc' = "failed"
    /\ UNCHANGED <<producer, pipe, measured, first_insert, last_ts, database, skipped>>

\* Mutant: the daemon does not replace the inserter.
RespawnNever ==
    /\ FALSE
    /\ UNCHANGED vars

\* daemon._spawn_inserter after a DataError: once the producer is restarted,
\* the pipe is unsubscribed with all it holds and a new inserter gets a new one.
Respawn ==
    /\ pc = "dataerror"
    /\ dropped' = dropped \cup (got + 1)..sent
    /\ got' = sent /\ rd' = sent /\ taken' = pbreaks /\ flag' = FALSE
    /\ pc' = "init" /\ measured' = FALSE /\ first_insert' = TRUE /\ last_ts' = None
    /\ UNCHANGED <<producer, table, bounds, cutoff, failures, skipped>>

\* jouled stops: the tasks are cancelled wherever they wait.
Cancel ==
    /\ pc \notin {"ended", "failed"}
    /\ pc' = "ended"
    /\ UNCHANGED <<producer, pipe, measured, first_insert, last_ts, database,
                   failures, skipped>>

-----------------------------------------------------------------------------
InserterStep ==
    \/ CreateTable \/ Read \/ (\E m \in BOOLEAN : MeasureDataRate(m))
    \/ Acquire \/ FirstInsert \/ Check \/ Copy \/ Decimate \/ Break
    \/ (\E c, d \in 0..Ts(MaxRows) : Cleanup(c, d)) \/ Retry \/ Respawn

Next ==
    \/ WriteRows \/ CloseInterval \/ InserterStep
    \/ \E stored \in BOOLEAN : CopyFails(stored) \/ ConnectionError(stored)
    \/ Uncaught \/ Cancel

Spec == Init /\ [][Next]_vars

\* The event loop runs the inserter; the database fails a bounded number of
\* times.
FairSpec == Spec /\ WF_vars(InserterStep)

-----------------------------------------------------------------------------
(* Properties *)

\* Types of the state.
TypeOK ==
    /\ sent \in Nat /\ got \in Nat /\ rd \in Nat /\ got <= rd /\ rd <= sent
    /\ taken \subseteq pbreaks /\ pbreaks \subseteq 0..sent
    /\ flag \in BOOLEAN /\ measured \in BOOLEAN /\ first_insert \in BOOLEAN
    /\ skipped \in BOOLEAN /\ failures \in Nat /\ last_ts \in Nat
    /\ table \subseteq {Ts(r) : r \in 1..sent}
    /\ bounds \subseteq {Ts(r) + 1 : r \in 1..sent} /\ cutoff \in Nat
    /\ pc \in {"init", "read", "measure", "acquire", "first", "check", "copy",
               "decimate", "break", "cleanup", "retry", "dataerror", "failed",
               "ended"}

\* A row leaves the pipe only when it is in the table: what is neither stored
\* nor waiting in the pipe was thrown away with a rejected block, or is past
\* its retention, whatever fails and is tried again.
NoRowLost ==
    \A r \in 1..got : Ts(r) \in table \/ r \in dropped \/ Ts(r) < cutoff

\* Two rows next to each other in the table are separated by a boundary when
\* the producer closed its interval between them or rows between them were
\* dropped.
Separated(t, u) == \E b \in bounds : t < b /\ b < u

GapsMarked ==
    \A t, u \in table :
        /\ cutoff <= t /\ t < u /\ \A v \in table : ~(t < v /\ v < u)
        /\ \/ \E b \in pbreaks : t <= Ts(b) /\ Ts(b) < u
           \/ \E r \in dropped : t < Ts(r) /\ Ts(r) < u
        => Separated(t, u)

\* Rejected rows and rows lost with a failed copy never make two intervals look
\* like one: the inserter that takes over marks the gap.
CopyFailuresMarked == ~skipped => GapsMarked

\* Every row written to the stream is dealt with: it is stored, dropped or past
\* its retention, unless the inserter ended or has nothing new to read.
RowsSettle ==
    \A r \in 1..MaxRows :
        (sent >= r) ~> \/ Ts(r) \in table \/ r \in dropped \/ Ts(r) < cutoff
                       \/ pc \in {"failed", "ended"}
                       \/ pc = "read" /\ rd = sent
=============================================================================
