---------------------------- MODULE TimescaleProof ----------------------------
(***************************************************************************)
(* Proofs about the two parts of the timescale store, for every value of   *)
(* their constants.  Inserter: no row is lost, and the gaps left by        *)
(* rejected rows and failed copies are marked.  Store (the instance S): a  *)
(* read gives its rows in order and once, whatever happens between two of  *)
(* its blocks.                                                             *)
(***************************************************************************)
EXTENDS Inserter, StoreTables, FiniteSetTheorems, SequenceTheorems, WellFoundedInduction, TLAPS

USE InserterConstants DEF Ts, None

-----------------------------------------------------------------------------
(* Least and greatest elements, and close_interval *)

LEMMA LeastNat ==
  ASSUME NEW T \in SUBSET Nat, T # {}
  PROVE  \E n \in T : \A m \in T : n <= m
  <1> DEFINE R == {p \in Nat \X Nat : p[1] < p[2]}
  <1>1. IsWellFoundedOn(R, Nat)
    BY NatLessThanWellFounded DEF OpToRel
  <1>2. PICK n \in T : \A m \in T : <<m, n>> \notin R
    <2> HIDE DEF R
    <2> QED BY <1>1, WFMin
  <1>3. \A m \in T : ~(m < n)
    BY <1>2
  <1> QED BY <1>3

LEMMA MinIn ==
  ASSUME NEW T \in SUBSET Nat, T # {}
  PROVE  Min(T) \in T /\ \A m \in T : Min(T) <= m
  BY LeastNat DEF Min

LEMMA MaxIn ==
  ASSUME NEW n \in Nat, NEW T \in SUBSET (0..n), T # {}
  PROVE  Max(T) \in T /\ \A m \in T : m <= Max(T)
  <1> DEFINE U == {n - x : x \in T}
  <1>1. U \in SUBSET Nat /\ U # {}
    <2>1. \A x \in T : n - x \in Nat
      OBVIOUS
    <2>2. \A u \in U : u \in Nat
      BY <2>1
    <2>3. PICK x \in T : TRUE
      OBVIOUS
    <2>4. n - x \in U
      OBVIOUS
    <2> QED BY <2>2, <2>4
  <1>2. PICK u \in U : \A v \in U : u <= v
    <2> HIDE DEF U
    <2> QED BY <1>1, LeastNat
  <1>3. PICK x \in T : u = n - x
    BY <1>2
  <1>4. \A y \in T : x >= y
    BY <1>2, <1>3
  <1>5. Max(T) \in T /\ \A y \in T : Max(T) >= y
    BY <1>4 DEF Max
  <1> QED BY <1>5

\* close_interval at the end of row g, or at the instant before the next one:
\* afterwards a boundary follows the last row up to there.
LEMMA CloseAtMarks ==
  ASSUME TypeOK, NEW g \in Nat, NEW ts \in {2 * g, 2 * g + 1}
  PROVE  /\ bounds \subseteq CloseAt(ts)
         /\ CloseAt(ts) \subseteq {2 * r + 1 : r \in 1..sent}
         /\ \A t \in table : t <= 2 * g =>
               \/ \E v \in table : t < v /\ v <= 2 * g
               \/ \E b \in CloseAt(ts) : t < b /\ b <= 2 * g + 1
  <1> DEFINE before == {t \in table : t <= ts}
             seen == {b \in bounds : b <= ts}
  <1>1. /\ \A t \in table : \E r \in 1..sent : t = 2 * r
        /\ \A b \in bounds : \E r \in 1..sent : b = 2 * r + 1
        /\ sent \in Nat /\ bounds \subseteq {2 * r + 1 : r \in 1..sent}
    BY DEF TypeOK
  <1>2. CASE before = {}
    <2>1. CloseAt(ts) = bounds
      BY <1>2 DEF CloseAt
    <2>2. \A t \in table : ~(t <= 2 * g)
      BY <1>1, <1>2
    <2> QED BY <1>1, <2>1, <2>2
  <1>3. CASE before # {}
    <2> DEFINE m == Max(before)
    <2>1. ts \in Nat /\ before \in SUBSET (0..ts)
      BY <1>1
    <2>2. m \in before /\ \A t \in before : t <= m
      <3> HIDE DEF before
      <3> QED BY <1>3, <2>1, MaxIn
    <2>3. PICK k \in 1..sent : m = 2 * k /\ k <= g
      BY <1>1, <2>2
    <2>4. CloseAt(ts) = IF \A b \in seen : m > b THEN bounds \cup {m + 1} ELSE bounds
      BY <1>3 DEF CloseAt
    <2> HIDE DEF m
    <2>5. PICK b \in CloseAt(ts) : m < b /\ b <= 2 * g + 1
      <3>1. CASE \A b \in seen : m > b
        BY <2>3, <2>4, <3>1
      <3>2. CASE ~ \A b \in seen : m > b
        <4>1. PICK b \in seen : ~(m > b)
          BY <3>2
        <4>2. b \in CloseAt(ts)
          BY <2>4, <3>2, <4>1
        <4>3. PICK r \in 1..sent : b = 2 * r + 1
          BY <1>1, <4>1
        <4>4. m < b /\ b <= 2 * g + 1
          BY <2>3, <4>1, <4>3
        <4> QED BY <4>2, <4>4
      <3> QED BY <3>1, <3>2
    <2>6. \A t \in table : t <= 2 * g =>
               \/ \E v \in table : t < v /\ v <= 2 * g
               \/ \E c \in CloseAt(ts) : t < c /\ c <= 2 * g + 1
      <3> SUFFICES ASSUME NEW t \in table, t <= 2 * g
                   PROVE  \E c \in CloseAt(ts) : t < c /\ c <= 2 * g + 1
        OBVIOUS
      <3>1. t \in before
        BY <1>1
      <3>2. t <= m /\ t \in Nat /\ m \in Nat /\ b \in Nat
        <4>1. b \in bounds \/ b = m + 1
          BY <2>4
        <4> QED BY <1>1, <2>2, <2>3, <3>1, <4>1
      <3> QED BY <2>5, <3>2
    <2>7. CloseAt(ts) \subseteq {2 * r + 1 : r \in 1..sent}
      BY <1>1, <2>3, <2>4
    <2> QED BY <2>4, <2>6, <2>7
  <1> QED BY <1>2, <1>3

-----------------------------------------------------------------------------
(* No row is lost *)

\* The pipe gives its breaks in order; what was thrown away was in it, and the
\* cutoff never passes the rows that left it.  last_ts is the time of a row, and
\* rows are stored only when there are some.
PipeShape ==
    /\ \A b \in pbreaks \ taken : rd <= b
    /\ \A b \in taken : b <= rd
    /\ dropped \subseteq 1..got
    /\ cutoff <= Ts(got)
    /\ \E r \in Nat : last_ts = Ts(r)
    /\ pc \in {"first", "check", "copy"} => got < rd

Inv == TypeOK /\ PipeShape /\ NoRowLost

LEMMA Numbers ==
  ASSUME TypeOK
  PROVE  /\ sent \in Nat /\ got \in Nat /\ rd \in Nat /\ got <= rd /\ rd <= sent
         /\ cutoff \in Nat /\ last_ts \in Nat
  BY DEF TypeOK

LEMMA InitInv == Init => Inv
  <1> SUFFICES ASSUME Init PROVE Inv
    OBVIOUS
  <1>1. TypeOK
    <2>1. /\ sent \in Nat /\ got \in Nat /\ rd \in Nat /\ got <= rd /\ rd <= sent
          /\ cutoff \in Nat /\ last_ts \in Nat /\ failures \in Nat
      BY DEF Init
    <2> QED BY <2>1 DEF Init, TypeOK
  <1>2. PipeShape
    <2>1. last_ts = 2 * 0
      BY DEF Init
    <2> QED BY <2>1 DEF Init, PipeShape
  <1>3. NoRowLost
    BY DEF Init, NoRowLost
  <1> QED BY <1>1, <1>2, <1>3 DEF Inv

LEMMA StutterInv == Inv /\ UNCHANGED vars => Inv'
  BY DEF vars, producer, pipe, inserter, database, Inv, TypeOK, PipeShape, NoRowLost

LEMMA WriterInv == ASSUME Inv, WriteRows \/ CloseInterval PROVE Inv'
  <1> USE DEF Inv, pipe, inserter, database
  <1>1. CASE WriteRows
    <2>1. /\ sent \in Nat /\ sent' = sent + 1
          /\ table' = table /\ bounds' = bounds /\ pbreaks' = pbreaks
      BY <1>1 DEF WriteRows, TypeOK
    <2>2. 1..sent \subseteq 1..sent' /\ 0..sent \subseteq 0..sent'
      BY <2>1
    <2>3. /\ table' \subseteq {Ts(r) : r \in 1..sent'}
          /\ bounds' \subseteq {Ts(r) + 1 : r \in 1..sent'}
          /\ pbreaks' \subseteq 0..sent'
      BY <2>1, <2>2 DEF TypeOK
    <2>4. TypeOK'
      BY <1>1, <2>1, <2>3 DEF WriteRows, TypeOK
    <2> QED BY <1>1, <2>4 DEF WriteRows, PipeShape, NoRowLost
  <1>2. CASE CloseInterval
    <2>1. TypeOK'
      BY <1>2 DEF CloseInterval, TypeOK
    <2>2. PipeShape'
      BY <1>2 DEF CloseInterval, TypeOK, PipeShape
    <2> QED BY <1>2, <2>1, <2>2 DEF CloseInterval, NoRowLost
  <1> QED BY <1>1, <1>2

\* pipe.read: the next break is where the buffer ends, or there is none.
LEMMA ReadFacts ==
  ASSUME Inv, Read
  PROVE  \/ /\ rd' \in pbreaks \ taken /\ taken' = taken \cup {rd'} /\ flag' = TRUE
            /\ rd <= rd' /\ rd' <= sent /\ \A b \in pbreaks \ taken : rd' <= b
         \/ /\ pbreaks = taken /\ rd < sent /\ rd' = sent /\ taken' = taken
            /\ flag' = FALSE
  <1> DEFINE ahead == pbreaks \ taken
  <1>1. ahead \in SUBSET Nat
    BY DEF Inv, TypeOK
  <1>2. CASE ahead # {}
    <2>1. rd' = Min(ahead) /\ taken' = taken \cup {Min(ahead)} /\ flag' = TRUE
      BY <1>2 DEF Read
    <2>2. Min(ahead) \in ahead /\ \A b \in ahead : Min(ahead) <= b
      <3> HIDE DEF ahead
      <3> QED BY <1>1, <1>2, MinIn
    <2>3. rd <= rd'
      BY <2>1, <2>2 DEF Inv, PipeShape
    <2>4. rd' <= sent
      <3>1. sent \in Nat /\ ahead \subseteq 0..sent
        BY DEF Inv, TypeOK
      <3> QED BY <2>1, <2>2, <3>1
    <2> QED BY <2>1, <2>2, <2>3, <2>4
  <1>3. CASE ahead = {}
    <2>1. pbreaks = taken
      BY <1>3 DEF Inv, TypeOK
    <2>2. sent > rd /\ rd' = sent /\ flag' = FALSE /\ taken' = taken
      BY <1>3 DEF Read
    <2>3. rd < sent
      BY <2>2 DEF Inv, TypeOK
    <2> QED BY <2>1, <2>2, <2>3
  <1> QED BY <1>2, <1>3

LEMMA ReadInv == ASSUME Inv, Read PROVE Inv'
  <1>1. /\ UNCHANGED <<sent, pbreaks, got, measured, first_insert, last_ts, table, bounds,
                       cutoff, dropped, failures, skipped>>
        /\ pc' \in {"acquire", "measure"}
    BY DEF Read, producer, database
  <1>2. NoRowLost'
    BY <1>1 DEF Inv, NoRowLost
  <1>3. CASE /\ rd' \in pbreaks \ taken /\ taken' = taken \cup {rd'} /\ flag' = TRUE
             /\ rd <= rd' /\ rd' <= sent /\ \A b \in pbreaks \ taken : rd' <= b
    <2>1. rd' \in Nat
      BY <1>3 DEF Inv, TypeOK
    <2>2. TypeOK'
      BY <1>1, <1>3, <2>1 DEF Inv, TypeOK
    <2>3. PipeShape'
      BY <1>1, <1>3, <2>1 DEF Inv, TypeOK, PipeShape
    <2> QED BY <1>2, <2>2, <2>3 DEF Inv
  <1>4. CASE /\ pbreaks = taken /\ rd < sent /\ rd' = sent /\ taken' = taken
             /\ flag' = FALSE
    <2>1. TypeOK'
      <3>1. rd' \in Nat /\ got' <= rd' /\ rd' <= sent'
        BY <1>1, <1>4, Numbers DEF Inv
      <3> QED BY <1>1, <1>4, <3>1 DEF Inv, TypeOK
    <2>2. PipeShape'
      BY <1>1, <1>4 DEF Inv, TypeOK, PipeShape
    <2> QED BY <1>2, <2>1, <2>2 DEF Inv
  <1> QED BY <1>3, <1>4, ReadFacts

\* A step that leaves the pipe and the rows alone; it may write boundaries.
LEMMA QuietInv ==
  ASSUME Inv, UNCHANGED <<sent, pbreaks, taken, got, rd, flag, table, cutoff, dropped>>,
         bounds' \subseteq {Ts(r) + 1 : r \in 1..sent}, failures' \in Nat, \E r \in Nat : last_ts' = Ts(r),
         measured' \in BOOLEAN, first_insert' \in BOOLEAN, skipped' \in BOOLEAN,
         pc' \in {"init", "read", "measure", "acquire", "first", "check", "copy", "decimate",
                 "break", "cleanup", "retry", "dataerror", "failed", "ended"},
         pc' \in {"first", "check", "copy"} => got < rd
  PROVE  Inv'
  <1>1. TypeOK'
    BY DEF Inv, TypeOK
  <1>2. PipeShape' /\ NoRowLost'
    BY DEF Inv, PipeShape, NoRowLost
  <1> QED BY <1>1, <1>2 DEF Inv

LEMMA DataEmpty == ASSUME TypeOK PROVE data = {} <=> got = rd
  <1>1. got \in Nat /\ rd \in Nat /\ got <= rd
    BY DEF TypeOK
  <1>2. CASE got = rd
    BY <1>1, <1>2 DEF data
  <1>3. CASE got # rd
    <2>1. rd \in (got + 1)..rd
      BY <1>1, <1>3
    <2> QED BY <1>3, <2>1 DEF data
  <1> QED BY <1>2, <1>3

LEMMA FirstInsertBounds ==
  ASSUME Inv, FirstInsert
  PROVE  bounds' \subseteq {Ts(r) + 1 : r \in 1..sent}
  <1>1. got \in Nat /\ Ts(got + 1) - 1 = 2 * got + 1
    BY DEF Inv, TypeOK
  <1>2. CloseAt(Ts(got + 1) - 1) \subseteq {Ts(r) + 1 : r \in 1..sent}
    BY <1>1, CloseAtMarks DEF Inv
  <1> QED BY <1>2 DEF FirstInsert, Merged

LEMMA BreakBounds ==
  ASSUME Inv
  PROVE  CloseAt(last_ts) \subseteq {Ts(r) + 1 : r \in 1..sent}
  <1>1. PICK r \in Nat : last_ts = 2 * r
    BY DEF Inv, PipeShape
  <1> QED BY <1>1, CloseAtMarks DEF Inv

\* Every step of run() that only moves on, checks, or writes boundaries.
LEMMA MoveOnInv ==
  ASSUME Inv,
         \/ CreateTable \/ (\E m \in BOOLEAN : MeasureDataRate(m)) \/ Acquire \/ FirstInsert
         \/ Check \/ Decimate \/ Break \/ Retry \/ Uncaught \/ Cancel
         \/ (\E stored \in BOOLEAN : ConnectionError(stored))
  PROVE  Inv'
  <1>1. UNCHANGED <<sent, pbreaks, taken, got, rd, flag, table, cutoff, dropped>>
    BY DEF CreateTable, MeasureDataRate, Acquire, FirstInsert, Check, Decimate, Break, Retry,
           Uncaught, Cancel, ConnectionError, producer, pipe, database
  <1>2. bounds' \subseteq {Ts(r) + 1 : r \in 1..sent}
    <2>1. bounds \subseteq {Ts(r) + 1 : r \in 1..sent}
      BY DEF Inv, TypeOK
    <2>2. CASE FirstInsert
      BY <2>2, FirstInsertBounds
    <2>3. CASE Break
      BY <2>1, <2>3, BreakBounds DEF Break
    <2>4. CASE \E stored \in BOOLEAN : ConnectionError(stored)
      <3>1. \/ bounds' = bounds \/ bounds' = CloseAt(last_ts)
            \/ bounds' = CloseAt(Ts(got + 1) - 1)
        BY <2>4 DEF ConnectionError
      <3>2. CloseAt(Ts(got + 1) - 1) \subseteq {Ts(r) + 1 : r \in 1..sent}
        <4>1. got \in Nat /\ Ts(got + 1) - 1 = 2 * got + 1
          BY Numbers DEF Inv
        <4> QED BY <4>1, CloseAtMarks DEF Inv
      <3> QED BY <2>1, <3>1, <3>2, BreakBounds
    <2>5. CASE ~FirstInsert /\ ~Break /\ ~ \E stored \in BOOLEAN : ConnectionError(stored)
      <3>1. bounds' = bounds
        BY <2>5 DEF CreateTable, MeasureDataRate, Acquire, Check, Decimate, Retry, Uncaught,
                    Cancel, database
      <3> QED BY <2>1, <3>1
    <2> QED BY <2>2, <2>3, <2>4, <2>5
  <1>3. failures' \in Nat
    <2>1. failures' \in {failures, failures + 1}
      BY DEF CreateTable, MeasureDataRate, Acquire, FirstInsert, Check, Decimate, Break,
             Retry, Uncaught, Cancel, ConnectionError
    <2>2. failures \in Nat
      BY DEF Inv, TypeOK
    <2> QED BY <2>1, <2>2
  <1>4. \E r \in Nat : last_ts' = Ts(r)
    <2>1. last_ts' = last_ts \/ last_ts' = Ts(rd)
      BY DEF CreateTable, MeasureDataRate, Acquire, FirstInsert, Check, Decimate, Break,
             Retry, Uncaught, Cancel, ConnectionError
    <2>2. rd \in Nat
      BY Numbers DEF Inv
    <2> QED BY <2>1, <2>2 DEF Inv, PipeShape
  <1>5. measured' \in BOOLEAN /\ first_insert' \in BOOLEAN /\ skipped' \in BOOLEAN
    BY DEF CreateTable, MeasureDataRate, Acquire, FirstInsert, Check, Decimate, Break, Retry,
           Uncaught, Cancel, ConnectionError, Inv, TypeOK
  <1>6. pc' \in {"init", "read", "measure", "acquire", "first", "check", "copy", "decimate",
                "break", "cleanup", "retry", "dataerror", "failed", "ended"}
    BY DEF CreateTable, MeasureDataRate, Acquire, FirstInsert, Check, Decimate, Break, Retry,
           Uncaught, Cancel, ConnectionError
  <1>7. pc' \in {"first", "check", "copy"} => got < rd
    <2>1. CASE Acquire
      <3>1. pc' \in {"first", "check", "copy"} => data # {}
        BY <2>1 DEF Acquire
      <3>2. data # {} => got < rd
        BY DataEmpty, Numbers DEF Inv
      <3> QED BY <3>1, <3>2
    <2>2. CASE FirstInsert \/ Check
      BY <2>2 DEF FirstInsert, Check, Inv, PipeShape
    <2>3. CASE ~Acquire /\ ~FirstInsert /\ ~Check
      BY <2>3 DEF CreateTable, MeasureDataRate, Decimate, Break, Retry, Uncaught, Cancel,
                  ConnectionError
    <2> QED BY <2>1, <2>2, <2>3
  <1> QED BY <1>1, <1>2, <1>3, <1>4, <1>5, <1>6, <1>7, QuietInv

\* The rows of the buffer, as times.
LEMMA StoredRows ==
  ASSUME Inv
  PROVE  {Ts(r) : r \in data} \subseteq {Ts(r) : r \in 1..sent}
  <1>1. data \subseteq 1..sent
    BY Numbers DEF Inv, data
  <1> QED BY <1>1

LEMMA CopyInv == ASSUME Inv, Copy \/ \E stored \in BOOLEAN : CopyFails(stored) PROVE Inv'
  <1>1. UNCHANGED <<sent, pbreaks, taken, rd, flag, measured, first_insert, last_ts, bounds,
                    cutoff, dropped, skipped>>
    BY DEF Copy, CopyFails, producer, pipe
  <1>2. failures' \in Nat
    <2>1. failures' \in {failures, failures + 1} /\ failures \in Nat
      BY DEF Copy, CopyFails, Inv, TypeOK
    <2> QED BY <2>1
  <1>3. pc' \in {"dataerror", "decimate", "retry"}
    BY DEF Copy, CopyFails
  <1>4. \/ table' = table /\ got' = got
        \/ table' = table \cup {Ts(r) : r \in data} /\ got' \in {got, rd}
    BY DEF Copy, CopyFails, pipe
  <1>5. table \subseteq table' /\ table' \subseteq {Ts(r) : r \in 1..sent}
    BY <1>4, StoredRows DEF Inv, TypeOK
  <1>6. got' \in Nat /\ got <= got' /\ got' <= rd
    BY <1>4, Numbers DEF Inv
  <1>7. TypeOK'
    BY <1>1, <1>2, <1>3, <1>5, <1>6 DEF Inv, TypeOK
  <1>8. PipeShape'
    <2>1. 1..got \subseteq 1..got' /\ 2 * got <= 2 * got'
      BY <1>6, Numbers DEF Inv
    <2>2. cutoff <= 2 * got'
      BY <1>6, <2>1, Numbers DEF Inv, PipeShape
    <2> QED BY <1>1, <1>3, <2>1, <2>2 DEF Inv, PipeShape
  <1>9. NoRowLost'
    <2> SUFFICES ASSUME NEW r \in 1..got'
                 PROVE  2 * r \in table' \/ r \in dropped \/ 2 * r < cutoff
      BY <1>1 DEF NoRowLost
    <2>1. CASE r \in 1..got
      BY <1>5, <2>1 DEF Inv, NoRowLost
    <2>2. CASE r \notin 1..got
      <3>1. got' = rd /\ got' # got
        BY <1>4, <2>2
      <3>2. r \in data
        BY <2>2, <3>1, Numbers DEF Inv, data
      <3> QED BY <1>4, <3>1, <3>2
    <2> QED BY <2>1, <2>2
  <1> QED BY <1>7, <1>8, <1>9 DEF Inv

LEMMA CleanupInv ==
  ASSUME Inv, NEW c \in 0..Ts(MaxRows), NEW d \in 0..Ts(MaxRows), Cleanup(c, d)
  PROVE  Inv'
  <1>1. /\ d <= c /\ cutoff' = c /\ bounds' = {b \in bounds : b >= c}
        /\ table' = {t \in table : t >= d} /\ pc' = "read"
        /\ UNCHANGED <<sent, pbreaks, taken, got, rd, flag, measured, first_insert, last_ts,
                       dropped, failures, skipped>>
    BY DEF Cleanup, producer, pipe
  <1>2. c \in Nat /\ d \in Nat /\ cutoff <= c /\ c <= 2 * got
    <2>1. c \in Nat /\ d \in Nat
      OBVIOUS
    <2>2. CASE KeepAll
      BY <2>1, <2>2, Numbers DEF Cleanup, Inv, PipeShape
    <2>3. CASE ~KeepAll
      BY <2>1, <2>3, Numbers DEF Cleanup, Inv
    <2> QED BY <2>1, <2>2, <2>3
  <1>3. TypeOK'
    BY <1>1, <1>2 DEF Inv, TypeOK
  <1>4. PipeShape'
    BY <1>1, <1>2 DEF Inv, PipeShape
  <1>5. NoRowLost'
    <2> SUFFICES ASSUME NEW r \in 1..got
                 PROVE  2 * r \in table' \/ r \in dropped \/ 2 * r < c
      BY <1>1 DEF NoRowLost
    <2>1. r \in Nat /\ 2 * r \in Nat
      BY Numbers DEF Inv
    <2>2. 2 * r \in table \/ r \in dropped \/ 2 * r < cutoff
      BY DEF Inv, NoRowLost
    <2> QED BY <1>1, <1>2, <2>1, <2>2, Numbers DEF Inv
  <1> QED BY <1>3, <1>4, <1>5 DEF Inv

LEMMA RespawnInv == ASSUME Inv, Respawn PROVE Inv'
  <1>1. /\ dropped' = dropped \cup (got + 1)..sent /\ got' = sent /\ rd' = sent
        /\ taken' = pbreaks /\ flag' = FALSE /\ pc' = "init" /\ measured' = FALSE
        /\ first_insert' = TRUE /\ last_ts' = 0
        /\ UNCHANGED <<sent, pbreaks, table, bounds, cutoff, failures, skipped>>
    BY DEF Respawn, producer
  <1>2. TypeOK'
    <2>1. got' \in Nat /\ rd' \in Nat /\ got' <= rd' /\ rd' <= sent' /\ last_ts' \in Nat
      BY <1>1, Numbers DEF Inv
    <2> QED BY <1>1, <2>1 DEF Inv, TypeOK
  <1>3. PipeShape'
    <2>1. dropped' \subseteq 1..got'
      <3>1. sent \in Nat /\ got \in Nat /\ got <= sent /\ dropped \subseteq 1..got
        BY Numbers DEF Inv, PipeShape
      <3>2. 1..got \subseteq 1..sent /\ (got + 1)..sent \subseteq 1..sent
        BY <3>1
      <3> QED BY <1>1, <3>1, <3>2
    <2>2. cutoff' <= 2 * got'
      BY <1>1, Numbers DEF Inv, PipeShape
    <2>3. last_ts' = 2 * 0
      BY <1>1
    <2>4. \A b \in taken' : b <= rd'
      BY <1>1, Numbers DEF Inv, TypeOK
    <2> QED BY <1>1, <2>1, <2>2, <2>3, <2>4 DEF PipeShape
  <1>4. NoRowLost'
    <2> SUFFICES ASSUME NEW r \in 1..sent
                 PROVE  2 * r \in table \/ r \in dropped' \/ 2 * r < cutoff
      BY <1>1 DEF NoRowLost
    <2>1. r \in 1..got \/ r \in (got + 1)..sent
      BY Numbers DEF Inv
    <2> QED BY <1>1, <2>1 DEF Inv, NoRowLost
  <1> QED BY <1>2, <1>3, <1>4 DEF Inv

LEMMA NextInv == Inv /\ Next => Inv'
  <1> SUFFICES ASSUME Inv, Next PROVE Inv'
    OBVIOUS
  <1>1. CASE WriteRows \/ CloseInterval
    BY <1>1, WriterInv
  <1>2. CASE Read
    BY <1>2, ReadInv
  <1>3. CASE \/ CreateTable \/ (\E m \in BOOLEAN : MeasureDataRate(m)) \/ Acquire
             \/ FirstInsert \/ Check \/ Decimate \/ Break \/ Retry \/ Uncaught \/ Cancel
             \/ (\E stored \in BOOLEAN : ConnectionError(stored))
    BY <1>3, MoveOnInv
  <1>4. CASE Copy \/ \E stored \in BOOLEAN : CopyFails(stored)
    BY <1>4, CopyInv
  <1>5. CASE \E c, d \in 0..Ts(MaxRows) : Cleanup(c, d)
    BY <1>5, CleanupInv
  <1>6. CASE Respawn
    BY <1>6, RespawnInv
  <1> QED BY <1>1, <1>2, <1>3, <1>4, <1>5, <1>6 DEF Next, InserterStep

\* The invariant of the first proofs holds in every state.
THEOREM InvHolds == Spec => []Inv
  BY InitInv, StutterInv, NextInv, PTL DEF Spec

\* The state is well typed: rows leave the pipe in order, and only rows that were
\* written and the boundaries after them are stored.
THEOREM TypeCorrect == Spec => []TypeOK
  <1>1. Inv => TypeOK
    BY DEF Inv
  <1> QED BY InvHolds, <1>1, PTL

\* A row that has left the pipe is stored, was thrown away with a rejected block
\* or is past its retention, whatever fails and is tried again.
THEOREM RowsKept == Spec => []NoRowLost
  <1>1. Inv => NoRowLost
    BY DEF Inv
  <1> QED BY InvHolds, <1>1, PTL

-----------------------------------------------------------------------------
(* Gaps are marked *)

\* A failed copy has moved last_ts past rows the pipe still holds: the inserter
\* will reject them, and may find that they were stored.
Late == pc # "copy" /\ last_ts >= Ts(got + 1)

\* Where run() is, what it has consumed and what last_ts says.
Steps ==
    /\ pc = "init" => first_insert
    /\ pc \in {"first", "check", "copy", "decimate", "retry", "dataerror"} => ~first_insert
    /\ pc = "retry" => Late
    /\ Late => /\ got < rd /\ ~first_insert
               /\ pc \in {"retry", "read", "measure", "acquire", "check", "dataerror",
                          "failed", "ended"}
    /\ pc = "copy" => last_ts = Ts(rd)
    /\ ~Late /\ pc # "copy" => last_ts \in {None, Ts(got)}
    /\ ~Late /\ ~first_insert
       /\ pc \in {"read", "measure", "acquire", "decimate", "break", "cleanup"}
       => last_ts = Ts(got)
    /\ ~Late /\ pc \in {"init", "read", "decimate", "break", "cleanup"} => got = rd

\* The block in the buffer holds no break but one at its end, and then the pipe
\* said so.
BlockWhole ==
    pc \in {"measure", "acquire", "first", "check", "copy"} =>
        /\ ~Late => \A b \in pbreaks : ~(got < b /\ b < rd)
        /\ ~flag => rd \notin taken

\* Only a failed copy stores rows that the pipe still holds, and it stores the
\* first of them.
Ahead ==
    /\ \A t \in table : t > Ts(got) => Late
    /\ \A r, s \in 1..sent : got < s /\ s < r /\ Ts(r) \in table => Ts(s) \in table

\* The break at the end of the buffer, before Break writes its boundary.
Unwritten(b) == b = rd /\ got = rd /\ flag /\ pc \in {"measure", "acquire", "decimate", "break"}

\* The last stored row of those that left the pipe.
LastRow(t) ==
    /\ t \in table /\ cutoff <= t /\ t <= Ts(got)
    /\ \A v \in table : ~(t < v /\ v <= Ts(got))

\* A gap after the last stored row is marked before the next row can be stored.
TailMarked ==
    ~first_insert /\ pc \notin {"first", "failed", "ended"} => \A t \in table :
        /\ LastRow(t)
        /\ \/ \E b \in taken : t <= Ts(b) /\ b <= got /\ ~Unwritten(b)
           \/ \E r \in dropped : t < Ts(r)
        => \E b \in bounds : t < b /\ b <= Ts(got) + 1

Marks == Steps /\ BlockWhole /\ Ahead /\ TailMarked /\ GapsMarked

GapInv == Inv /\ (~skipped => Marks)

\* The times and rows in the state are numbers.
LEMMA Kinds ==
  ASSUME Inv
  PROVE  /\ \A t \in table : \E r \in 1..sent : t = 2 * r
         /\ \A t \in table : t \in Nat /\ 2 <= t /\ t <= 2 * sent
         /\ \A b \in bounds : b \in Nat
         /\ \A b \in pbreaks : b \in Nat /\ b <= sent
         /\ \A b \in taken : b \in pbreaks
         /\ \A r \in dropped : r \in Nat /\ r <= got
  <1>1. \A t \in table : \E r \in 1..sent : t = 2 * r
    BY DEF Inv, TypeOK
  <1>2. \A b \in bounds : \E r \in 1..sent : b = 2 * r + 1
    BY DEF Inv, TypeOK
  <1>3. \A b \in bounds : b \in Nat
    BY <1>2, Numbers DEF Inv
  <1>4. \A t \in table : t \in Nat /\ 2 <= t /\ t <= 2 * sent
    BY <1>1, Numbers DEF Inv
  <1>5. pbreaks \subseteq 0..sent /\ taken \subseteq pbreaks
    BY DEF Inv, TypeOK
  <1>6. dropped \subseteq 1..got
    BY DEF Inv, PipeShape
  <1> QED BY <1>1, <1>3, <1>4, <1>5, <1>6, Numbers DEF Inv

LEMMA InitMarks == Init => Marks
  BY DEF Init, Marks, Steps, Late, BlockWhole, Ahead, TailMarked, GapsMarked

\* More boundaries keep the gaps marked.
LEMMA GapsKept ==
  ASSUME GapsMarked, UNCHANGED <<pbreaks, table, cutoff, dropped>>, bounds \subseteq bounds'
  PROVE  GapsMarked'
  BY DEF GapsMarked, Separated

LEMMA WriterMarks == ASSUME Inv, Marks, WriteRows \/ CloseInterval PROVE Marks'
  <1> USE DEF Marks
  <1>1. UNCHANGED <<taken, got, rd, flag, pc, measured, first_insert, last_ts, table, bounds,
                    cutoff, dropped>>
    BY DEF WriteRows, CloseInterval, pipe, inserter, database
  <1>2. Late' <=> Late
    BY <1>1 DEF Late
  <1>3. Steps' /\ TailMarked'
    BY <1>1, <1>2 DEF Steps, TailMarked, LastRow, Unwritten
  <1>4. CASE WriteRows
    <2>1. sent' = sent + 1 /\ pbreaks' = pbreaks
      BY <1>4 DEF WriteRows
    <2>2. BlockWhole' /\ GapsMarked'
      BY <1>1, <1>2, <2>1 DEF BlockWhole, GapsMarked, Separated
    <2>3. ASSUME NEW r \in 1..sent', NEW s \in 1..sent', got < s, s < r, 2 * r \in table
          PROVE  2 * s \in table
      <3>1. sent \in Nat /\ got \in Nat /\ 2 * r <= 2 * sent
        BY <2>3, Kinds, Numbers DEF Inv
      <3>2. r \in 1..sent /\ s \in 1..sent
        BY <2>1, <2>3, <3>1
      <3> QED BY <2>3, <3>2 DEF Ahead
    <2>4. Ahead'
      BY <1>1, <1>2, <2>3 DEF Ahead
    <2> QED BY <1>3, <2>2, <2>4
  <1>5. CASE CloseInterval
    <2>1. sent' = sent /\ pbreaks' = pbreaks \cup {sent}
      BY <1>5 DEF CloseInterval
    <2>2. BlockWhole'
      BY <1>1, <1>2, <2>1, Numbers DEF BlockWhole, Inv
    <2>3. Ahead'
      BY <1>1, <1>2, <2>1 DEF Ahead
    <2>4. \A u \in table : ~(2 * sent < u)
      BY Kinds, Numbers DEF Inv
    <2>5. GapsMarked'
      BY <1>1, <2>1, <2>4 DEF GapsMarked, Separated
    <2> QED BY <1>3, <2>2, <2>3, <2>5
  <1> QED BY <1>4, <1>5

LEMMA ReadMarks == ASSUME Inv, Marks, Read PROVE Marks'
  <1> USE DEF Marks
  <1>1. /\ UNCHANGED <<sent, pbreaks, got, measured, first_insert, last_ts, table, bounds,
                       cutoff, dropped, failures, skipped>>
        /\ pc = "read" /\ pc' \in {"acquire", "measure"}
    BY DEF Read, producer, database
  <1>2. Late' <=> Late
    BY <1>1 DEF Late
  <1>3. rd <= rd' /\ rd' \in Nat /\ (rd' = rd => rd' \in pbreaks /\ flag' = TRUE)
    <2>1. \A b \in pbreaks : b \in Nat
      BY Kinds
    <2>2. sent \in Nat /\ rd \in Nat
      BY Numbers DEF Inv
    <2>3. CASE rd' \in pbreaks /\ flag' = TRUE /\ rd <= rd'
      BY <2>1, <2>3
    <2>4. CASE rd < sent /\ rd' = sent
      <3>1. rd <= rd' /\ rd' \in Nat /\ rd' # rd
        BY <2>2, <2>4
      <3> QED BY <3>1
    <2> QED BY <2>3, <2>4, ReadFacts
  <1>4. Steps'
    <2>1. got < rd => got < rd'
      BY <1>3, Numbers DEF Inv
    <2> QED BY <1>1, <1>2, <2>1 DEF Steps
  <1>5. ASSUME ~Late' PROVE \A b \in pbreaks : ~(got < b /\ b < rd')
    <2>1. got = rd
      BY <1>1, <1>2, <1>5 DEF Steps
    <2> SUFFICES ASSUME NEW b \in pbreaks PROVE ~(got < b /\ b < rd')
      OBVIOUS
    <2>2. b \in Nat
      BY Kinds
    <2>3. b \in taken => b <= rd
      BY DEF Inv, PipeShape
    <2>4. b \notin taken => rd' <= b
      BY ReadFacts
    <2> QED BY <1>3, <2>1, <2>2, <2>3, <2>4, Numbers DEF Inv
  <1>6. ~flag' => rd' \notin taken'
    <2>1. CASE flag' = TRUE
      BY <2>1
    <2>2. CASE rd < sent /\ rd' = sent /\ taken' = taken
      <3>1. \A b \in taken : b <= rd
        BY DEF Inv, PipeShape
      <3>2. ~(sent <= rd)
        BY <2>2, Numbers DEF Inv
      <3> QED BY <2>2, <3>1, <3>2
    <2> QED BY <2>1, <2>2, ReadFacts
  <1>7. BlockWhole' /\ Ahead' /\ GapsMarked'
    BY <1>1, <1>2, <1>5, <1>6 DEF BlockWhole, Ahead, GapsMarked, Separated
  <1>8. ASSUME NEW b \in taken', b <= got, ~Unwritten(b)'
        PROVE  b \in taken /\ ~Unwritten(b)
    <2>1. ~Unwritten(b)
      BY <1>1 DEF Unwritten
    <2>2. CASE b = rd' /\ taken' = taken \cup {rd'} /\ flag' = TRUE
      <3>1. got = rd'
        BY <1>3, <1>8, <2>2, Numbers DEF Inv
      <3> QED BY <1>1, <1>8, <2>2, <3>1 DEF Unwritten
    <2> QED BY <1>8, <2>1, <2>2, ReadFacts
  <1>9. TailMarked'
    BY <1>1, <1>8 DEF TailMarked, LastRow
  <1> QED BY <1>4, <1>7, <1>9

\* Steps that only move on or check.
LEMMA MoveOnMarks ==
  ASSUME Inv, Marks,
         \/ CreateTable \/ (\E m \in BOOLEAN : MeasureDataRate(m)) \/ Acquire
         \/ Check \/ Decimate \/ Retry \/ Uncaught \/ Cancel
  PROVE  Marks'
  <1> USE DEF Marks
  <1>1. UNCHANGED <<sent, pbreaks, taken, got, rd, flag, table, bounds, cutoff, dropped>>
    BY DEF CreateTable, MeasureDataRate, Acquire, Check, Decimate, Retry, Uncaught, Cancel,
           producer, pipe, database
  <1>2. GapsMarked'
    BY <1>1, GapsKept
  <1>3. sent \in Nat /\ got \in Nat /\ rd \in Nat /\ got <= rd /\ last_ts \in Nat
    BY Numbers DEF Inv
  <1>4. CASE \/ CreateTable \/ (\E m \in BOOLEAN : MeasureDataRate(m)) \/ Decimate \/ Retry
    <2>1. /\ UNCHANGED <<first_insert, last_ts>>
          /\ <<pc, pc'>> \in {<<"init", "read">>, <<"measure", "acquire">>,
                             <<"decimate", "break">>, <<"retry", "read">>}
      BY <1>4 DEF CreateTable, MeasureDataRate, Decimate, Retry
    <2>2. Late' <=> Late
      BY <1>1, <2>1 DEF Late
    <2>3. Steps'
      BY <1>1, <2>1, <2>2 DEF Steps
    <2>4. BlockWhole'
      BY <1>1, <2>1, <2>2 DEF BlockWhole
    <2>5. Ahead'
      BY <1>1, <2>2 DEF Ahead
    <2>6. TailMarked'
      BY <1>1, <2>1 DEF TailMarked, LastRow, Unwritten, Steps
    <2> QED BY <1>2, <2>3, <2>4, <2>5, <2>6
  <1>5. CASE Acquire
    <2>1. pc = "acquire" /\ last_ts' = last_ts
      BY <1>5 DEF Acquire
    <2>2. pc' # "copy"
      BY <1>5 DEF Acquire
    <2>3. Late' <=> Late
      BY <1>1, <2>1, <2>2 DEF Late
    <2>4. Ahead'
      BY <1>1, <2>3 DEF Ahead
    <2>5. CASE data = {}
      <3>1. pc' = "break" /\ first_insert' = first_insert
        BY <1>5, <2>5 DEF Acquire
      <3>2. got = rd /\ ~Late
        <4>1. got = rd
          BY <2>5, DataEmpty DEF Inv
        <4>2. ~(got < rd)
          BY <1>3, <4>1
        <4> QED BY <4>1, <4>2 DEF Steps
      <3>3. Steps' /\ BlockWhole'
        BY <1>1, <2>1, <2>3, <3>1, <3>2 DEF Steps, BlockWhole
      <3>4. TailMarked'
        BY <1>1, <2>1, <3>1 DEF TailMarked, LastRow, Unwritten
      <3> QED BY <1>2, <2>4, <3>3, <3>4
    <2>6. CASE data # {}
      <3>1. /\ pc' = IF first_insert THEN "first" ELSE "check"
            /\ first_insert' = FALSE
        BY <1>5, <2>6 DEF Acquire
      <3>2. got # rd
        BY <2>6, DataEmpty DEF Inv
      <3>3. Steps' /\ BlockWhole'
        BY <1>1, <2>1, <2>3, <3>1 DEF Steps, BlockWhole
      <3>4. TailMarked'
        BY <1>1, <2>1, <3>1, <3>2 DEF TailMarked, LastRow, Unwritten
      <3> QED BY <1>2, <2>4, <3>3, <3>4
    <2> QED BY <2>5, <2>6
  <1>6. CASE Check
    <2>1. pc = "check" /\ first_insert' = first_insert
      BY <1>6 DEF Check
    <2>2. CASE pc' = "dataerror" /\ last_ts' = last_ts
      <3>1. Late' <=> Late
        BY <1>1, <2>1, <2>2 DEF Late
      <3>2. Steps' /\ BlockWhole' /\ Ahead'
        BY <1>1, <2>1, <2>2, <3>1 DEF Steps, BlockWhole, Ahead
      <3>3. TailMarked'
        BY <1>1, <2>1, <2>2 DEF TailMarked, LastRow, Unwritten
      <3> QED BY <1>2, <3>2, <3>3
    <2>3. CASE pc' = "copy" /\ last_ts' = Ts(rd) /\ ~(last_ts >= Ts(got + 1))
      <3>1. ~Late /\ ~Late'
        BY <2>3 DEF Late
      <3>2. Steps' /\ BlockWhole' /\ Ahead'
        BY <1>1, <2>1, <2>3, <3>1 DEF Steps, BlockWhole, Ahead
      <3>3. TailMarked'
        BY <1>1, <2>1, <2>3 DEF TailMarked, LastRow, Unwritten
      <3> QED BY <1>2, <3>2, <3>3
    <2> QED BY <1>6, <2>2, <2>3 DEF Check
  <1>7. CASE Uncaught \/ Cancel
    <2>1. UNCHANGED <<first_insert, last_ts>> /\ pc' \in {"failed", "ended"}
      BY <1>7 DEF Uncaught, Cancel
    <2>2. CASE pc = "copy"
      <3>1. last_ts = 2 * rd /\ got < rd /\ ~first_insert
        BY <2>2 DEF Steps, Inv, PipeShape
      <3>2. last_ts >= 2 * (got + 1)
        BY <1>3, <3>1
      <3>3. Late'
        BY <1>1, <2>1, <3>2 DEF Late
      <3>4. Steps' /\ BlockWhole' /\ Ahead' /\ TailMarked'
        BY <1>1, <2>1, <3>1, <3>3 DEF Steps, BlockWhole, Ahead, TailMarked
      <3> QED BY <1>2, <3>4
    <2>3. CASE pc # "copy"
      <3>1. Late' <=> Late
        BY <1>1, <2>1, <2>3 DEF Late
      <3>2. Steps' /\ BlockWhole' /\ Ahead' /\ TailMarked'
        BY <1>1, <2>1, <2>3, <3>1 DEF Steps, BlockWhole, Ahead, TailMarked
      <3> QED BY <1>2, <3>2
    <2> QED BY <2>2, <2>3
  <1> QED BY <1>4, <1>5, <1>6, <1>7

\* The boundary before the first rows of an inserter marks whatever gap is there.
LEMMA FirstInsertMarks == ASSUME Inv, Marks, FirstInsert, MergeGap = 0 PROVE Marks'
  <1> USE DEF Marks
  <1>1. /\ UNCHANGED <<sent, pbreaks, taken, got, rd, flag, first_insert, last_ts, table,
                       cutoff, dropped>>
        /\ pc = "first" /\ pc' = "check"
    BY DEF FirstInsert, producer, pipe
  <1>2. Late' <=> Late
    BY <1>1 DEF Late
  <1>3. got \in Nat /\ 2 * (got + 1) - 1 = 2 * got + 1
    BY Numbers DEF Inv
  <1>4. bounds' = CloseAt(2 * got + 1)
    BY <1>3 DEF FirstInsert, Merged
  <1>5. /\ bounds \subseteq bounds'
        /\ \A t \in table : t <= 2 * got =>
               \/ \E v \in table : t < v /\ v <= 2 * got
               \/ \E b \in bounds' : t < b /\ b <= 2 * got + 1
    BY <1>3, <1>4, CloseAtMarks DEF Inv
  <1>6. Steps' /\ BlockWhole' /\ Ahead'
    BY <1>1, <1>2 DEF Steps, BlockWhole, Ahead
  <1>7. TailMarked'
    BY <1>1, <1>5 DEF TailMarked, LastRow
  <1>8. GapsMarked'
    BY <1>1, <1>5, GapsKept
  <1> QED BY <1>6, <1>7, <1>8

LEMMA BreakMarks == ASSUME Inv, Marks, Break PROVE Marks'
  <1> USE DEF Marks
  <1>1. /\ UNCHANGED <<sent, pbreaks, taken, got, rd, flag, first_insert, last_ts, table,
                       cutoff, dropped>>
        /\ pc = "break" /\ pc' = "cleanup"
    BY DEF Break, producer, pipe
  <1>2. Late' <=> Late
    BY <1>1 DEF Late
  <1>3. ~Late /\ got = rd /\ last_ts \in {0, 2 * got}
    BY <1>1 DEF Steps
  <1>4. Steps' /\ BlockWhole' /\ Ahead'
    BY <1>1, <1>2 DEF Steps, BlockWhole, Ahead
  <1>5. CASE flag /\ last_ts # 0
    <2>1. bounds' = CloseAt(2 * got) /\ got \in Nat
      BY <1>3, <1>5, Numbers DEF Break, Inv
    <2>2. /\ bounds \subseteq bounds'
          /\ \A t \in table : t <= 2 * got =>
               \/ \E v \in table : t < v /\ v <= 2 * got
               \/ \E b \in bounds' : t < b /\ b <= 2 * got + 1
      BY <2>1, CloseAtMarks DEF Inv
    <2>3. TailMarked'
      BY <1>1, <2>2 DEF TailMarked, LastRow
    <2>4. GapsMarked'
      BY <1>1, <2>2, GapsKept
    <2> QED BY <1>4, <2>3, <2>4
  <1>6. CASE ~(flag /\ last_ts # 0)
    <2>1. bounds' = bounds
      BY <1>6 DEF Break
    <2>2. GapsMarked'
      BY <1>1, <2>1, GapsKept
    <2>3. CASE ~flag
      <3>1. \A b : ~Unwritten(b)
        BY <2>3 DEF Unwritten
      <3> QED BY <1>1, <1>4, <2>1, <2>2, <3>1 DEF TailMarked, LastRow
    <2>4. CASE first_insert
      BY <1>1, <1>4, <2>2, <2>4 DEF TailMarked
    <2>5. CASE ~first_insert /\ last_ts = 0
      <3>1. last_ts = 2 * got
        BY <1>1, <1>3, <2>5 DEF Steps
      <3>2. 2 * got = 0
        BY <2>5, <3>1
      <3>3. \A t \in table : ~(t <= 2 * got)
        BY <3>2, Kinds
      <3> QED BY <1>1, <1>4, <2>2, <3>3 DEF TailMarked, LastRow
    <2> QED BY <1>6, <2>3, <2>4, <2>5
  <1> QED BY <1>5, <1>6

\* A copied block: within it there is no break and no dropped row, and the gap
\* before it is marked because a gap after the last stored row is.
LEMMA GapsCopied ==
  ASSUME Inv, Marks, pc = "copy", table' = table \cup {Ts(r) : r \in data},
         UNCHANGED <<pbreaks, bounds, cutoff, dropped>>
  PROVE  GapsMarked'
  <1> USE DEF Marks
  <1>1. /\ sent \in Nat /\ got \in Nat /\ rd \in Nat /\ got < rd /\ rd <= sent
        /\ cutoff \in Nat
    BY Numbers DEF Inv, PipeShape
  <1>2. ~Late /\ ~first_insert
    BY DEF Late, Steps
  <1>3. \A t \in table : t \in Nat /\ t <= 2 * got
    BY <1>1, <1>2, Kinds DEF Ahead
  <1>4. \A t \in table' \ table : \E s \in Nat : t = 2 * s /\ got < s /\ s <= rd
    BY <1>1 DEF data
  <1>5. \A s \in Nat : got < s /\ s <= rd => 2 * s \in table'
    BY <1>1 DEF data
  <1> SUFFICES ASSUME NEW t \in table', NEW u \in table', cutoff <= t, t < u,
                      \A v \in table' : ~(t < v /\ v < u),
                      \/ \E b \in pbreaks : t <= 2 * b /\ 2 * b < u
                      \/ \E r \in dropped : t < 2 * r /\ 2 * r < u
               PROVE  \E b \in bounds : t < b /\ b < u
    BY DEF GapsMarked, Separated
  <1>6. CASE t \in table /\ u \in table
    BY <1>6 DEF GapsMarked, Separated
  <1>7. CASE t \notin table
    <2>1. PICK s \in Nat : t = 2 * s /\ got < s /\ s <= rd
      BY <1>4, <1>7
    <2>2. u \notin table
      BY <1>1, <1>3, <2>1
    <2>3. PICK q \in Nat : u = 2 * q /\ got < q /\ q <= rd
      BY <1>4, <2>2
    <2>4. q = s + 1
      <3>1. s < q
        BY <2>1, <2>3
      <3>2. CASE s + 1 < q
        <4>1. s + 1 \in Nat /\ got < s + 1 /\ s + 1 <= rd
          BY <1>1, <2>1, <2>3, <3>2
        <4>2. 2 * (s + 1) \in table'
          BY <1>5, <4>1
        <4>3. t < 2 * (s + 1) /\ 2 * (s + 1) < u
          BY <2>1, <2>3, <3>2
        <4> QED BY <4>2, <4>3
      <3> QED BY <3>1, <3>2
    <2>5. \A r \in dropped : ~(t < 2 * r /\ 2 * r < u)
      BY <1>1, <2>1, Kinds
    <2>6. PICK b \in pbreaks : t <= 2 * b /\ 2 * b < u
      BY <2>5
    <2>7. b \in Nat
      BY Kinds
    <2>8. got < b /\ b < rd
      BY <1>1, <2>1, <2>3, <2>4, <2>6, <2>7
    <2> QED BY <1>2, <2>8 DEF BlockWhole
  <1>8. CASE t \in table /\ u \notin table
    <2>1. PICK q \in Nat : u = 2 * q /\ got < q /\ q <= rd
      BY <1>4, <1>8
    <2>2. t \in Nat /\ t <= 2 * got
      BY <1>3, <1>8
    <2>3. q = got + 1
      <3>1. CASE got + 1 < q
        <4>1. 2 * (got + 1) \in table'
          BY <1>1, <1>5, <2>1, <3>1
        <4> QED BY <1>1, <2>1, <2>2, <3>1, <4>1
      <3> QED BY <1>1, <2>1, <3>1
    <2>4. LastRow(t)
      <3>1. \A v \in table : ~(t < v /\ v <= 2 * got)
        BY <1>1, <1>3, <2>1
      <3> QED BY <1>8, <2>2, <3>1 DEF LastRow
    <2>5. \/ \E b \in taken : t <= 2 * b /\ b <= got /\ ~Unwritten(b)
          \/ \E r \in dropped : t < 2 * r
      <3>1. CASE \E r \in dropped : t < 2 * r /\ 2 * r < u
        BY <3>1
      <3>2. CASE \E b \in pbreaks : t <= 2 * b /\ 2 * b < u
        <4>1. PICK b \in pbreaks : t <= 2 * b /\ 2 * b < u
          BY <3>2
        <4>2. b \in Nat
          BY Kinds
        <4>3. b <= got
          BY <1>1, <2>1, <2>3, <4>1, <4>2
        <4>4. ~(rd <= b)
          BY <1>1, <4>2, <4>3
        <4>5. b \in taken
          BY <4>4 DEF Inv, PipeShape
        <4>6. ~Unwritten(b)
          BY DEF Unwritten
        <4> QED BY <4>1, <4>3, <4>5, <4>6
      <3> QED BY <3>1, <3>2
    <2>6. PICK b \in bounds : t < b /\ b <= 2 * got + 1
      BY <1>2, <1>8, <2>4, <2>5 DEF TailMarked
    <2>7. b \in Nat
      BY Kinds
    <2>8. b < u
      BY <1>1, <2>1, <2>3, <2>6, <2>7
    <2> QED BY <2>6, <2>8
  <1> QED BY <1>6, <1>7, <1>8

LEMMA CopyMarks ==
  ASSUME Inv, Marks, Copy \/ \E stored \in BOOLEAN : CopyFails(stored) PROVE Marks'
  <1> USE DEF Marks
  <1>1. /\ UNCHANGED <<sent, pbreaks, taken, rd, flag, measured, first_insert, last_ts, bounds,
                       cutoff, dropped, skipped>>
        /\ pc = "copy"
    BY DEF Copy, CopyFails, producer, pipe
  <1>2. /\ sent \in Nat /\ got \in Nat /\ rd \in Nat /\ got < rd /\ rd <= sent
        /\ last_ts = 2 * rd /\ ~Late /\ ~first_insert
    BY <1>1, Numbers DEF Inv, PipeShape, Late, Steps
  <1>3. \A t \in table : t \in Nat /\ t <= 2 * got
    BY <1>2, Kinds DEF Ahead
  <1>4. \A r \in data : r \in Nat /\ got < r /\ r <= rd
    BY <1>2 DEF data
  <1>5. ~ \E r \in data : 2 * r \in table
    BY <1>2, <1>3, <1>4
  <1>6. CASE Copy
    <2>1. table' = table \cup {2 * r : r \in data} /\ got' = rd /\ pc' = "decimate"
      BY <1>5, <1>6 DEF Copy
    <2>2. GapsMarked'
      BY <1>1, <2>1, GapsCopied
    <2>3. \A t \in table' : t \in Nat /\ t <= 2 * rd
      <3>1. \A r \in data : 2 * r \in Nat /\ 2 * r <= 2 * rd
        BY <1>2, <1>4
      <3> QED BY <1>2, <1>3, <2>1, <3>1
    <2>4. ~Late'
      <3>1. ~(2 * rd >= 2 * (rd + 1))
        BY <1>2
      <3> QED BY <1>1, <1>2, <2>1, <3>1 DEF Late
    <2>5. Steps' /\ BlockWhole'
      BY <1>1, <1>2, <2>1, <2>4 DEF Steps, BlockWhole
    <2>6. Ahead'
      <3>1. \A t \in table' : ~(t > 2 * rd)
        BY <1>2, <2>3
      <3>2. \A r, s \in 1..sent : ~(rd < s /\ s < r /\ 2 * r \in table')
        BY <1>2, <2>3
      <3> QED BY <1>1, <2>1, <3>1, <3>2 DEF Ahead
    <2>7. TailMarked'
      <3>1. 2 * rd \in table'
        BY <1>2, <2>1 DEF data
      <3> SUFFICES ASSUME NEW t \in table', LastRow(t)',
                          \/ \E b \in taken : t <= 2 * b /\ b <= rd /\ ~Unwritten(b)'
                          \/ \E r \in dropped : t < 2 * r
                   PROVE  FALSE
        BY <1>1, <2>1 DEF TailMarked
      <3>2. t = 2 * rd
        <4>1. ~(t < 2 * rd /\ 2 * rd <= 2 * rd)
          BY <2>1, <3>1 DEF LastRow
        <4> QED BY <1>2, <2>3, <4>1
      <3>3. ~ \E r \in dropped : t < 2 * r
        BY <1>2, <3>2, Kinds
      <3>4. PICK b \in taken : t <= 2 * b /\ b <= rd /\ ~Unwritten(b)'
        BY <3>3
      <3>5. b = rd
        BY <1>2, <3>2, <3>4, Kinds
      <3>6. flag
        BY <1>1, <3>4, <3>5 DEF BlockWhole
      <3> QED BY <1>1, <2>1, <3>4, <3>5, <3>6 DEF Unwritten
    <2> QED BY <2>2, <2>5, <2>6, <2>7
  <1>7. CASE \E stored \in BOOLEAN : CopyFails(stored)
    <2>1. got' = got /\ pc' = "retry" /\ table' \in {table, table \cup {2 * r : r \in data}}
      BY <1>7 DEF CopyFails, pipe
    <2>2. Late'
      <3>1. 2 * rd >= 2 * (got + 1)
        BY <1>2
      <3> QED BY <1>1, <1>2, <2>1, <3>1 DEF Late
    <2>3. Steps' /\ BlockWhole'
      BY <1>1, <1>2, <2>1, <2>2 DEF Steps, BlockWhole
    <2>4. \A t \in table' \ table : \E r \in data : t = 2 * r
      BY <2>1
    <2>5. ASSUME NEW r \in 1..sent, NEW s \in 1..sent, got < s, s < r, 2 * r \in table'
          PROVE  2 * s \in table'
      <3>1. 2 * r \notin table
        BY <1>2, <1>3, <2>5
      <3>2. PICK q \in data : 2 * r = 2 * q
        BY <2>4, <2>5, <3>1
      <3>3. s \in data
        BY <1>2, <1>4, <2>5, <3>2 DEF data
      <3>4. table' = table \cup {2 * k : k \in data}
        BY <2>1, <2>5, <3>1
      <3> QED BY <3>3, <3>4
    <2>6. Ahead'
      BY <1>1, <2>1, <2>2, <2>5 DEF Ahead
    <2>7. TailMarked'
      <3>1. \A t \in table' : t <= 2 * got => t \in table
        BY <1>2, <1>4, <2>4
      <3>2. table \subseteq table'
        BY <2>1
      <3>3. \A t \in table' : LastRow(t)' => LastRow(t)
        BY <1>1, <2>1, <3>1, <3>2 DEF LastRow
      <3>4. \A b : ~Unwritten(b)
        BY <1>1 DEF Unwritten
      <3>5. \A t : LastRow(t) => t \in table
        BY DEF LastRow
      <3> QED BY <1>1, <1>2, <2>1, <3>3, <3>4, <3>5 DEF TailMarked
    <2>8. GapsMarked'
      <3>1. CASE table' = table
        BY <1>1, <3>1, GapsKept
      <3>2. CASE table' = table \cup {2 * r : r \in data}
        BY <1>1, <3>2, GapsCopied
      <3> QED BY <2>1, <3>1, <3>2
    <2> QED BY <2>3, <2>6, <2>7, <2>8
  <1> QED BY <1>6, <1>7

LEMMA CleanupMarks ==
  ASSUME Inv, Marks, NEW c \in 0..Ts(MaxRows), NEW d \in 0..Ts(MaxRows), Cleanup(c, d)
  PROVE  Marks'
  <1> USE DEF Marks
  <1>1. /\ d <= c /\ cutoff' = c /\ bounds' = {b \in bounds : b >= c}
        /\ table' = {t \in table : t >= d} /\ pc = "cleanup" /\ pc' = "read"
        /\ UNCHANGED <<sent, pbreaks, taken, got, rd, flag, measured, first_insert, last_ts,
                       dropped>>
    BY DEF Cleanup, producer, pipe
  <1>2. c \in Nat /\ d \in Nat /\ cutoff \in Nat /\ cutoff <= c
    <2>1. CASE KeepAll
      BY <2>1, Numbers DEF Cleanup, Inv
    <2>2. CASE ~KeepAll
      BY <2>2, Numbers DEF Cleanup, Inv
    <2> QED BY <2>1, <2>2
  <1>3. (Late' <=> Late) /\ ~Late
    BY <1>1 DEF Late, Steps
  <1>4. Steps' /\ BlockWhole'
    BY <1>1, <1>3 DEF Steps, BlockWhole
  <1>5. Ahead'
    <2>1. \A t \in table : ~(t > 2 * got)
      BY <1>3 DEF Ahead
    <2>2. \A r, s \in 1..sent : ~(got < s /\ s < r /\ 2 * r \in table)
      BY <2>1, Numbers DEF Inv
    <2> QED BY <1>1, <2>1, <2>2 DEF Ahead
  <1>6. \A t \in table, b \in bounds : c <= t /\ t < b => b \in bounds'
    BY <1>1, <1>2, Kinds
  <1>7. \A t, v \in table : c <= t /\ t < v => v \in table'
    BY <1>1, <1>2, Kinds
  <1>8. \A t \in table' : t \in table /\ (c <= t => cutoff <= t)
    BY <1>1, <1>2, Kinds
  <1>9. TailMarked'
    <2>1. \A t \in table' : LastRow(t)' => LastRow(t) /\ c <= t
      BY <1>1, <1>7, <1>8 DEF LastRow
    <2>2. \A b : ~Unwritten(b)
      BY <1>1 DEF Unwritten
    <2> QED BY <1>1, <1>6, <1>8, <2>1, <2>2 DEF TailMarked
  <1>10. GapsMarked'
    BY <1>1, <1>6, <1>7, <1>8 DEF GapsMarked, Separated
  <1> QED BY <1>4, <1>5, <1>9, <1>10

\* The rows thrown away with a pipe leave no new gap between stored rows: those
\* stored beyond the pipe's start are the first it holds.
LEMMA RespawnMarks == ASSUME Inv, Marks, Respawn PROVE Marks'
  <1> USE DEF Marks
  <1>1. /\ dropped' = dropped \cup (got + 1)..sent /\ got' = sent /\ rd' = sent
        /\ taken' = pbreaks /\ flag' = FALSE /\ pc' = "init" /\ measured' = FALSE
        /\ first_insert' = TRUE /\ last_ts' = 0
        /\ UNCHANGED <<sent, pbreaks, table, bounds, cutoff>>
    BY DEF Respawn, producer
  <1>2. sent \in Nat /\ got \in Nat /\ got <= sent
    BY Numbers DEF Inv
  <1>3. ~Late'
    <2>1. ~(0 >= 2 * (sent + 1))
      BY <1>2
    <2> QED BY <1>1, <2>1 DEF Late
  <1>4. Steps' /\ BlockWhole' /\ TailMarked'
    BY <1>1, <1>3 DEF Steps, BlockWhole, TailMarked
  <1>5. Ahead'
    <2>1. \A t \in table : ~(t > 2 * sent)
      BY <1>2, Kinds
    <2>2. \A r, s \in 1..sent : ~(sent < s /\ s < r /\ 2 * r \in table)
      BY <1>2
    <2> QED BY <1>1, <2>1, <2>2 DEF Ahead
  <1>6. ASSUME NEW t \in table, NEW u \in table, NEW r \in (got + 1)..sent,
               t < 2 * r, 2 * r < u, \A v \in table : ~(t < v /\ v < u)
        PROVE  FALSE
    <2>1. PICK q \in 1..sent : u = 2 * q
      BY Kinds
    <2>2. r \in 1..sent /\ got < r /\ r < q
      BY <1>2, <1>6, <2>1
    <2>3. 2 * r \in table
      BY <2>1, <2>2 DEF Ahead
    <2> QED BY <1>6, <2>3
  <1>7. GapsMarked'
    BY <1>1, <1>6 DEF GapsMarked, Separated
  <1> QED BY <1>4, <1>5, <1>7

\* Failures outside of the copy set skipped, and skipped stays set.
LEMMA SkippedSteps ==
  ASSUME Next, ~skipped'
  PROVE  ~skipped /\ ~ \E stored \in BOOLEAN : ConnectionError(stored)
  <1>1. ~ \E stored \in BOOLEAN : ConnectionError(stored)
    BY DEF ConnectionError
  <1>2. skipped' = skipped
    <2>1. CASE \/ CreateTable \/ Read \/ (\E m \in BOOLEAN : MeasureDataRate(m)) \/ Acquire
               \/ FirstInsert \/ Check
      BY <2>1 DEF CreateTable, Read, MeasureDataRate, Acquire, FirstInsert, Check
    <2>2. CASE \/ Copy \/ Decimate \/ Break \/ Retry \/ Respawn
               \/ (\E c, d \in 0..Ts(MaxRows) : Cleanup(c, d))
      BY <2>2 DEF Copy, Decimate, Break, Cleanup, Retry, Respawn
    <2>3. CASE \E stored \in BOOLEAN : CopyFails(stored)
      BY <2>3 DEF CopyFails
    <2>4. CASE WriteRows \/ CloseInterval \/ Uncaught \/ Cancel
      BY <2>4 DEF WriteRows, CloseInterval, Uncaught, Cancel
    <2> QED BY <1>1, <2>1, <2>2, <2>3, <2>4 DEF Next, InserterStep
  <1> QED BY <1>1, <1>2

LEMMA NextMarks ==
  ASSUME MergeGap = 0, GapInv, Next, ~skipped'
  PROVE  Marks'
  <1>1. Inv /\ Marks /\ ~ \E stored \in BOOLEAN : ConnectionError(stored)
    BY SkippedSteps DEF GapInv
  <1>2. CASE WriteRows \/ CloseInterval
    BY <1>1, <1>2, WriterMarks
  <1>3. CASE Read
    BY <1>1, <1>3, ReadMarks
  <1>4. CASE \/ CreateTable \/ (\E m \in BOOLEAN : MeasureDataRate(m)) \/ Acquire
             \/ Check \/ Decimate \/ Retry \/ Uncaught \/ Cancel
    BY <1>1, <1>4, MoveOnMarks
  <1>5. CASE FirstInsert
    BY <1>1, <1>5, FirstInsertMarks
  <1>6. CASE Break
    BY <1>1, <1>6, BreakMarks
  <1>7. CASE Copy \/ \E stored \in BOOLEAN : CopyFails(stored)
    BY <1>1, <1>7, CopyMarks
  <1>8. CASE \E c, d \in 0..Ts(MaxRows) : Cleanup(c, d)
    BY <1>1, <1>8, CleanupMarks
  <1>9. CASE Respawn
    BY <1>1, <1>9, RespawnMarks
  <1> QED BY <1>1, <1>2, <1>3, <1>4, <1>5, <1>6, <1>7, <1>8, <1>9 DEF Next, InserterStep

\* With merge_gap 0, as the daemon creates its inserters: as long as the only
\* failures are those of the copy of rows, two stored rows with a break of the
\* producer or a dropped row between them have a boundary between them.
THEOREM GapsSeparated ==
  ASSUME MergeGap = 0
  PROVE  Spec => []CopyFailuresMarked
  <1>1. Init => GapInv
    BY InitInv, InitMarks DEF GapInv
  <1>2. GapInv /\ [Next]_vars => GapInv'
    <2> SUFFICES ASSUME GapInv, [Next]_vars PROVE GapInv'
      OBVIOUS
    <2>1. CASE Next
      <3>1. Inv'
        BY <2>1, NextInv DEF GapInv
      <3>2. ~skipped' => Marks'
        BY <2>1, NextMarks
      <3> QED BY <3>1, <3>2 DEF GapInv
    <2>2. CASE UNCHANGED vars
      <3>1. Inv'
        BY <2>2, StutterInv DEF GapInv
      <3>2. Marks <=> Marks'
        BY <2>2 DEF vars, producer, pipe, inserter, database, Marks, Steps, Late, BlockWhole,
                    Ahead, TailMarked, LastRow, Unwritten, GapsMarked, Separated
      <3> QED BY <2>2, <3>1, <3>2 DEF GapInv, vars
    <2> QED BY <2>1, <2>2
  <1>3. GapInv => CopyFailuresMarked
    BY DEF GapInv, Marks, CopyFailuresMarked
  <1> QED BY <1>1, <1>2, <1>3, PTL DEF Spec


-----------------------------------------------------------------------------
(* The tables of the stream (Store), as an instance *)

HIDE InserterConstants DEF Ts, None

\* Its constants and variables are those of StoreTables.
S == INSTANCE Store

\* The cardinality of the instance is that of this module.
LEMMA SameCardinality == \A T : S!Cardinality(T) = Cardinality(T)
  BY DEF S!Cardinality, Cardinality, S!IsFiniteSet, IsFiniteSet

\* A finite set of numbers has a greatest one.
LEMMA GreatestNat ==
  ASSUME NEW T \in SUBSET Nat, T # {}, IsFiniteSet(T)
  PROVE  \E t \in T : \A u \in T : u <= t
  <1> DEFINE Bad(U) == U # {} /\ ~ \E t \in U : \A u \in U : u <= t
             B == {Cardinality(U) : U \in {V \in SUBSET T : Bad(V)}}
  <1>1. SUFFICES ASSUME Bad(T) PROVE FALSE
    OBVIOUS
  <1>2. \A U \in SUBSET T : IsFiniteSet(U) /\ Cardinality(U) \in Nat
    BY FS_Subset, FS_CardinalityType
  <1>3. PICK U \in SUBSET T : Bad(U) /\ \A V \in SUBSET T : Bad(V) => Cardinality(U) <= Cardinality(V)
    <2>1. B \subseteq Nat
      BY <1>2
    <2>2. Cardinality(T) \in B
      BY <1>1
    <2>3. PICK n \in B : \A m \in B : n <= m
      <3> HIDE DEF B
      <3> QED BY <2>1, <2>2, LeastNat
    <2> QED BY <2>3
  <1>4. PICK v \in U : TRUE
    BY <1>3
  <1>5. PICK V : V = U \ {v}
    OBVIOUS
  <1>6. V \in SUBSET T /\ Cardinality(V) = Cardinality(U) - 1
    BY <1>2, <1>4, <1>5, FS_RemoveElement
  <1>7. ~Bad(V)
    <2> HIDE DEF Bad
    <2> QED BY <1>2, <1>3, <1>6
  <1>8. CASE V = {}
    BY <1>3, <1>4, <1>5, <1>8
  <1>9. CASE V # {}
    <2>1. PICK t \in V : \A u \in V : u <= t
      BY <1>7, <1>9
    <2>2. t \in U /\ t \in Nat /\ v \in Nat
      BY <1>5
    <2>3. CASE v <= t
      BY <1>3, <1>5, <2>1, <2>2, <2>3
    <2>4. CASE ~(v <= t)
      <3>1. \A u \in U : u \in Nat /\ (u = v \/ u <= t)
        BY <1>5, <2>1
      <3>2. \A u \in U : u <= v
        BY <2>2, <2>4, <3>1
      <3> QED BY <1>3, <1>4, <3>2
    <2> QED BY <2>3, <2>4
  <1> QED BY <1>8, <1>9

\* How many members of T there are up to t.
Rank(T, t) == Cardinality({u \in T : u <= t})

\* Every number up to the cardinality of a set is the rank of a member.
LEMMA RankReached ==
  ASSUME NEW T \in SUBSET Nat, IsFiniteSet(T), NEW i \in 1..Cardinality(T)
  PROVE  \E t \in T : Rank(T, t) = i
  <1> DEFINE n == Cardinality(T)
             B == {k \in 0..(n - 1) : \A t \in T : Rank(T, t) # n - k}
  <1>0. n \in Nat
    BY FS_CardinalityType
  <1>1. \A U \in SUBSET T : IsFiniteSet(U) /\ Cardinality(U) \in Nat
    BY FS_Subset, FS_CardinalityType
  <1>2. SUFFICES ASSUME B # {} PROVE FALSE
    <2>1. n - i \in 0..(n - 1) /\ n - (n - i) = i
      BY <1>0
    <2> QED BY <2>1
  <1>3. PICK k \in B : \A j \in B : k <= j
    <2>1. B \subseteq Nat
      BY <1>0
    <2> HIDE DEF B
    <2> QED BY <1>2, <2>1, LeastNat
  <1>4. k \in 0..(n - 1) /\ \A t \in T : Rank(T, t) # n - k
    BY <1>3
  <1>5. CASE k = 0
    <2>1. T # {}
      BY <1>0, <1>4, FS_EmptySet
    <2>2. PICK t \in T : \A u \in T : u <= t
      BY <2>1, GreatestNat
    <2>3. {u \in T : u <= t} = T
      BY <2>2
    <2> QED BY <1>0, <1>4, <1>5, <2>3 DEF Rank
  <1>6. CASE k # 0
    <2>1. k - 1 \in 0..(n - 1) /\ k - 1 \notin B
      BY <1>0, <1>3, <1>4, <1>6
    <2>2. PICK t \in T : Rank(T, t) = n - (k - 1)
      BY <2>1
    <2>3. PICK L : L = {u \in T : u < t}
      OBVIOUS
    <2>4. L \in SUBSET T /\ t \notin L /\ {u \in T : u <= t} = L \cup {t}
      <3>1. t \in Nat /\ \A u \in T : u \in Nat
        OBVIOUS
      <3>2. \A u \in T : u <= t <=> u < t \/ u = t
        BY <3>1
      <3>3. t \notin L /\ L \in SUBSET T
        BY <2>3, <3>1
      <3> QED BY <2>3, <3>2, <3>3
    <2>5. Cardinality(L \cup {t}) = Cardinality(L) + 1
      BY <1>1, <2>4, FS_AddElement
    <2>6. Cardinality(L) = n - k
      <3>1. Cardinality(L) \in Nat /\ Cardinality(L) + 1 = n - (k - 1)
        BY <1>1, <2>2, <2>4, <2>5 DEF Rank
      <3> QED BY <1>0, <1>4, <3>1
    <2>7. L # {}
      BY <1>0, <1>4, <2>6, FS_EmptySet
    <2>8. PICK v \in L : \A u \in L : u <= v
      BY <1>1, <2>4, <2>7, GreatestNat
    <2>9. {u \in T : u <= v} = L
      <3>1. t \in Nat /\ v \in Nat /\ v < t /\ \A u \in T : u \in Nat
        BY <2>3, <2>8
      <3>2. \A u \in T : u <= v => u \in L
        BY <2>3, <3>1
      <3> QED BY <2>4, <2>8, <3>2
    <2> QED BY <1>4, <2>4, <2>6, <2>8, <2>9 DEF Rank
  <1> QED BY <1>5, <1>6

\* A sequence of numbers, each before the later ones.
Rising(q) == \A i, j \in 1..Len(q) : i < j => q[i] < q[j]

\* ORDER BY time ASC: the rows of a set, each before the later ones.
LEMMA SortedRises ==
  ASSUME NEW T \in SUBSET Nat, IsFiniteSet(T)
  PROVE  S!Sorted(T) \in Seq(T) /\ Rising(S!Sorted(T))
  <1>0. PICK n : n = Cardinality(T) /\ n \in Nat
    BY FS_CardinalityType
  <1>1. PICK q : q = S!Sorted(T)
    OBVIOUS
  <1>2. q = [i \in 1..n |-> CHOOSE t \in T : S!Cardinality({u \in T : u <= t}) = i]
    BY <1>0, <1>1, SameCardinality DEF S!Sorted
  <1>3. ASSUME NEW i \in 1..n PROVE q[i] \in T /\ Rank(T, q[i]) = i
    <2>1. \E t \in T : S!Cardinality({u \in T : u <= t}) = i
      BY <1>0, RankReached, SameCardinality DEF Rank
    <2>2. q[i] \in T /\ S!Cardinality({u \in T : u <= q[i]}) = i
      BY <1>2, <2>1
    <2> QED BY <2>2, SameCardinality DEF Rank
  <1>4. q \in [1..n -> T]
    <2> DEFINE e(i) == CHOOSE t \in T : S!Cardinality({u \in T : u <= t}) = i
    <2>1. q = [i \in 1..n |-> e(i)]
      BY <1>2
    <2> HIDE DEF e
    <2>2. \A i \in 1..n : e(i) \in T
      BY <1>3, <2>1
    <2> QED BY <2>1, <2>2
  <1>5. q \in Seq(T) /\ Len(q) = n
    BY <1>0, <1>4
  <1>6. ASSUME NEW i \in 1..n, NEW j \in 1..n, i < j PROVE q[i] < q[j]
    <2>1. PICK x, y : x = q[i] /\ y = q[j]
      OBVIOUS
    <2>2. x \in T /\ y \in T /\ Rank(T, x) = i /\ Rank(T, y) = j
      BY <1>3, <2>1
    <2>3. CASE y <= x
      <3>1. \A u \in T : u <= y => u <= x
        BY <2>2, <2>3
      <3>2. {u \in T : u <= y} \in SUBSET {u \in T : u <= x}
        BY <3>1
      <3>3. IsFiniteSet({u \in T : u <= x})
        BY FS_Subset
      <3>4. Rank(T, y) <= Rank(T, x)
        BY <3>2, <3>3, FS_Subset DEF Rank
      <3> QED BY <1>0, <1>6, <2>2, <3>4
    <2>4. CASE ~(y <= x)
      BY <2>1, <2>2, <2>4
    <2> QED BY <2>3, <2>4
  <1> QED BY <1>1, <1>5, <1>6 DEF Rising

-----------------------------------------------------------------------------
(* The timestamp of a decimated row *)

Some(s) == CHOOSE x \in s : TRUE

\* The function SumSet recurs with.
SumFrom(f, T) == [s \in SUBSET T |-> IF s = {} THEN 0 ELSE Some(s) + f[s \ {Some(s)}]]

LEMMA SomeOf == \A s : s # {} => Some(s) \in s
  BY DEF Some

\* The sum of a set is the value of such a function, if there is one.
LEMMA SumFold ==
  ASSUME NEW T, NEW f, f = SumFrom(f, T)
  PROVE  \E it : it = SumFrom(it, T) /\ S!SumSet(T) = it[T]
  BY DEF S!SumSet, S!FoldSet, S!MapThenFoldSet, SumFrom, Some

\* Such a function has a number for every set.
LEMMA SumStays ==
  ASSUME NEW T \in SUBSET Nat, IsFiniteSet(T), NEW f, f = SumFrom(f, T)
  PROVE  \A s \in SUBSET T : f[s] \in Nat
  <1> DEFINE B == {Cardinality(s) : s \in {r \in SUBSET T : f[r] \notin Nat}}
  <1>0. \A s \in SUBSET T : IsFiniteSet(s) /\ Cardinality(s) \in Nat
    BY FS_Subset, FS_CardinalityType
  <1>1. SUFFICES ASSUME B # {} PROVE FALSE
    OBVIOUS
  <1>2. PICK n \in B : \A m \in B : n <= m
    <2>1. B \in SUBSET Nat
      BY <1>0
    <2> HIDE DEF B
    <2> QED BY <1>1, <2>1, LeastNat
  <1>3. PICK s \in SUBSET T : f[s] \notin Nat /\ Cardinality(s) = n
    BY <1>2
  <1>4. f[s] = IF s = {} THEN 0 ELSE Some(s) + f[s \ {Some(s)}]
    BY DEF SumFrom
  <1>5. s # {}
    BY <1>3, <1>4
  <1>6. PICK x : x = Some(s) /\ x \in s
    BY <1>5, SomeOf
  <1>7. PICK r : r = s \ {x}
    OBVIOUS
  <1>8. r \in SUBSET T /\ Cardinality(r) = Cardinality(s) - 1
    BY <1>0, <1>6, <1>7, FS_RemoveElement
  <1>9. f[r] \in Nat
    <2>1. Cardinality(r) \notin B
      <3> HIDE DEF B
      <3> QED BY <1>0, <1>2, <1>3, <1>8
    <2> QED BY <1>8, <2>1
  <1> QED BY <1>3, <1>4, <1>5, <1>6, <1>7, <1>9

\* There is one for every finite set: it grows with the cardinality of its domain.
LEMMA SumExists ==
  ASSUME NEW T \in SUBSET Nat, IsFiniteSet(T)
  PROVE  \E f : f = SumFrom(f, T)
  <1> DEFINE D(k) == {s \in SUBSET T : Cardinality(s) <= k}
             Upto(k, f) == /\ f \in [D(k) -> Nat]
                           /\ \A s \in D(k) :
                                 f[s] = IF s = {} THEN 0 ELSE Some(s) + f[s \ {Some(s)}]
             B == {k \in Nat : ~ \E f : Upto(k, f)}
  <1>0. \A s \in SUBSET T : IsFiniteSet(s) /\ Cardinality(s) \in Nat
    BY FS_Subset, FS_CardinalityType
  <1>1. \A k \in Nat, s \in SUBSET T : s # {} /\ s \in D(k + 1) => s \ {Some(s)} \in D(k)
    <2>1. ASSUME NEW k \in Nat, NEW s \in SUBSET T, s # {}, s \in D(k + 1)
          PROVE  s \ {Some(s)} \in D(k)
      <3>1. PICK r : r = s \ {Some(s)}
        OBVIOUS
      <3>2. r \in SUBSET T /\ Cardinality(r) = Cardinality(s) - 1
        BY <1>0, <2>1, <3>1, SomeOf, FS_RemoveElement
      <3>3. Cardinality(s) <= k + 1 /\ Cardinality(s) \in Nat
        BY <1>0, <2>1
      <3>4. Cardinality(r) <= k
        BY <3>2, <3>3
      <3> QED BY <3>1, <3>2, <3>4
    <2> QED BY <2>1
  <1>2. \A s \in D(0) : s = {}
    <2>1. ASSUME NEW s \in SUBSET T, Cardinality(s) <= 0 PROVE s = {}
      BY <1>0, <2>1, FS_EmptySet
    <2> QED BY <2>1
  <1>3. 0 \notin B
    <2>1. PICK f : f = [s \in D(0) |-> 0]
      OBVIOUS
    <2>2. Upto(0, f)
      BY <1>2, <2>1
    <2> HIDE DEF Upto
    <2> QED BY <2>2
  <1>4. ASSUME NEW k \in Nat, k \notin B PROVE k + 1 \notin B
    <2>1. PICK f : Upto(k, f)
      BY <1>4
    <2>2. PICK h : h = [s \in D(k + 1) |-> IF s = {} THEN 0 ELSE Some(s) + f[s \ {Some(s)}]]
      OBVIOUS
    <2>3. \A s \in D(k) : s \in D(k + 1)
      BY <1>0
    <2>4. \A s \in D(k) : h[s] = f[s]
      BY <2>1, <2>2, <2>3
    <2>5. \A s \in D(k + 1) : h[s] \in Nat
      <3>1. ASSUME NEW s \in D(k + 1) PROVE h[s] \in Nat
        <4>1. CASE s = {}
          BY <2>2, <4>1
        <4>2. CASE s # {}
          <5>1. Some(s) \in Nat
            BY <4>2, SomeOf
          <5>2. f[s \ {Some(s)}] \in Nat
            BY <1>1, <2>1, <4>2
          <5> QED BY <2>2, <4>2, <5>1, <5>2
        <4> QED BY <4>1, <4>2
      <3> QED BY <3>1
    <2>6. \A s \in D(k + 1) : h[s] = IF s = {} THEN 0 ELSE Some(s) + h[s \ {Some(s)}]
      <3>1. ASSUME NEW s \in D(k + 1), s # {} PROVE h[s \ {Some(s)}] = f[s \ {Some(s)}]
        <4>1. s \ {Some(s)} \in D(k)
          BY <1>1, <3>1
        <4> HIDE DEF D
        <4> QED BY <2>4, <4>1
      <3> HIDE DEF D
      <3> QED BY <2>2, <3>1
    <2>7. h \in [D(k + 1) -> Nat]
      <3> HIDE DEF D
      <3> QED BY <2>2, <2>5
    <2>8. Upto(k + 1, h)
      BY <2>6, <2>7
    <2> HIDE DEF Upto
    <2> QED BY <2>8
  <1>5. B = {}
    <2> HIDE DEF B
    <2>1. SUFFICES ASSUME B # {} PROVE FALSE
      OBVIOUS
    <2>2. PICK n \in B : \A m \in B : n <= m
      <3>1. B \in SUBSET Nat
        BY DEF B
      <3> QED BY <2>1, <3>1, LeastNat
    <2>3. n \in Nat /\ n # 0
      BY <1>3 DEF B
    <2>4. n - 1 \in Nat /\ (n - 1) + 1 = n /\ n - 1 \notin B
      BY <2>2, <2>3
    <2> QED BY <1>4, <2>4
  <1>6. PICK n : n = Cardinality(T) /\ n \in Nat
    BY <1>0
  <1>7. PICK f : Upto(n, f)
    <2> HIDE DEF Upto
    <2> QED BY <1>5, <1>6
  <1>8. D(n) = SUBSET T
    <2>1. \A s \in SUBSET T : Cardinality(s) <= n
      BY <1>6, FS_Subset
    <2> QED BY <2>1
  <1>9. f = SumFrom(f, T)
    <2>1. f \in [SUBSET T -> Nat]
      BY <1>7, <1>8
    <2>2. \A s \in SUBSET T : f[s] = IF s = {} THEN 0 ELSE Some(s) + f[s \ {Some(s)}]
      BY <1>7, <1>8
    <2> QED BY <2>1, <2>2 DEF SumFrom
  <1> QED BY <1>9

\* The timestamp of a decimated row is a number.
LEMMA MeanNat ==
  ASSUME NEW g \in SUBSET Nat, IsFiniteSet(g), g # {}
  PROVE  S!Mean(g) \in Nat
  <1>1. PICK f : f = SumFrom(f, g)
    BY SumExists
  <1>2. PICK it : it = SumFrom(it, g) /\ S!SumSet(g) = it[g]
    BY <1>1, SumFold
  <1>3. S!SumSet(g) \in Nat
    BY <1>2, SumStays
  <1>4. S!Cardinality(g) \in Nat \ {0}
    BY SameCardinality, FS_CardinalityType, FS_EmptySet
  <1> QED BY <1>3, <1>4 DEF S!Mean

-----------------------------------------------------------------------------
(* What the Decimator makes of timestamps *)

\* Sets of timestamps are finite sets of numbers.
LEMMA TimesFinite == \A T \in SUBSET S!Times : T \in SUBSET Nat /\ IsFiniteSet(T)
  <1>1. IsFiniteSet(S!Times) /\ S!Times \in SUBSET Nat
    BY StoreConstants, FS_Interval DEF S!Times
  <1> QED BY <1>1, FS_Subset

\* Whole groups of f in m rows.
LEMMA WholeGroups ==
  ASSUME NEW m \in Nat, NEW f \in Nat \ {0}
  PROVE  m \div f \in Nat /\ (m \div f) * f <= m
  OBVIOUS

LEMMA ProductNat == \A x, y \in Nat : x * y \in Nat
  OBVIOUS

\* The rows of a group are rows of the buffer.
LEMMA GroupsWithin ==
  ASSUME NEW m \in Nat, NEW k \in 1..(m \div Factor), NEW i \in ((k - 1) * Factor + 1)..(k * Factor)
  PROVE  i \in 1..m
  <1>1. PICK f : f = Factor /\ f \in Nat \ {0}
    BY StoreConstants
  <1>2. PICK n : n = m \div f /\ n \in Nat /\ n * f <= m
    BY <1>1, WholeGroups
  <1>3. k \in 1..n
    BY <1>1, <1>2
  <1>4. PICK c, d : c = k - 1 /\ d = n - k /\ c \in Nat /\ d \in Nat
    BY <1>2, <1>3
  <1>5. c * f \in Nat /\ d * f \in Nat /\ k * f \in Nat
    BY <1>1, <1>3, <1>4, ProductNat
  <1>6. n * f = k * f + d * f
    BY <1>1, <1>2, <1>3, <1>4
  <1>7. i \in (c * f + 1)..(k * f)
    BY <1>1, <1>4
  <1>8. k * f <= m
    BY <1>2, <1>5, <1>6
  <1> QED BY <1>5, <1>7, <1>8

\* A group is a set of timestamps with a member, and the rest are timestamps.
LEMMA DecimateTyped ==
  ASSUME NEW b \in Seq(S!Times), NEW w \in Seq(S!Times)
  PROVE  /\ S!Decimate(b, w).rest \in Seq(S!Times)
         /\ S!Decimate(b, w).groups \in SUBSET ((SUBSET S!Times) \ {{}})
  <1> DEFINE all == b \o w
             n == Len(all) \div Factor
             g(k) == {all[i] : i \in ((k - 1) * Factor + 1)..(k * Factor)}
  <1>1. all \in Seq(S!Times) /\ Len(all) \in Nat /\ \A i \in 1..Len(all) : all[i] \in S!Times
    <2>1. all \in Seq(S!Times)
      BY ConcatProperties
    <2> HIDE DEF all
    <2> QED BY <2>1, LenProperties, ElementOfSeq
  <1>2. S!Decimate(b, w) = [groups |-> {g(k) : k \in 1..n}, rest |-> SubSeq(all, n * Factor + 1, Len(all))]
    BY DEF S!Decimate
  <1> HIDE DEF all
  <1>3. n \in Nat /\ n * Factor + 1 \in Nat \ {0}
    <2>1. n \in Nat /\ Factor \in Nat
      BY <1>1, StoreConstants, WholeGroups
    <2>2. n * Factor \in Nat
      <3> HIDE DEF n
      <3> QED BY <2>1, ProductNat
    <2> HIDE DEF n
    <2> QED BY <2>1, <2>2
  <1>4. SubSeq(all, n * Factor + 1, Len(all)) \in Seq(S!Times)
    <2>1. PICK m \in Nat \ {0} : m = n * Factor + 1
      BY <1>3
    <2>2. \A i \in m..Len(all) : all[i] \in S!Times
      BY <1>1, <2>1
    <2> QED BY <1>1, <2>1, <2>2, SubSeqProperties
  <1>5. ASSUME NEW k \in 1..n PROVE g(k) \in (SUBSET S!Times) \ {{}}
    <2>1. \A i \in ((k - 1) * Factor + 1)..(k * Factor) : i \in 1..Len(all)
      BY <1>1, <1>5, GroupsWithin
    <2>2. \A i \in ((k - 1) * Factor + 1)..(k * Factor) : all[i] \in S!Times
      BY <1>1, <2>1
    <2>3. k * Factor \in ((k - 1) * Factor + 1)..(k * Factor)
      BY <1>3, <1>5, StoreConstants
    <2> QED BY <2>2, <2>3
  <1> HIDE DEF n, g
  <1>6. {g(k) : k \in 1..n} \in SUBSET ((SUBSET S!Times) \ {{}})
    BY <1>5
  <1> QED BY <1>2, <1>4, <1>6

-----------------------------------------------------------------------------
(* What a read has passed to its reader, and where it goes on *)

Over(bs) == \E i \in 1..Len(bs) : Len(bs[i]) = BlockSize /\ bs[i][Len(bs[i])] = 0

InOrder(bs) ==
    \A i, j \in 1..Len(bs) : \A k \in 1..Len(bs[i]), l \in 1..Len(bs[j]) :
        (i < j \/ (i = j /\ k < l)) /\ bs[i][k] # 0 /\ bs[j][l] # 0 => bs[i][k] < bs[j][l]

\* The rows passed on are before s.
Below(bs, s) == \A i \in 1..Len(bs) : \A k \in 1..Len(bs[i]) : bs[i][k] # 0 => bs[i][k] < s

\* The ends of the intervals rise; only the last may be open.
EndsRise(es) ==
    \A k, l \in 1..Len(es) : k < l => es[k] # 0 /\ (es[k] <= es[l] \/ (l = Len(es) /\ es[l] = 0))

\* The read goes on before the ends to come.  A request that begins after the
\* rows has its end before its start, and passes nothing on.
Onward(y, bs) ==
    \A k \in y.i..Len(y.ends) :
        y.s <= y.ends[k] \/ (k = Len(y.ends) /\ (y.ends[k] = 0 \/ bs = <<>>))

IsScan(y) ==
    /\ y = [pc |-> y.pc, kind |-> y.kind, level |-> y.level, req |-> y.req, s |-> y.s,
            ends |-> y.ends, i |-> y.i, blocks |-> y.blocks, buf |-> y.buf,
            made |-> y.made, dirty |-> y.dirty]
    /\ y.s \in Nat /\ y.ends \in Seq(Nat) /\ y.i \in Nat \ {0} /\ y.blocks \in Seq(Seq(Nat))
    /\ y.buf \in Seq(S!Times)
    /\ y.kind = "decimate" => y.level = 1

Good(y) ==
    /\ IsScan(y)
    /\ y.pc = "list" => y.blocks = <<>> /\ y.i = 1 /\ Len(y.ends) = 1
    /\ y.pc = "block" => y.i <= Len(y.ends) /\ EndsRise(y.ends)
    /\ ~Over(y.blocks) =>
          InOrder(y.blocks) /\ (y.pc = "block" => Below(y.blocks, y.s) /\ Onward(y, y.blocks))

\* The part of the invariant that is the property.
LEMMA InOrderReads == Good(scan) => ReadsInOrder
  BY DEF Good, ReadsInOrder, Overfull, Over, InOrder, Last, Token

\* Min and Max of the instance.
LEMMA LeastIn ==
  ASSUME NEW T \in SUBSET Nat, T # {}
  PROVE  S!Min(T) \in T /\ \A m \in T : S!Min(T) <= m
  BY LeastNat DEF S!Min

LEMMA GreatestIn ==
  ASSUME NEW T \in SUBSET Nat, T # {}, IsFiniteSet(T)
  PROVE  S!Max(T) \in T /\ \A m \in T : m <= S!Max(T)
  <1>1. PICK t \in T : \A u \in T : u <= t
    BY GreatestNat
  <1>2. \A u \in T : t >= u
    BY <1>1
  <1>3. S!Max(T) \in T /\ \A u \in T : S!Max(T) >= u
    BY <1>2 DEF S!Max
  <1> QED BY <1>3

\* The next interval that is not empty.
LEMMA NextIntervalGood ==
  ASSUME NEW y, IsScan(y), EndsRise(y.ends), y.pc = "list" => y.blocks = <<>>,
         ~Over(y.blocks) => InOrder(y.blocks),
         ~Over(y.blocks) /\ y.i <= Len(y.ends) => Below(y.blocks, y.s) /\ Onward(y, y.blocks)
  PROVE  Good(S!NextInterval(y))
  <1>1. PICK left : left = {k \in y.i..Len(y.ends) : y.ends[k] # y.s}
    OBVIOUS
  <1>2. y.i \in Nat \ {0} /\ Len(y.ends) \in Nat
    BY DEF IsScan
  <1>3. CASE left = {}
    <2>1. PICK z : z = [y EXCEPT !.pc = "done"]
      OBVIOUS
    <2>2. S!NextInterval(y) = z
      BY <1>1, <1>3, <2>1 DEF S!NextInterval
    <2>3. z.pc = "done" /\ z.blocks = y.blocks /\ IsScan(z)
      BY <2>1 DEF IsScan
    <2> QED BY <2>2, <2>3 DEF Good
  <1>4. CASE left # {}
    <2>1. left \in SUBSET Nat
      BY <1>1, <1>2
    <2>2. PICK m : m = S!Min(left) /\ m \in left
      BY <1>4, <2>1, LeastIn
    <2>3. PICK z : z = [y EXCEPT !.pc = "block", !.i = m]
      OBVIOUS
    <2>4. S!NextInterval(y) = z
      BY <1>1, <1>4, <2>2, <2>3 DEF S!NextInterval
    <2>5. m \in y.i..Len(y.ends)
      BY <1>1, <2>2
    <2>6. /\ z.pc = "block" /\ z.blocks = y.blocks /\ z.s = y.s /\ z.ends = y.ends /\ z.i = m
          /\ IsScan(z)
      <3>1. z = [pc |-> "block", kind |-> y.kind, level |-> y.level, req |-> y.req, s |-> y.s,
                 ends |-> y.ends, i |-> m, blocks |-> y.blocks, buf |-> y.buf,
                 made |-> y.made, dirty |-> y.dirty]
        BY <2>3 DEF IsScan
      <3>2. m \in Nat \ {0}
        BY <1>2, <2>5
      <3> QED BY <3>1, <3>2 DEF IsScan
    <2>7. ~Over(z.blocks) => InOrder(z.blocks) /\ Below(z.blocks, z.s) /\ Onward(z, z.blocks)
      BY <1>2, <2>5, <2>6 DEF Onward
    <2> QED BY <1>2, <2>4, <2>5, <2>6, <2>7 DEF Good
  <1> QED BY <1>3, <1>4

\* The rows a query found for a block.
Found(y, hit) ==
    /\ hit \in Seq(Nat) /\ Len(hit) <= BlockSize /\ Rising(hit)
    /\ \A k \in 1..Len(hit) : y.s <= hit[k] /\ (y.ends[y.i] = 0 \/ hit[k] < y.ends[y.i])

\* The block made of them.
BlockOf(y, hit) ==
    IF Len(hit) < BlockSize /\ y.i < Len(y.ends) THEN Append(hit, 0) ELSE hit

\* A block is its rows, with a token behind them or without.
LEMMA BlockTyped ==
  ASSUME NEW y, NEW hit \in Seq(Nat), Len(hit) <= BlockSize, NEW b, b = BlockOf(y, hit)
  PROVE  /\ b \in Seq(Nat) /\ Len(b) \in Nat /\ Len(hit) \in Nat /\ Len(b) <= BlockSize
         /\ \A k \in 1..Len(b) : b[k] \in Nat
         /\ \A k \in 1..Len(b) : b[k] # 0 => k \in 1..Len(hit) /\ b[k] = hit[k]
         /\ b = hit \/ (b[Len(b)] = 0 /\ b = Append(hit, 0) /\ b # <<>>)
  <1>1. Len(hit) \in Nat /\ BlockSize \in Nat
    BY StoreConstants
  <1>2. CASE Len(hit) < BlockSize /\ y.i < Len(y.ends)
    <2>1. b = Append(hit, 0)
      BY <1>2 DEF BlockOf
    <2>2. /\ b \in Seq(Nat) /\ Len(b) = Len(hit) + 1 /\ b # <<>>
          /\ \A k \in 1..Len(hit) : b[k] = hit[k]
          /\ b[Len(hit) + 1] = 0
      BY <2>1, AppendProperties
    <2> QED BY <1>1, <1>2, <2>1, <2>2, ElementOfSeq
  <1>3. CASE ~(Len(hit) < BlockSize /\ y.i < Len(y.ends))
    BY <1>1, <1>3, ElementOfSeq DEF BlockOf
  <1> QED BY <1>2, <1>3

\* A block passed on after others.
LEMMA BlockAppended ==
  ASSUME NEW bs \in Seq(Seq(Nat)), NEW b \in Seq(Nat), NEW cs, cs = Append(bs, b)
  PROVE  /\ cs \in Seq(Seq(Nat)) /\ Len(cs) = Len(bs) + 1 /\ Len(bs) \in Nat /\ cs[Len(cs)] = b
         /\ \A i \in 1..Len(bs) : cs[i] = bs[i]
         /\ ~Over(cs) => ~Over(bs) /\ ~(Len(b) = BlockSize /\ b[Len(b)] = 0)
  <1>1. /\ cs \in Seq(Seq(Nat)) /\ Len(cs) = Len(bs) + 1 /\ Len(bs) \in Nat /\ cs[Len(cs)] = b
        /\ \A i \in 1..Len(bs) : cs[i] = bs[i]
    BY AppendProperties, LenProperties
  <1>2. Len(cs) \in 1..Len(cs) /\ \A i \in 1..Len(bs) : i \in 1..Len(cs)
    BY <1>1
  <1> QED BY <1>1, <1>2 DEF Over

\* A block keeps what was passed on in order.
LEMMA BlockInOrder ==
  ASSUME NEW y, NEW bs \in Seq(Seq(Nat)), y.s \in Nat, InOrder(bs), Below(bs, y.s),
         NEW hit, Found(y, hit), NEW b, b = BlockOf(y, hit), NEW cs, cs = Append(bs, b)
  PROVE  InOrder(cs)
  <1>0. hit \in Seq(Nat) /\ Len(hit) <= BlockSize
    BY DEF Found
  <1>1. /\ b \in Seq(Nat) /\ Len(b) \in Nat /\ Len(hit) \in Nat
        /\ \A k \in 1..Len(b) : b[k] \in Nat
        /\ \A k \in 1..Len(b) : b[k] # 0 => k \in 1..Len(hit) /\ b[k] = hit[k]
    BY <1>0, BlockTyped
  <1>2. /\ cs \in Seq(Seq(Nat)) /\ Len(cs) = Len(bs) + 1 /\ Len(bs) \in Nat /\ cs[Len(cs)] = b
        /\ \A i \in 1..Len(bs) : cs[i] = bs[i]
    BY <1>1, BlockAppended
  <1>4. ASSUME NEW i \in 1..Len(cs), NEW j \in 1..Len(cs),
               NEW k \in 1..Len(cs[i]), NEW l \in 1..Len(cs[j]),
               (i < j \/ (i = j /\ k < l)) /\ cs[i][k] # 0 /\ cs[j][l] # 0
        PROVE  cs[i][k] < cs[j][l]
    <2>1. CASE j # Len(cs)
      <3>1. i \in 1..Len(bs) /\ j \in 1..Len(bs)
        BY <1>2, <1>4, <2>1
      <3>2. cs[i] = bs[i] /\ cs[j] = bs[j]
        BY <1>2, <3>1
      <3>3. k \in 1..Len(bs[i]) /\ l \in 1..Len(bs[j])
        BY <3>2
      <3> QED BY <1>4, <3>1, <3>2, <3>3 DEF InOrder
    <2>2. CASE j = Len(cs)
      <3>1. cs[j] = b /\ l \in 1..Len(b)
        BY <1>2, <2>2
      <3>2. l \in 1..Len(hit) /\ b[l] = hit[l]
        BY <1>1, <1>4, <3>1
      <3>3. CASE i = j
        <4>1. cs[i] = b /\ k \in 1..Len(b) /\ k < l
          BY <1>2, <1>4, <2>2, <3>3
        <4>2. k \in 1..Len(hit) /\ b[k] = hit[k]
          BY <1>1, <1>4, <4>1
        <4> QED BY <3>1, <3>2, <4>1, <4>2 DEF Found, Rising
      <3>4. CASE i # j
        <4>1. i \in 1..Len(bs) /\ cs[i] = bs[i]
          BY <1>2, <1>4, <2>2, <3>4
        <4>2. k \in 1..Len(bs[i])
          BY <4>1
        <4>3. bs[i][k] < y.s
          BY <1>4, <4>1, <4>2 DEF Below
        <4>4. bs[i] \in Seq(Nat)
          BY <4>1, ElementOfSeq
        <4>5. bs[i][k] \in Nat
          BY <4>2, <4>4, ElementOfSeq
        <4>6. y.s <= hit[l] /\ hit[l] \in Nat
          BY <3>2, <1>0, ElementOfSeq DEF Found
        <4>7. PICK n, t, u : n = y.s /\ t = bs[i][k] /\ u = hit[l]
          OBVIOUS
        <4>8. n \in Nat /\ t \in Nat /\ u \in Nat /\ t < n /\ n <= u
          BY <4>3, <4>5, <4>6, <4>7
        <4>9. cs[i][k] = t /\ cs[j][l] = u
          BY <3>1, <3>2, <4>1, <4>7
        <4> QED BY <4>8, <4>9
      <3> QED BY <3>3, <3>4
    <2> QED BY <2>1, <2>2
  <1>5. ASSUME NEW i \in 1..Len(cs), NEW j \in 1..Len(cs)
        PROVE  \A k \in 1..Len(cs[i]), l \in 1..Len(cs[j]) :
                  (i < j \/ (i = j /\ k < l)) /\ cs[i][k] # 0 /\ cs[j][l] # 0
                  => cs[i][k] < cs[j][l]
    <2>1. TAKE k \in 1..Len(cs[i]), l \in 1..Len(cs[j])
    <2>2. HAVE (i < j \/ (i = j /\ k < l)) /\ cs[i][k] # 0 /\ cs[j][l] # 0
    <2> QED BY <1>4, <2>2
  <1> QED BY <1>5, Zenon DEF InOrder

\* The read y has made block b of the rows hit, after the blocks bs.
AtBlock(y, bs, hit, b) ==
    /\ IsScan(y) /\ y.pc = "block" /\ y.i <= Len(y.ends) /\ EndsRise(y.ends)
    /\ Found(y, hit) /\ b = BlockOf(y, hit) /\ y.blocks = IF b = <<>> THEN bs ELSE Append(bs, b)
    /\ ~Over(bs) => InOrder(bs) /\ Below(bs, y.s) /\ Onward(y, bs)

\* After a block the read goes on beyond its rows.
LEMMA AfterBlockGood ==
  ASSUME NEW y, NEW bs \in Seq(Seq(Nat)), NEW hit, NEW b, AtBlock(y, bs, hit, b)
  PROVE  Good(S!AfterBlock(y, b))
  <1>a. IsScan(y) /\ y.pc = "block" /\ y.i <= Len(y.ends) /\ EndsRise(y.ends)
    BY DEF AtBlock
  <1>b. Found(y, hit) /\ b = BlockOf(y, hit)
    BY DEF AtBlock
  <1>c. y.blocks = IF b = <<>> THEN bs ELSE Append(bs, b)
    BY DEF AtBlock
  <1>d. ~Over(bs) => InOrder(bs) /\ Below(bs, y.s) /\ Onward(y, bs)
    BY DEF AtBlock
  <1>0. hit \in Seq(Nat) /\ Len(hit) <= BlockSize /\ Len(hit) \in Nat
    BY <1>b, LenProperties DEF Found
  <1>1. /\ b \in Seq(Nat) /\ Len(b) \in Nat /\ Len(b) <= BlockSize
        /\ \A k \in 1..Len(b) : b[k] \in Nat
        /\ \A k \in 1..Len(b) : b[k] # 0 => k \in 1..Len(hit) /\ b[k] = hit[k]
        /\ b = hit \/ (b[Len(b)] = 0 /\ b = Append(hit, 0) /\ b # <<>>)
    BY <1>0, <1>b, BlockTyped
  <1>2. /\ y.i \in Nat \ {0} /\ Len(y.ends) \in Nat /\ y.i \in 1..Len(y.ends)
        /\ y.s \in Nat /\ \A k \in 1..Len(y.ends) : y.ends[k] \in Nat
        /\ y.blocks \in Seq(Seq(Nat))
    BY <1>a, LenProperties, ElementOfSeq DEF IsScan
  <1>3. ASSUME ~Over(y.blocks)
        PROVE  /\ ~Over(bs) /\ InOrder(y.blocks)
               /\ \A k \in 1..Len(y.blocks) :
                     y.blocks[k] = b \/ (k \in 1..Len(bs) /\ y.blocks[k] = bs[k])
               /\ ~(Len(b) = BlockSize /\ b[Len(b)] = 0)
    <2>1. CASE b = <<>>
      <3>1. Len(b) # BlockSize
        BY <2>1, StoreConstants
      <3>2. y.blocks = bs
        BY <1>c, <2>1
      <3> QED BY <1>3, <1>d, <3>1, <3>2
    <2>2. CASE b # <<>>
      <3>1. PICK cs : cs = Append(bs, b) /\ y.blocks = cs
        BY <1>c, <2>2
      <3>2. /\ Len(cs) = Len(bs) + 1 /\ Len(bs) \in Nat /\ cs[Len(cs)] = b
            /\ \A i \in 1..Len(bs) : cs[i] = bs[i]
            /\ ~Over(cs) => ~Over(bs) /\ ~(Len(b) = BlockSize /\ b[Len(b)] = 0)
        <4>1. b \in Seq(Nat) /\ cs = Append(bs, b)
          BY <1>1, <3>1
        <4>2. /\ Len(cs) = Len(bs) + 1 /\ Len(bs) \in Nat /\ cs[Len(cs)] = b
              /\ \A i \in 1..Len(bs) : cs[i] = bs[i]
          BY <4>1, BlockAppended
        <4>3. ~Over(cs) => ~Over(bs) /\ ~(Len(b) = BlockSize /\ b[Len(b)] = 0)
          BY <4>1, BlockAppended
        <4> QED BY <4>2, <4>3
      <3>3. ~Over(bs) /\ ~(Len(b) = BlockSize /\ b[Len(b)] = 0)
        BY <1>3, <3>1, <3>2
      <3>4. InOrder(cs)
        <4>1. InOrder(bs) /\ Below(bs, y.s) /\ y.s \in Nat
          BY <1>2, <1>d, <3>3
        <4> QED BY <1>b, <3>1, <4>1, BlockInOrder
      <3>5. \A k \in 1..Len(y.blocks) : k = Len(y.blocks) \/ k \in 1..Len(bs)
        BY <3>1, <3>2
      <3> QED BY <3>1, <3>2, <3>3, <3>4, <3>5
    <2> QED BY <2>1, <2>2
  \* What was passed on is before every number the rows of the block are before.
  <1>4. ASSUME ~Over(y.blocks), NEW n \in Nat, y.s <= n,
               \A k \in 1..Len(hit) : hit[k] < n
        PROVE  Below(y.blocks, n)
    <2>1. SUFFICES ASSUME NEW i \in 1..Len(y.blocks), NEW k \in 1..Len(y.blocks[i]),
                          y.blocks[i][k] # 0
                   PROVE  y.blocks[i][k] < n
      BY DEF Below
    <2>2. CASE y.blocks[i] = b
      BY <1>1, <1>4, <2>1, <2>2
    <2>3. CASE i \in 1..Len(bs) /\ y.blocks[i] = bs[i]
      <3>1. Below(bs, y.s)
        BY <1>3, <1>4, <1>d
      <3>2. k \in 1..Len(bs[i]) /\ bs[i][k] # 0
        BY <2>1, <2>3
      <3>3. bs[i][k] < y.s
        BY <2>3, <3>1, <3>2 DEF Below
      <3>4. bs[i][k] \in Nat
        BY <2>3, <3>2, ElementOfSeq
      <3>5. PICK t, u : t = bs[i][k] /\ u = y.s /\ t \in Nat /\ u \in Nat
        BY <1>2, <3>4
      <3>6. t < n
        BY <1>4, <3>3, <3>5
      <3> QED BY <2>3, <3>5, <3>6
    <2> QED BY <1>3, <1>4, <2>2, <2>3
  <1>5. CASE Len(b) < BlockSize
    <2>1. PICK z : z = [y EXCEPT !.s = y.ends[y.i], !.i = @ + 1]
      OBVIOUS
    <2>2. S!AfterBlock(y, b) = S!NextInterval(z)
      BY <1>5, <2>1 DEF S!AfterBlock
    <2>3. z = [pc |-> y.pc, kind |-> y.kind, level |-> y.level, req |-> y.req,
               s |-> y.ends[y.i], ends |-> y.ends, i |-> y.i + 1, blocks |-> y.blocks,
               buf |-> y.buf, made |-> y.made, dirty |-> y.dirty]
      BY <1>a, <2>1 DEF IsScan
    <2>4. IsScan(z)
      <3>1. y.ends[y.i] \in Nat /\ y.i + 1 \in Nat \ {0}
        BY <1>2
      <3> QED BY <1>a, <2>3, <3>1 DEF IsScan
    <2>5. ASSUME ~Over(y.blocks), y.i + 1 <= Len(y.ends)
          PROVE  Below(y.blocks, y.ends[y.i]) /\ Onward(z, y.blocks)
      <3>1. PICK e : e = y.ends[y.i] /\ e \in Nat
        BY <1>2
      <3>2. PICK j : j = y.i + 1 /\ j \in 1..Len(y.ends) /\ y.i < j
        <4>1. PICK m, n : m = y.i /\ n = Len(y.ends) /\ m \in Nat \ {0} /\ n \in Nat
          BY <1>2
        <4>2. m + 1 <= n
          BY <2>5, <4>1
        <4>3. m + 1 \in 1..n /\ m < m + 1
          BY <4>1, <4>2
        <4> QED BY <4>1, <4>3, Zenon
      <3>3. e # 0
        BY <1>a, <1>2, <3>1, <3>2 DEF EndsRise
      <3>4. y.s <= e
        <4>1. Onward(y, bs)
          BY <1>3, <1>d, <2>5
        <4>2. y.i \in y.i..Len(y.ends) /\ y.i # Len(y.ends)
          BY <1>2, <2>5
        <4> QED BY <3>1, <4>1, <4>2 DEF Onward
      <3>5. \A k \in 1..Len(hit) : hit[k] < e
        BY <1>b, <3>1, <3>3 DEF Found
      <3>6. Below(y.blocks, e)
        BY <1>4, <2>5, <3>1, <3>4, <3>5
      <3>7. \A k \in (y.i + 1)..Len(y.ends) :
               e <= y.ends[k] \/ (k = Len(y.ends) /\ y.ends[k] = 0)
        <4>1. \A k \in (y.i + 1)..Len(y.ends) : k \in 1..Len(y.ends) /\ y.i < k
          BY <1>2
        <4> QED BY <1>a, <1>2, <3>1, <4>1 DEF EndsRise
      <3> QED BY <2>3, <3>1, <3>6, <3>7 DEF Onward
    <2>6. z.pc = "block" /\ z.blocks = y.blocks /\ z.ends = y.ends /\ z.s = y.ends[y.i] /\ z.i = y.i + 1
      BY <1>a, <2>3
    <2> QED BY <1>a, <1>3, <2>2, <2>4, <2>5, <2>6, NextIntervalGood
  <1>6. CASE ~(Len(b) < BlockSize)
    <2>0. BlockSize \in Nat \ {0} /\ Len(b) = BlockSize /\ Len(b) \in 1..Len(b)
      BY <1>1, <1>6, StoreConstants
    <2>1. PICK t : t = b[Len(b)] /\ t \in Nat
      BY <1>1, <2>0
    <2>2. PICK z : z = [y EXCEPT !.s = t + 1]
      OBVIOUS
    <2>3. S!AfterBlock(y, b) = z
      BY <1>6, <2>1, <2>2 DEF S!AfterBlock, S!Last
    <2>4. z = [pc |-> y.pc, kind |-> y.kind, level |-> y.level, req |-> y.req,
               s |-> t + 1, ends |-> y.ends, i |-> y.i, blocks |-> y.blocks,
               buf |-> y.buf, made |-> y.made, dirty |-> y.dirty]
      BY <1>a, <2>2 DEF IsScan
    <2>5. IsScan(z)
      <3>1. t + 1 \in Nat
        BY <2>1
      <3> QED BY <1>a, <2>4, <3>1 DEF IsScan
    <2>6. ASSUME ~Over(y.blocks)
          PROVE  Below(y.blocks, t + 1) /\ Onward(z, y.blocks)
      <3>1. t # 0 /\ b = hit /\ Len(hit) = BlockSize
        BY <1>1, <1>3, <2>0, <2>1, <2>6
      <3>2. \A k \in 1..Len(hit) : hit[k] \in Nat /\ hit[k] <= t
        <4>1. PICK n : n = Len(hit) /\ n \in 1..Len(hit) /\ hit[n] = t
          BY <2>0, <2>1, <3>1
        <4>2. Rising(hit) /\ \A k \in 1..Len(hit) : hit[k] \in Nat
          BY <1>0, <1>b, ElementOfSeq DEF Found
        <4>3. ASSUME NEW k \in 1..Len(hit) PROVE hit[k] <= t
          <5>1. k = n \/ k < n
            BY <1>0, <4>1
          <5>2. hit[k] = hit[n] \/ hit[k] < hit[n]
            BY <4>1, <4>2, <5>1 DEF Rising
          <5> QED BY <4>1, <4>2, <5>2
        <4> QED BY <4>2, <4>3
      <3>3. y.s <= t /\ (y.ends[y.i] = 0 \/ t < y.ends[y.i])
        BY <1>b, <2>0, <2>1, <3>1 DEF Found
      <3>4. Below(y.blocks, t + 1)
        <4>1. t + 1 \in Nat /\ y.s <= t + 1 /\ \A k \in 1..Len(hit) : hit[k] < t + 1
          BY <1>2, <2>1, <3>2, <3>3
        <4> QED BY <1>4, <2>6, <4>1
      <3>5. ASSUME NEW k \in y.i..Len(y.ends)
            PROVE  t + 1 <= y.ends[k] \/ (k = Len(y.ends) /\ y.ends[k] = 0)
        <4>1. PICK e, f : e = y.ends[y.i] /\ f = y.ends[k] /\ e \in Nat /\ f \in Nat
          <5>1. k \in 1..Len(y.ends)
            BY <1>2, <3>5
          <5>2. y.ends[y.i] \in Nat /\ y.ends[k] \in Nat
            BY <1>2, <5>1
          <5> QED BY <5>2
        <4>2. k = y.i \/ (y.i < k /\ k \in 1..Len(y.ends))
          BY <1>2, <3>5
        <4>3. CASE y.i = Len(y.ends)
          BY <1>2, <2>1, <3>3, <3>5, <4>1, <4>2, <4>3
        <4>4. CASE y.i # Len(y.ends)
          <5>1. e # 0
            <6>1. Len(y.ends) \in 1..Len(y.ends) /\ y.i < Len(y.ends)
              BY <1>2, <4>4
            <6> QED BY <1>a, <1>2, <4>1, <6>1 DEF EndsRise
          <5>2. e <= f \/ (k = Len(y.ends) /\ f = 0)
            BY <1>a, <1>2, <4>1, <4>2 DEF EndsRise
          <5> QED BY <2>1, <3>3, <4>1, <5>1, <5>2
        <4> QED BY <4>3, <4>4
      <3> QED BY <2>4, <3>4, <3>5 DEF Onward
    <2>7. z.pc = "block" /\ z.blocks = y.blocks /\ z.ends = y.ends /\ z.s = t + 1 /\ z.i = y.i
      BY <1>a, <2>4
    <2> QED BY <1>a, <1>3, <2>3, <2>5, <2>6, <2>7 DEF Good
  <1> QED BY <1>5, <1>6

-----------------------------------------------------------------------------
(* The tables, and the steps of Store *)

Tables ==
    /\ rows \in SUBSET S!Times /\ boundaries \in SUBSET (1..(MaxTime + 1))
    /\ decim \in SUBSET ((SUBSET S!Times) \ {{}})
    /\ ins = [on |-> ins.on, last |-> ins.last, buf |-> ins.buf, made |-> ins.made]
    /\ ins.buf \in Seq(S!Times)

StoreInv == Tables /\ Good(scan)

\* The table a read selects from holds finitely many numbers.
LEMMA TableFinite ==
  ASSUME Tables, NEW level
  PROVE  S!Table(level) \in SUBSET Nat /\ IsFiniteSet(S!Table(level))
  <1>1. CASE level = 1
    BY <1>1, TimesFinite DEF Tables, S!Table
  <1>2. CASE level # 1
    <2>1. PICK f : f = [g \in decim |-> S!Mean(g)]
      OBVIOUS
    <2>2. \A g \in decim : S!Mean(g) \in Nat
      <3>1. ASSUME NEW g \in decim PROVE S!Mean(g) \in Nat
        <4>1. g \in SUBSET Nat /\ IsFiniteSet(g) /\ g # {}
          BY TimesFinite DEF Tables
        <4> QED BY <4>1, MeanNat
      <3> QED BY <3>1
    <2>3. PICK T : T = {S!Mean(g) : g \in decim}
      OBVIOUS
    <2>4. f \in Surjection(decim, T)
      <3>1. \A g \in decim : f[g] = S!Mean(g) /\ f[g] \in T
        BY <2>1, <2>3
      <3>2. \A t \in T : \E g \in decim : f[g] = t
        BY <2>1, <2>3
      <3>3. f \in [decim -> T]
        BY <2>1, <3>1
      <3> QED BY <3>2, <3>3 DEF Surjection
    <2>5. IsFiniteSet(decim)
      <3>1. IsFiniteSet(SUBSET S!Times)
        BY TimesFinite, FS_SUBSET
      <3> QED BY <3>1, FS_Subset DEF Tables
    <2>6. T \in SUBSET Nat /\ IsFiniteSet(T)
      BY <2>2, <2>3, <2>4, <2>5, FS_Surjection
    <2> QED BY <1>2, <2>3, <2>6 DEF S!Table
  <1> QED BY <1>1, <1>2

\* A block holds rows between the place of the read and the end of its interval.
LEMMA BlockFound ==
  ASSUME Tables, IsScan(scan)
  PROVE  \E hit : /\ Found(scan, hit) /\ S!Block = BlockOf(scan, hit)
                  /\ scan.level = 1 => hit \in Seq(rows)
  <1> DEFINE T == S!Table(scan.level)
             R == S!InRange(T, scan.s, scan.ends[scan.i])
  <1>1. R \in SUBSET T /\ R \in SUBSET Nat /\ IsFiniteSet(R)
    <2>1. T \in SUBSET Nat /\ IsFiniteSet(T)
      BY TableFinite
    <2>2. R \in SUBSET T
      BY DEF S!InRange
    <2> HIDE DEF T, R
    <2> QED BY <2>1, <2>2, FS_Subset
  <1>2. \A t \in R : scan.s <= t /\ (scan.ends[scan.i] = 0 \/ t < scan.ends[scan.i])
    <2>1. \A t \in R : /\ scan.s = 0 \/ t >= scan.s
                       /\ scan.ends[scan.i] = 0 \/ t < scan.ends[scan.i]
      BY DEF S!InRange, S!None
    <2>2. scan.s \in Nat
      BY DEF IsScan
    <2> HIDE DEF R
    <2> QED BY <1>1, <2>1, <2>2
  <1>3. PICK found : found = S!Sorted(R) /\ found \in Seq(R) /\ Rising(found)
    <2> HIDE DEF R
    <2> QED BY <1>1, SortedRises
  <1>4. PICK m : m = S!Min({BlockSize, Len(found)}) /\ m \in Nat /\ m <= BlockSize /\ m <= Len(found)
    <2>1. BlockSize \in Nat /\ Len(found) \in Nat
      BY <1>3, LenProperties, StoreConstants
    <2>2. {BlockSize, Len(found)} \in SUBSET Nat /\ {BlockSize, Len(found)} # {}
      BY <2>1
    <2>3. PICK W : W = {BlockSize, Len(found)}
      OBVIOUS
    <2>4. S!Min(W) \in W /\ \A w \in W : S!Min(W) <= w
      BY <2>2, <2>3, LeastIn
    <2> QED BY <2>1, <2>3, <2>4
  <1>5. PICK hit : hit = SubSeq(found, 1, m)
    OBVIOUS
  <1>6. S!Block = BlockOf(scan, hit)
    BY <1>3, <1>4, <1>5 DEF S!Block, BlockOf, S!Token
  <1> HIDE DEF R, T
  <1>7. hit \in Seq(R) /\ Len(hit) = m /\ \A k \in 1..m : hit[k] = found[k]
    <2>1. \A k \in 1..m : found[k] \in R
      BY <1>3, <1>4, ElementOfSeq, LenProperties
    <2>2. hit \in Seq(R)
      <3>1. m \in Int /\ 1 \in Int
        BY <1>4
      <3>2. SubSeq(found, 1, m) \in Seq(R)
        BY <2>1, <3>1, SubSeqProperties
      <3> QED BY <1>5, <3>2
    <2>3. Len(hit) = m
      BY <1>3, <1>4, <1>5
    <2>4. \A k \in 1..m : hit[k] = found[k]
      BY <1>3, <1>4, <1>5
    <2> QED BY <2>2, <2>3, <2>4
  <1>8. hit \in Seq(Nat)
    BY <1>1, <1>7, SeqMonotonic
  <1>9. Rising(hit)
    <2>1. \A k \in 1..m : k \in 1..Len(found)
      BY <1>3, <1>4, LenProperties
    <2> QED BY <1>3, <1>7, <2>1 DEF Rising
  <1>10. \A k \in 1..Len(hit) : scan.s <= hit[k] /\ (scan.ends[scan.i] = 0 \/ hit[k] < scan.ends[scan.i])
    <2>1. \A k \in 1..Len(hit) : hit[k] \in R
      BY <1>7, ElementOfSeq
    <2> QED BY <1>2, <2>1
  <1>11. Found(scan, hit)
    BY <1>4, <1>7, <1>8, <1>9, <1>10 DEF Found
  <1>12. scan.level = 1 => hit \in Seq(rows)
    <2>1. scan.level = 1 => T = rows
      BY DEF T, S!Table
    <2> QED BY <1>1, <1>7, <2>1, SeqMonotonic
  <1> QED BY <1>6, <1>11, <1>12


\* A change of the tables leaves the read where it is.
LEMMA TouchGood == Good(scan) /\ S!Touch => Good(scan')
  <1> SUFFICES ASSUME Good(scan), S!Touch PROVE Good(scan')
    OBVIOUS
  <1>1. CASE scan.pc = "idle"
    BY <1>1 DEF S!Touch
  <1>2. CASE scan.pc # "idle"
    <2>1. PICK z : z = [scan EXCEPT !.dirty = TRUE]
      OBVIOUS
    <2>2. scan' = z
      BY <1>2, <2>1 DEF S!Touch
    <2>3. z = [pc |-> scan.pc, kind |-> scan.kind, level |-> scan.level, req |-> scan.req,
               s |-> scan.s, ends |-> scan.ends, i |-> scan.i, blocks |-> scan.blocks,
               buf |-> scan.buf, made |-> scan.made, dirty |-> TRUE]
      BY <2>1 DEF Good, IsScan
    <2>4. /\ z.pc = scan.pc /\ z.kind = scan.kind /\ z.level = scan.level /\ z.req = scan.req
          /\ z.s = scan.s /\ z.ends = scan.ends /\ z.i = scan.i /\ z.blocks = scan.blocks
          /\ z.buf = scan.buf /\ z.made = scan.made /\ z.dirty = TRUE
      BY <2>3
    <2>5. IsScan(z)
      BY <2>3, <2>4 DEF Good, IsScan
    <2>6. Onward(z, z.blocks) <=> Onward(scan, scan.blocks)
      BY <2>4 DEF Onward
    <2> QED BY <2>2, <2>4, <2>5, <2>6 DEF Good
  <1> QED BY <1>1, <1>2

\* A boundary is the instant after a row.
LEMMA CloseAtTyped ==
  ASSUME Tables, NEW ts
  PROVE  S!CloseAt(rows, boundaries, ts) \in SUBSET (1..(MaxTime + 1))
  <1>1. PICK before : before = {t \in rows : t <= ts}
    OBVIOUS
  <1>2. before \in SUBSET S!Times
    BY <1>1 DEF Tables
  <1>3. before # {} => S!Max(before) \in S!Times
    BY <1>2, TimesFinite, GreatestIn
  <1>4. before # {} => S!Max(before) + 1 \in 1..(MaxTime + 1)
    BY <1>3, StoreConstants DEF S!Times
  <1>5. S!CloseAt(rows, boundaries, ts) \in {boundaries, boundaries \cup {S!Max(before) + 1}}
        /\ (before = {} => S!CloseAt(rows, boundaries, ts) = boundaries)
    BY <1>1 DEF S!CloseAt
  <1> QED BY <1>4, <1>5 DEF Tables

LEMMA StoreInit == S!Init => StoreInv
  <1> SUFFICES ASSUME S!Init PROVE StoreInv
    OBVIOUS
  <1>1. Tables
    BY DEF S!Init, Tables, S!NoInserter
  <1>2. scan = S!NoRead
    BY DEF S!Init
  <1>3. IsScan(scan)
    BY <1>2 DEF S!NoRead, S!None, IsScan
  <1>4. scan.pc = "idle" /\ scan.blocks = <<>>
    BY <1>2 DEF S!NoRead
  <1>5. InOrder(<<>>)
    BY DEF InOrder
  <1> QED BY <1>1, <1>3, <1>4, <1>5 DEF StoreInv, Good

\* Sorted timestamps are timestamps.
LEMMA SortedTimes ==
  ASSUME NEW T \in SUBSET S!Times
  PROVE  S!Sorted(T) \in Seq(S!Times)
  BY TimesFinite, SortedRises, SeqMonotonic

LEMMA InsertInv ==
  ASSUME StoreInv, NEW a \in S!Times, NEW b \in S!Times, NEW first \in BOOLEAN, S!Insert(a, b, first)
  PROVE  StoreInv'
  <1> DEFINE me == IF first THEN S!NoInserter ELSE ins
             d == S!Decimate(me.buf, S!Sorted(a..b))
             fails == S!CopyRaises(me.made, d.groups)
  <1>1. a..b \in SUBSET S!Times
    BY StoreConstants DEF S!Times
  <1>2. me.buf \in Seq(S!Times)
    BY DEF StoreInv, Tables, S!NoInserter
  <1>3. d.rest \in Seq(S!Times) /\ d.groups \in SUBSET ((SUBSET S!Times) \ {{}})
    <2> HIDE DEF me
    <2> QED BY <1>1, <1>2, SortedTimes, DecimateTyped
  <1>4. /\ boundaries' = IF first THEN S!CloseAt(rows, boundaries, a - 1) ELSE boundaries
        /\ rows' = rows \cup a..b
        /\ decim' = IF fails THEN decim ELSE decim \cup d.groups
        /\ ins' = IF fails THEN S!NoInserter
                  ELSE [on |-> TRUE, last |-> b, buf |-> d.rest, made |-> TRUE]
        /\ S!Touch
    BY DEF S!Insert
  <1> HIDE DEF d, fails
  <1>5. Tables'
    <2>1. rows' \in SUBSET S!Times
      BY <1>1, <1>4 DEF StoreInv, Tables
    <2>2. boundaries' \in SUBSET (1..(MaxTime + 1))
      BY <1>4, CloseAtTyped DEF StoreInv, Tables
    <2>3. decim' \in SUBSET ((SUBSET S!Times) \ {{}})
      BY <1>3, <1>4 DEF StoreInv, Tables
    <2>4. /\ ins' = [on |-> ins'.on, last |-> ins'.last, buf |-> ins'.buf, made |-> ins'.made]
          /\ ins'.buf \in Seq(S!Times)
      <3>1. CASE fails
        <4>1. ins' = S!NoInserter
          BY <1>4, <3>1
        <4> QED BY <4>1 DEF S!NoInserter
      <3>2. CASE ~fails
        <4>1. ins' = [on |-> TRUE, last |-> b, buf |-> d.rest, made |-> TRUE]
          BY <1>4, <3>2
        <4> QED BY <1>3, <4>1
      <3> QED BY <3>1, <3>2
    <2> QED BY <2>1, <2>2, <2>3, <2>4 DEF Tables
  <1>6. Good(scan')
    BY <1>4, TouchGood DEF StoreInv
  <1> QED BY <1>5, <1>6 DEF StoreInv

LEMMA BreakInv == StoreInv /\ S!Break => StoreInv'
  <1> SUFFICES ASSUME StoreInv, S!Break PROVE StoreInv'
    OBVIOUS
  <1>1. /\ boundaries' = S!CloseAt(rows, boundaries, ins.last)
        /\ ins' = [ins EXCEPT !.buf = <<>>] /\ rows' = rows /\ decim' = decim /\ S!Touch
    BY DEF S!Break, S!decimation
  <1>2. ins' = [on |-> ins.on, last |-> ins.last, buf |-> <<>>, made |-> ins.made]
    BY <1>1 DEF StoreInv, Tables
  <1>3. Tables'
    BY <1>1, <1>2, CloseAtTyped DEF StoreInv, Tables
  <1> QED BY <1>1, <1>3, TouchGood DEF StoreInv

\* The steps that take rows or boundaries away, or close an interval.
LEMMA EditInv ==
  ASSUME StoreInv,
         \/ \E r \in Ranges : S!RemoveBegin(r[1], r[2])
         \/ S!RemoveRows \/ S!RemoveBounds \/ S!RemoveMark \/ S!ConsolidateDelete
         \/ S!DropDecimations
  PROVE  StoreInv'
  <1>1. Tables' /\ S!Touch
    <2>1. ASSUME NEW s, NEW e, S!RemoveBegin(s, e) PROVE Tables' /\ S!Touch
      <3>1. decim' \subseteq decim /\ UNCHANGED <<rows, boundaries, ins>> /\ S!Touch
        BY <2>1 DEF S!RemoveBegin, S!data
      <3> QED BY <3>1 DEF StoreInv, Tables
    <2>2. CASE S!RemoveRows
      <3>1. rows' \subseteq rows /\ UNCHANGED <<boundaries, decim, ins>> /\ S!Touch
        BY <2>2 DEF S!RemoveRows, S!decimation
      <3> QED BY <3>1 DEF StoreInv, Tables
    <2>3. CASE S!RemoveBounds
      <3>1. boundaries' \subseteq boundaries /\ UNCHANGED <<rows, decim, ins>> /\ S!Touch
        BY <2>3 DEF S!RemoveBounds, S!decimation
      <3> QED BY <3>1 DEF StoreInv, Tables
    <2>4. CASE S!RemoveMark
      <3>1. /\ boundaries' = S!CloseAt(rows, boundaries, rm.s)
            /\ UNCHANGED <<rows, decim, ins>> /\ S!Touch
        BY <2>4 DEF S!RemoveMark, S!decimation
      <3> QED BY <3>1, CloseAtTyped DEF StoreInv, Tables
    <2>5. CASE S!ConsolidateDelete
      <3>1. boundaries' \subseteq boundaries /\ UNCHANGED <<rows, decim, ins>> /\ S!Touch
        BY <2>5 DEF S!ConsolidateDelete, S!decimation
      <3> QED BY <3>1 DEF StoreInv, Tables
    <2>6. CASE S!DropDecimations
      <3>1. decim' = {} /\ UNCHANGED <<rows, boundaries, ins>> /\ S!Touch
        BY <2>6 DEF S!DropDecimations, S!data
      <3> QED BY <3>1 DEF StoreInv, Tables
    <2> QED BY <2>1, <2>2, <2>3, <2>4, <2>5, <2>6
  <1> QED BY <1>1, TouchGood DEF StoreInv

\* The first query of a read: to the boundaries of its range.
LEMMA ExtractInv ==
  ASSUME StoreInv, NEW r \in Ranges, NEW limit \in RowLimits, S!Extract(r[1], r[2], limit)
  PROVE  StoreInv'
  <1>1. PICK lb : lb = S!LimitBounds(r[1], r[2])
    OBVIOUS
  <1>2. PICK at, level :
           scan' = [S!NoRead EXCEPT !.pc = at, !.req = <<r[1], r[2]>>, !.level = level,
                                    !.s = lb[1], !.ends = <<lb[2]>>]
           /\ at \in {"list", "done"}
    BY <1>1 DEF S!Extract
  <1>3. scan' = [pc |-> at, kind |-> "read", level |-> level, req |-> <<r[1], r[2]>>, s |-> lb[1],
                 ends |-> <<lb[2]>>, i |-> 1, blocks |-> <<>>, buf |-> <<>>, made |-> FALSE,
                 dirty |-> FALSE]
    BY <1>2 DEF S!NoRead
  <1>4. lb[1] \in Nat /\ lb[2] \in Nat
    <2>1. r[1] \in Nat /\ r[2] \in Nat
      BY StoreConstants
    <2>2. CASE rows = {}
      BY <1>1, <2>2 DEF S!LimitBounds, S!None
    <2>3. CASE rows # {}
      <3>1. PICK lo, hi : lo = S!Min(rows) /\ hi = S!Max(rows) /\ lo \in Nat /\ hi \in Nat
        <4>1. rows \in SUBSET Nat /\ IsFiniteSet(rows)
          BY TimesFinite DEF StoreInv, Tables
        <4> QED BY <2>3, <4>1, LeastIn, GreatestIn
      <3>2. \A x, y \in Nat : S!Max({x, y}) \in Nat /\ S!Min({x, y}) \in Nat
        <4>1. ASSUME NEW x \in Nat, NEW y \in Nat
              PROVE  S!Max({x, y}) \in Nat /\ S!Min({x, y}) \in Nat
          <5>1. PICK T : T = {x, y}
            OBVIOUS
          <5>2. T \in SUBSET Nat /\ T # {}
            BY <5>1
          <5>3. IsFiniteSet({x, y})
            <6>1. IsFiniteSet({x}) /\ {x, y} = {x} \cup {y}
              BY FS_Singleton
            <6> QED BY <6>1, FS_AddElement
          <5>4. S!Max(T) \in T /\ S!Min(T) \in T
            BY <5>1, <5>2, <5>3, LeastIn, GreatestIn
          <5> QED BY <5>1, <5>2, <5>4
        <4> QED BY <4>1
      <3>3. lb = <<S!Max({r[1], lo}), IF r[2] = 0 THEN hi + 1 ELSE S!Min({r[2], hi + 1})>>
        BY <1>1, <2>3, <3>1 DEF S!LimitBounds, S!None
      <3>4. hi + 1 \in Nat
        BY <3>1
      <3> QED BY <2>1, <3>1, <3>2, <3>3, <3>4
    <2> QED BY <2>2, <2>3
  <1>5. IsScan(scan')
    <2>1. <<lb[2]>> \in Seq(Nat)
      BY <1>4
    <2> QED BY <1>3, <1>4, <2>1 DEF IsScan
  <1>6. Good(scan')
    <2>1. scan'.pc # "block" /\ scan'.blocks = <<>> /\ scan'.i = 1 /\ Len(scan'.ends) = 1
      <3>1. scan'.pc = at /\ scan'.blocks = <<>> /\ scan'.i = 1 /\ scan'.ends = <<lb[2]>>
        BY <1>3
      <3>2. at # "block"
        BY <1>2
      <3> QED BY <3>1, <3>2
    <2>2. InOrder(<<>>)
      BY DEF InOrder
    <2> QED BY <1>5, <2>1, <2>2 DEF Good
  <1>7. Tables'
    <2>1. UNCHANGED <<rows, boundaries, decim, ins>>
      BY DEF S!Extract, S!data, S!decimation
    <2> QED BY <2>1 DEF StoreInv, Tables
  <1> QED BY <1>6, <1>7 DEF StoreInv

LEMMA DecimateBeginInv == StoreInv /\ S!DecimateBegin => StoreInv'
  <1> SUFFICES ASSUME StoreInv, S!DecimateBegin PROVE StoreInv'
    OBVIOUS
  <1>1. Tables'
    <2>1. decim' = {} /\ UNCHANGED <<rows, boundaries, ins>>
      BY DEF S!DecimateBegin, S!data
    <2> QED BY <2>1 DEF StoreInv, Tables
  <1>2. CASE rows = {}
    <2>1. scan' = scan
      BY <1>2 DEF S!DecimateBegin
    <2> QED BY <1>1, <2>1 DEF StoreInv
  <1>3. CASE rows # {}
    <2>1. PICK lo, hi : lo = S!Min(rows) /\ hi = S!Max(rows) /\ lo \in Nat /\ hi \in Nat
      <3>1. rows \in SUBSET Nat /\ IsFiniteSet(rows)
        BY TimesFinite DEF StoreInv, Tables
      <3> QED BY <1>3, <3>1, LeastIn, GreatestIn
    <2>2. scan' = [S!NoRead EXCEPT !.pc = "list", !.kind = "decimate", !.s = lo,
                                   !.ends = <<hi + 1>>]
      BY <1>3, <2>1 DEF S!DecimateBegin
    <2>3. scan' = [pc |-> "list", kind |-> "decimate", level |-> 1, req |-> <<0, 0>>, s |-> lo,
                   ends |-> <<hi + 1>>, i |-> 1, blocks |-> <<>>, buf |-> <<>>, made |-> FALSE,
                   dirty |-> FALSE]
      BY <2>2 DEF S!NoRead, S!None
    <2>4. IsScan(scan')
      <3>1. <<hi + 1>> \in Seq(Nat)
        BY <2>1
      <3> QED BY <2>1, <2>3, <3>1 DEF IsScan
    <2>5. Good(scan')
      <3>1. scan'.pc = "list" /\ scan'.blocks = <<>> /\ scan'.i = 1 /\ Len(scan'.ends) = 1
        BY <2>3
      <3>2. InOrder(<<>>)
        BY DEF InOrder
      <3> QED BY <2>4, <3>1, <3>2 DEF Good
    <2> QED BY <1>1, <2>5 DEF StoreInv
  <1> QED BY <1>2, <1>3

\* The boundaries of the range split it into intervals that follow each other.
LEMMA ExtractBoundsInv == StoreInv /\ S!ExtractBounds => StoreInv'
  <1> SUFFICES ASSUME StoreInv, S!ExtractBounds PROVE StoreInv'
    OBVIOUS
  <1>0. scan.pc = "list" /\ UNCHANGED <<rows, boundaries, decim, ins>>
    BY DEF S!ExtractBounds, S!data, S!decimation
  <1>1. /\ IsScan(scan) /\ scan.blocks = <<>> /\ scan.i = 1 /\ Len(scan.ends) = 1
        /\ scan.s \in Nat /\ scan.ends \in Seq(Nat) /\ scan.ends[1] \in Nat
    BY <1>0, ElementOfSeq DEF StoreInv, Good, IsScan
  <1>2. PICK R : R = S!InRange(boundaries, scan.s, scan.ends[1])
    OBVIOUS
  <1>3. R \in SUBSET (1..(MaxTime + 1)) /\ R \in SUBSET Nat /\ IsFiniteSet(R)
    <2>1. R \in SUBSET (1..(MaxTime + 1))
      BY <1>2 DEF S!InRange, StoreInv, Tables
    <2>2. IsFiniteSet(1..(MaxTime + 1)) /\ 1..(MaxTime + 1) \in SUBSET Nat
      BY StoreConstants, FS_Interval
    <2> QED BY <2>1, <2>2, FS_Subset
  <1>4. \A t \in R : t # 0 /\ scan.s <= t /\ (scan.ends[1] = 0 \/ t < scan.ends[1])
    <2>1. \A t \in R : /\ scan.s = 0 \/ t >= scan.s
                       /\ scan.ends[1] = 0 \/ t < scan.ends[1]
      BY <1>2 DEF S!InRange, S!None
    <2>2. \A t \in R : t \in 1..(MaxTime + 1)
      BY <1>3
    <2> QED BY <1>1, <2>1, <2>2, StoreConstants
  <1>5. PICK q : q = S!Sorted(R) /\ q \in Seq(R) /\ Rising(q)
    BY <1>3, SortedRises
  <1>6. PICK es : es = q \o scan.ends
    OBVIOUS
  <1>7. /\ es \in Seq(Nat) /\ Len(es) = Len(q) + 1 /\ Len(q) \in Nat /\ es[Len(es)] = scan.ends[1]
        /\ \A k \in 1..Len(q) : es[k] = q[k] /\ q[k] \in R
    <2>1. q \in Seq(Nat) /\ Len(q) \in Nat /\ \A k \in 1..Len(q) : q[k] \in R
      BY <1>3, <1>5, SeqMonotonic, ElementOfSeq, LenProperties
    <2>2. /\ es \in Seq(Nat) /\ Len(es) = Len(q) + Len(scan.ends)
          /\ \A k \in 1..Len(q) + Len(scan.ends) :
                es[k] = IF k <= Len(q) THEN q[k] ELSE scan.ends[k - Len(q)]
      BY <1>1, <1>6, <2>1, ConcatProperties
    <2>3. PICK n : n = Len(q) /\ n \in Nat
      BY <2>1
    <2>4. Len(es) = n + 1
      BY <1>1, <2>2, <2>3
    <2>5. es[n + 1] = scan.ends[1]
      <3>1. n + 1 \in 1..n + Len(scan.ends) /\ ~(n + 1 <= n) /\ (n + 1) - n = 1
        BY <1>1, <2>3
      <3> QED BY <2>2, <2>3, <3>1
    <2>6. \A k \in 1..n : es[k] = q[k]
      <3>1. \A k \in 1..n : k \in 1..n + Len(scan.ends) /\ k <= n
        BY <1>1, <2>3
      <3> QED BY <2>2, <2>3, <3>1
    <2> QED BY <2>1, <2>2, <2>3, <2>4, <2>5, <2>6
  <1>8. EndsRise(es)
    <2>1. SUFFICES ASSUME NEW k \in 1..Len(es), NEW l \in 1..Len(es), k < l
                   PROVE  es[k] # 0 /\ (es[k] <= es[l] \/ (l = Len(es) /\ es[l] = 0))
      BY DEF EndsRise
    <2>2. k \in 1..Len(q) /\ (l = Len(es) \/ l \in 1..Len(q))
      BY <1>7, <2>1
    <2>3. es[k] \in R /\ es[k] \in Nat
      BY <1>3, <1>7, <2>2
    <2>4. CASE l = Len(es)
      BY <1>1, <1>4, <1>7, <2>3, <2>4
    <2>5. CASE l \in 1..Len(q)
      <3>1. es[k] < es[l] /\ es[l] \in Nat
        BY <1>3, <1>5, <1>7, <2>1, <2>2, <2>5 DEF Rising
      <3> QED BY <1>4, <2>3, <3>1
    <2> QED BY <2>2, <2>4, <2>5
  <1>9. PICK y : y = [scan EXCEPT !.ends = es]
    OBVIOUS
  <1>10. scan' = S!NextInterval(y)
    BY <1>2, <1>5, <1>6, <1>9 DEF S!ExtractBounds
  <1>11. y = [pc |-> scan.pc, kind |-> scan.kind, level |-> scan.level, req |-> scan.req,
              s |-> scan.s, ends |-> es, i |-> scan.i, blocks |-> scan.blocks,
              buf |-> scan.buf, made |-> scan.made, dirty |-> scan.dirty]
    BY <1>1, <1>9 DEF IsScan
  <1>12. /\ y.ends = es /\ y.blocks = <<>> /\ y.s = scan.s /\ y.i = 1
    BY <1>1, <1>11
  <1>13. IsScan(y)
    BY <1>1, <1>7, <1>11 DEF IsScan
  <1>14. InOrder(y.blocks) /\ Below(y.blocks, y.s)
    BY <1>12 DEF InOrder, Below
  <1>15. Onward(y, y.blocks)
    <2>1. SUFFICES ASSUME NEW k \in 1..Len(es), k # Len(es) PROVE scan.s <= es[k]
      BY <1>12 DEF Onward
    <2>2. k \in 1..Len(q)
      BY <1>7, <2>1
    <2> QED BY <1>4, <1>7, <2>2
  <1>16. Good(scan')
    BY <1>8, <1>10, <1>12, <1>13, <1>14, <1>15, NextIntervalGood
  <1>17. Tables'
    BY <1>0 DEF StoreInv, Tables
  <1> QED BY <1>16, <1>17 DEF StoreInv

LEMMA ReadBlockInv == StoreInv /\ S!ReadBlock => StoreInv'
  <1> SUFFICES ASSUME StoreInv, S!ReadBlock PROVE StoreInv'
    OBVIOUS
  <1>1. scan.pc = "block" /\ UNCHANGED <<rows, boundaries, decim, ins>>
    BY DEF S!ReadBlock, S!data, S!decimation
  <1>2. Tables'
    BY <1>1 DEF StoreInv, Tables
  <1>3. /\ IsScan(scan) /\ scan.i <= Len(scan.ends) /\ EndsRise(scan.ends)
        /\ ~Over(scan.blocks) =>
              InOrder(scan.blocks) /\ Below(scan.blocks, scan.s) /\ Onward(scan, scan.blocks)
    BY <1>1 DEF StoreInv, Good
  <1>4. CASE scan.level > 1 /\ ~dtable
    <2>1. PICK z : z = [scan EXCEPT !.pc = "done"]
      OBVIOUS
    <2>2. scan' = z
      BY <1>4, <2>1 DEF S!ReadBlock
    <2>3. z.pc = "done" /\ z.blocks = scan.blocks /\ IsScan(z)
      BY <1>3, <2>1 DEF IsScan
    <2>4. Good(z)
      BY <1>3, <2>3 DEF Good
    <2> QED BY <1>2, <2>2, <2>4 DEF StoreInv
  <1>5. CASE ~(scan.level > 1 /\ ~dtable)
    <2>1. PICK hit : Found(scan, hit) /\ S!Block = BlockOf(scan, hit)
      BY <1>3, BlockFound DEF StoreInv
    <2>2. PICK b : b = S!Block
      OBVIOUS
    <2>3. PICK cs : cs = IF b = <<>> THEN scan.blocks ELSE Append(scan.blocks, b)
      OBVIOUS
    <2>4. PICK y : y = [scan EXCEPT !.blocks = cs]
      OBVIOUS
    <2>5. scan' = S!AfterBlock(y, b)
      BY <1>5, <2>2, <2>3, <2>4 DEF S!ReadBlock
    <2>6. scan.blocks \in Seq(Seq(Nat)) /\ cs \in Seq(Seq(Nat))
      <3>1. b \in Seq(Nat)
        BY <2>1, <2>2, BlockTyped DEF Found
      <3> QED BY <1>3, <2>3, <3>1, AppendProperties DEF IsScan
    <2>7. y = [pc |-> scan.pc, kind |-> scan.kind, level |-> scan.level, req |-> scan.req,
               s |-> scan.s, ends |-> scan.ends, i |-> scan.i, blocks |-> cs,
               buf |-> scan.buf, made |-> scan.made, dirty |-> scan.dirty]
      BY <1>3, <2>4 DEF IsScan
    <2>8. /\ y.pc = "block" /\ y.s = scan.s /\ y.ends = scan.ends /\ y.i = scan.i
          /\ y.blocks = cs
      BY <1>1, <2>7
    <2>9. IsScan(y)
      BY <1>3, <2>6, <2>7 DEF IsScan
    <2>10. AtBlock(y, scan.blocks, hit, b)
      <3>1. Found(y, hit) /\ BlockOf(y, hit) = BlockOf(scan, hit)
        BY <2>1, <2>8 DEF Found, BlockOf
      <3>2. Onward(y, scan.blocks) <=> Onward(scan, scan.blocks)
        BY <2>8 DEF Onward
      <3> QED BY <1>3, <2>1, <2>2, <2>3, <2>8, <2>9, <3>1, <3>2 DEF AtBlock
    <2>11. Good(scan')
      BY <2>5, <2>6, <2>10, AfterBlockGood
    <2> QED BY <1>2, <2>11 DEF StoreInv
  <1> QED BY <1>4, <1>5

LEMMA DecimateBlockInv == StoreInv /\ S!DecimateBlock => StoreInv'
  <1> SUFFICES ASSUME StoreInv, S!DecimateBlock PROVE StoreInv'
    OBVIOUS
  <1> DEFINE closes == S!Block # <<>> /\ S!Last(S!Block) = S!Token
             new == IF closes THEN S!Front(S!Block) ELSE S!Block
             d == S!Decimate(scan.buf, new)
             fails == S!CopyRaises(scan.made, d.groups)
  <1>1. /\ scan.pc = "block" /\ scan.kind = "decimate"
        /\ UNCHANGED <<rows, boundaries, ins>>
        /\ decim' = IF fails THEN decim ELSE decim \cup d.groups
    BY DEF S!DecimateBlock, S!data
  <1>2. scan' = IF fails THEN [scan EXCEPT !.pc = "done", !.dirty = TRUE]
                ELSE S!AfterBlock([scan EXCEPT !.buf = IF closes THEN <<>> ELSE d.rest,
                                          !.made = @ \/ new # <<>>,
                                          !.blocks = IF S!Block = <<>> THEN @
                                                     ELSE Append(@, S!Block)],
                                  S!Block)
    BY DEF S!DecimateBlock
  <1>3. /\ IsScan(scan) /\ scan.i <= Len(scan.ends) /\ EndsRise(scan.ends) /\ scan.level = 1
        /\ ~Over(scan.blocks) =>
              InOrder(scan.blocks) /\ Below(scan.blocks, scan.s) /\ Onward(scan, scan.blocks)
    BY <1>1 DEF StoreInv, Good, IsScan
  <1>4. PICK hit : Found(scan, hit) /\ S!Block = BlockOf(scan, hit) /\ hit \in Seq(rows)
    BY <1>3, BlockFound DEF StoreInv
  <1>5. PICK b : b = S!Block
    OBVIOUS
  <1>6. hit \in Seq(Nat) /\ Len(hit) <= BlockSize /\ hit \in Seq(S!Times)
    BY <1>4, SeqMonotonic DEF Found, StoreInv, Tables
  \* A block that does not end in a token holds rows only.
  <1>7. new \in Seq(S!Times)
    <2>1. /\ b \in Seq(Nat) /\ Len(hit) \in Nat
          /\ b = hit \/ (b[Len(b)] = 0 /\ b = Append(hit, 0) /\ b # <<>>)
      BY <1>4, <1>5, <1>6, BlockTyped
    <2>2. new = IF b # <<>> /\ b[Len(b)] = 0 THEN SubSeq(b, 1, Len(b) - 1) ELSE b
      BY <1>5 DEF S!Last, S!Token, S!Front
    <2>3. CASE b = hit
      <3>1. ~(b # <<>> /\ b[Len(b)] = 0)
        <4>1. b # <<>> => Len(b) \in 1..Len(b)
          BY <2>1, EmptySeq
        <4>2. \A k \in 1..Len(b) : b[k] # 0
          <5>1. \A k \in 1..Len(b) : b[k] \in S!Times
            BY <1>6, <2>3, ElementOfSeq
          <5>2. 0 \notin S!Times
            BY DEF S!Times
          <5> QED BY <5>1, <5>2
        <4> QED BY <4>1, <4>2
      <3> HIDE DEF new
      <3> QED BY <1>6, <2>2, <2>3, <3>1
    <2>4. CASE b[Len(b)] = 0 /\ b = Append(hit, 0) /\ b # <<>>
      <3>1. new = SubSeq(b, 1, Len(b) - 1)
        <4> HIDE DEF new
        <4> QED BY <2>2, <2>4
      <3>2. Len(b) - 1 = Len(hit) /\ \A k \in 1..Len(hit) : b[k] = hit[k]
        BY <1>6, <2>1, <2>4, AppendProperties
      <3>3. \A k \in 1..Len(hit) : b[k] \in S!Times
        BY <1>6, <3>2, ElementOfSeq
      <3>4. Len(hit) \in Int /\ 1 \in Int
        BY <2>1
      <3>5. SubSeq(b, 1, Len(hit)) \in Seq(S!Times)
        BY <3>3, <3>4, SubSeqProperties
      <3> HIDE DEF new
      <3> QED BY <3>1, <3>2, <3>5
    <2> QED BY <2>1, <2>3, <2>4
  <1>8. d.rest \in Seq(S!Times) /\ d.groups \in SUBSET ((SUBSET S!Times) \ {{}})
    <2>1. scan.buf \in Seq(S!Times)
      BY <1>3 DEF IsScan
    <2> HIDE DEF new
    <2> QED BY <1>7, <2>1, DecimateTyped
  <1> HIDE DEF d, fails
  <1>9. Tables'
    <2>1. decim' \in SUBSET ((SUBSET S!Times) \ {{}})
      BY <1>1, <1>8 DEF StoreInv, Tables
    <2> QED BY <1>1, <2>1 DEF StoreInv, Tables
  <1>10. CASE fails
    <2>1. PICK z : z = [scan EXCEPT !.pc = "done", !.dirty = TRUE]
      OBVIOUS
    <2>2. scan' = z
      <3> HIDE DEF closes, new
      <3> QED BY <1>2, <1>10, <2>1
    <2>3. z.pc = "done" /\ z.blocks = scan.blocks /\ IsScan(z)
      BY <1>3, <2>1 DEF IsScan
    <2>4. Good(z)
      BY <1>3, <2>3 DEF Good
    <2> QED BY <1>9, <2>2, <2>4 DEF StoreInv
  <1>11. CASE ~fails
    <2>1. PICK buf, made : buf = (IF closes THEN <<>> ELSE d.rest) /\ made = (scan.made \/ new # <<>>)
      OBVIOUS
    <2>2. buf \in Seq(S!Times)
      <3>1. <<>> \in Seq(S!Times)
        BY EmptySeq
      <3> HIDE DEF closes, new
      <3> QED BY <1>8, <2>1, <3>1
    <2>3. PICK cs : cs = IF b = <<>> THEN scan.blocks ELSE Append(scan.blocks, b)
      OBVIOUS
    <2>4. PICK y : y = [scan EXCEPT !.buf = buf, !.made = made, !.blocks = cs]
      OBVIOUS
    <2>5. scan' = S!AfterBlock(y, b)
      <3> HIDE DEF closes, new
      <3> QED BY <1>2, <1>5, <1>11, <2>1, <2>3, <2>4
    <2>6. scan.blocks \in Seq(Seq(Nat)) /\ cs \in Seq(Seq(Nat))
      <3>1. b \in Seq(Nat)
        BY <1>4, <1>5, <1>6, BlockTyped
      <3> QED BY <1>3, <2>3, <3>1, AppendProperties DEF IsScan
    <2>7. y = [pc |-> scan.pc, kind |-> scan.kind, level |-> scan.level, req |-> scan.req,
               s |-> scan.s, ends |-> scan.ends, i |-> scan.i, blocks |-> cs,
               buf |-> buf, made |-> made, dirty |-> scan.dirty]
      BY <1>3, <2>4 DEF IsScan
    <2>8. /\ y.pc = "block" /\ y.s = scan.s /\ y.ends = scan.ends /\ y.i = scan.i
          /\ y.blocks = cs
      BY <1>1, <2>7
    <2>9. IsScan(y)
      BY <1>3, <2>2, <2>6, <2>7 DEF IsScan
    <2>10. AtBlock(y, scan.blocks, hit, b)
      <3>1. Found(y, hit) /\ BlockOf(y, hit) = BlockOf(scan, hit)
        BY <1>4, <2>8 DEF Found, BlockOf
      <3>2. Onward(y, scan.blocks) <=> Onward(scan, scan.blocks)
        BY <2>8 DEF Onward
      <3> QED BY <1>3, <1>4, <1>5, <2>3, <2>8, <2>9, <3>1, <3>2 DEF AtBlock
    <2>11. Good(scan')
      BY <2>5, <2>6, <2>10, AfterBlockGood
    <2> QED BY <1>9, <2>11 DEF StoreInv
  <1> QED BY <1>10, <1>11

LEMMA ReadDoneInv == StoreInv /\ S!ReadDone => StoreInv'
  <1> SUFFICES ASSUME StoreInv, S!ReadDone PROVE StoreInv'
    OBVIOUS
  <1>1. scan' = S!NoRead /\ UNCHANGED <<rows, boundaries, decim, ins>>
    BY DEF S!ReadDone, S!data, S!decimation
  <1>2. IsScan(scan')
    BY <1>1 DEF S!NoRead, S!None, IsScan
  <1>3. scan'.pc = "idle" /\ scan'.blocks = <<>>
    BY <1>1 DEF S!NoRead
  <1>4. InOrder(<<>>)
    BY DEF InOrder
  <1>5. Tables'
    BY <1>1 DEF StoreInv, Tables
  <1> QED BY <1>2, <1>3, <1>4, <1>5 DEF StoreInv, Good

LEMMA StoreNext == StoreInv /\ [S!Next]_(S!vars) => StoreInv'
  <1> SUFFICES ASSUME StoreInv, [S!Next]_(S!vars) PROVE StoreInv'
    OBVIOUS
  <1>1. ASSUME NEW a \in S!Times, NEW n \in Lengths, NEW first \in BOOLEAN,
               a + n - 1 \in S!Times, S!Insert(a, a + n - 1, first)
        PROVE  StoreInv'
    BY <1>1, InsertInv
  <1>2. CASE S!Break
    BY <1>2, BreakInv
  <1>3. CASE \/ \E r \in Ranges : S!RemoveBegin(r[1], r[2])
             \/ S!RemoveRows \/ S!RemoveBounds \/ S!RemoveMark \/ S!ConsolidateDelete
             \/ S!DropDecimations
    BY <1>3, EditInv
  <1>4. CASE UNCHANGED <<rows, boundaries, decim, ins, scan>>
    BY <1>4 DEF StoreInv, Tables
  <1>5. ASSUME NEW r \in Ranges, S!ConsolidateBegin(r[1], r[2]) PROVE StoreInv'
    <2>1. UNCHANGED <<rows, boundaries, decim, ins, scan>>
      BY <1>5 DEF S!ConsolidateBegin, S!data, S!decimation
    <2> QED BY <1>4, <2>1
  <1>6. ASSUME NEW r \in Ranges, NEW limit \in RowLimits, S!Extract(r[1], r[2], limit) PROVE StoreInv'
    BY <1>6, ExtractInv
  <1>7. CASE S!DecimateBegin
    BY <1>7, DecimateBeginInv
  <1>8. CASE S!ExtractStep
    BY <1>8, ExtractBoundsInv, ReadBlockInv, DecimateBlockInv, ReadDoneInv DEF S!ExtractStep
  <1>9. CASE UNCHANGED S!vars
    BY <1>4, <1>9 DEF S!vars, S!data, S!decimation
  <1> QED BY <1>1, <1>2, <1>3, <1>5, <1>6, <1>7, <1>8, <1>9 DEF S!Next

\* Of the blocks _extract_data passes to a reader, whatever is inserted, removed,
\* consolidated or decimated between two of them, every row is after those that
\* were passed before, unless a token filled a block.
THEOREM StoreReadsInOrder == S!Spec => []ReadsInOrder
  <1>1. S!Init => StoreInv
    BY StoreInit
  <1>2. StoreInv /\ [S!Next]_(S!vars) => StoreInv'
    BY StoreNext
  <1>3. StoreInv => ReadsInOrder
    BY InOrderReads DEF StoreInv
  <1> QED BY <1>1, <1>2, <1>3, PTL DEF S!Spec
=============================================================================
