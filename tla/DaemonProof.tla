------------------------------ MODULE DaemonProof ------------------------------
(***************************************************************************)
(* Proofs about Daemon for every set of processes and of configurations:   *)
(* the pid file keeps the daemons apart, and the flags of the streams in   *)
(* the database are those of the daemon that runs.                         *)
(***************************************************************************)
EXTENDS Daemon, FiniteSetTheorems, NaturalsInduction, WellFoundedInduction, TLAPS

-----------------------------------------------------------------------------
(* The inductive invariant *)

Places == {"off", "check", "clear", "open", "write", "init", "run", "unlink", "dead"}

\* The streams of the database.
Rows == [Streams -> Layouts \cup {None}]

\* The parts of the state the argument is about, with their types; what is kept
\* of each process is kept for the processes only.
Shape ==
    /\ pc \in [Daemons -> Places]
    /\ raced \in BOOLEAN
    /\ DOMAIN loaded = Daemons /\ DOMAIN config = Daemons
    /\ layout \in Rows

\* A process that has passed the check and has not ended: it writes, owns or
\* removes the files of the socket directory.
Owns(d) == InWindow(d) \/ pc[d] \in {"init", "run"}

\* At most one process owns the files; from the end of the writing to the end
\* of the run the pid file is its own, and so is the socket once it runs.
OneOwner ==
    ~raced =>
        /\ \A d, e \in Daemons : Owns(d) /\ Owns(e) => d = e
        /\ \A d \in Daemons : pc[d] \in {"init", "run"} => pidfile = d
        /\ \A d \in Daemons : pc[d] = "run" => socket = d

Inv == Shape /\ OneOwner

-----------------------------------------------------------------------------
USE DaemonConstants

LEMMA InitInv == Init => Inv
  BY DEF Init, Inv, Shape, OneOwner, Owns, InWindow, Places, Rows

LEMMA StutterInv == Inv /\ UNCHANGED vars => Inv'
  BY DEF vars, files, db, Inv, Shape, OneOwner, Owns, InWindow

-----------------------------------------------------------------------------
(* Folds over a sequence.  FoldLeft recurs over the sets of positions, from the
   largest; a step that stays in a set X gives a fold that stays in X. *)

LEMMA LeastNat ==
  ASSUME NEW T \in SUBSET Nat, T # {}
  PROVE  \E n \in T : \A m \in T : n <= m
  <1> DEFINE R == {p \in Nat \X Nat : p[1] < p[2]}
  <1>1. IsWellFoundedOn(R, Nat)
    BY NatLessThanWellFounded DEF OpToRel
  <1>2. PICK n \in T : \A m \in T : <<m, n>> \notin R
    <2> HIDE DEF R
    <2> QED BY <1>1, WFMin
  <1>3. \A m \in T : ~(m < n)
    BY <1>2
  <1> QED BY <1>3

\* The least upper bound of a set of positions is one of them.
LEMMA LastPosition ==
  ASSUME NEW n \in Nat, NEW s \in SUBSET (1..n), s # {}
  PROVE  Max(s) \in s /\ \A i \in s : i <= Max(s)
  <1> DEFINE T == {k \in Nat : \A i \in s : i <= k}
  <1>1. PICK u \in T : \A k \in T : u <= k
    <2>1. n \in T
      OBVIOUS
    <2> HIDE DEF T
    <2>2. T \subseteq Nat
      BY DEF T
    <2> QED BY <2>1, <2>2, LeastNat
  <1>2. u \in s
    <2>1. ASSUME u \notin s PROVE FALSE
      <3>0. PICK i : i \in s
        OBVIOUS
      <3>1. i \in 1..n /\ i <= u
        BY <1>1, <3>0
      <3>2. u - 1 \in Nat
        BY <1>1, <3>1
      <3>3. \A j \in s : j <= u - 1
        BY <1>1, <2>1
      <3>4. u - 1 \in T
        BY <3>2, <3>3
      <3> QED BY <1>1, <3>2, <3>4
    <2> QED BY <2>1
  <1>3. \A i \in s : u >= i /\ i <= u
    BY <1>1
  <1>4. ASSUME NEW x \in s, \A i \in s : x >= i PROVE x = u
    BY <1>1, <1>2, <1>3, <1>4
  <1>5. Max(s) = u
    BY <1>2, <1>3, <1>4 DEF Max
  <1> QED BY <1>2, <1>3, <1>5

LEMMA FoldStays ==
  ASSUME NEW X, NEW n \in Nat, NEW it, it[{}] \in X,
         \A s \in SUBSET (1..n) : s # {} /\ it[s \ {Max(s)}] \in X => it[s] \in X
  PROVE  \A s \in SUBSET (1..n) : it[s] \in X
  <1> DEFINE T == {k \in Nat : \E s \in SUBSET (1..n) : s \subseteq 1..k /\ it[s] \notin X}
  <1>1. SUFFICES ASSUME NEW r \in SUBSET (1..n), it[r] \notin X PROVE FALSE
    OBVIOUS
  <1>2. n \in T
    BY <1>1
  <1>3. PICK k \in T : \A m \in T : k <= m
    <2> HIDE DEF T
    <2>1. T \subseteq Nat
      BY DEF T
    <2> QED BY <1>2, <2>1, LeastNat
  <1>4. PICK s \in SUBSET (1..n) : s \subseteq 1..k /\ it[s] \notin X
    BY <1>3
  <1>5. PICK m : m = Max(s) /\ m \in s /\ \A i \in s : i <= m
    BY <1>4, LastPosition
  <1>6. PICK t : t = s \ {m}
    OBVIOUS
  <1>7. k \in Nat /\ m \in 1..k /\ k - 1 \in Nat
    BY <1>3, <1>4, <1>5
  <1>8. t \in SUBSET (1..n) /\ t \subseteq 1..(k - 1)
    <2>1. ASSUME NEW i \in t PROVE i \in 1..(k - 1)
      <3>1. i \in s /\ i # m
        BY <1>6
      <3>2. i \in 1..k /\ i <= m
        BY <1>4, <1>5, <3>1
      <3> QED BY <1>7, <3>1, <3>2
    <2> QED BY <1>4, <1>6, <2>1
  <1>9. it[t] \in X
    <2>1. k - 1 \notin T
      <3> HIDE DEF T
      <3> QED BY <1>3, <1>7
    <2> QED BY <1>7, <1>8, <2>1
  <1> QED BY <1>4, <1>5, <1>6, <1>9

\* The value of a fold of g at a set of positions.
Recurs(f, x, n, g) ==
    \A s \in SUBSET (1..n) : f[s] = IF s = {} THEN x ELSE g[<<f[s \ {Max(s)}], Max(s)>>]

LEMMA FoldExists ==
  ASSUME NEW X, NEW x \in X, NEW n \in Nat, NEW g \in [X \X (1..n) -> X]
  PROVE  \E f \in [SUBSET (1..n) -> X] : Recurs(f, x, n, g)
  <1> DEFINE Upto(k, f) ==
        \A s \in SUBSET (1..k) : f[s] = IF s = {} THEN x ELSE g[<<f[s \ {Max(s)}], Max(s)>>]
             T == {k \in 0..n : ~ \E f \in [SUBSET (1..k) -> X] : Upto(k, f)}
  <1>1. SUFFICES T = {}
    <2>1. n \in 0..n
      OBVIOUS
    <2> QED BY <2>1 DEF Recurs
  <1>2. 0 \notin T
    <2>1. PICK f : f = [s \in SUBSET (1..0) |-> x]
      OBVIOUS
    <2>2. f \in [SUBSET (1..0) -> X] /\ Upto(0, f)
      BY <2>1
    <2> QED BY <2>2
  <1>3. ASSUME NEW k \in 0..n, k + 1 \in 0..n, k \notin T PROVE k + 1 \notin T
    <2>1. PICK f \in [SUBSET (1..k) -> X] : Upto(k, f)
      BY <1>3
    <2>2. PICK h : h = [s \in SUBSET (1..(k + 1)) |->
                          IF k + 1 \in s THEN g[<<f[s \ {k + 1}], k + 1>>] ELSE f[s]]
      OBVIOUS
    <2>3. \A s \in SUBSET (1..(k + 1)) : s \ {k + 1} \in SUBSET (1..k)
      OBVIOUS
    <2>4. k + 1 \in 1..n
      BY <1>3
    <2>5. h \in [SUBSET (1..(k + 1)) -> X]
      <3>1. ASSUME NEW s \in SUBSET (1..(k + 1)) PROVE h[s] \in X
        <4>1. CASE k + 1 \in s
          <5>1. f[s \ {k + 1}] \in X
            BY <2>3
          <5> QED BY <2>2, <2>4, <4>1, <5>1
        <4>2. CASE k + 1 \notin s
          <5>1. s \in SUBSET (1..k)
            BY <2>3, <4>2
          <5> QED BY <2>2, <4>2, <5>1
        <4> QED BY <4>1, <4>2
      <3> QED BY <2>2, <3>1
    <2>6. \A s \in SUBSET (1..k) : h[s] = f[s]
      <3>1. ASSUME NEW s \in SUBSET (1..k) PROVE s \in SUBSET (1..(k + 1)) /\ k + 1 \notin s
        OBVIOUS
      <3> QED BY <2>2, <3>1
    <2>7. ASSUME NEW s \in SUBSET (1..(k + 1))
          PROVE  h[s] = IF s = {} THEN x ELSE g[<<h[s \ {Max(s)}], Max(s)>>]
      <3>1. CASE k + 1 \in s
        <4>1. k + 1 \in Nat
          OBVIOUS
        <4>2. Max(s) \in s /\ \A i \in s : i <= Max(s)
          BY <3>1, <4>1, LastPosition
        <4>3. Max(s) = k + 1
          <5>1. PICK m : m = Max(s)
            OBVIOUS
          <5>2. m \in 1..(k + 1) /\ k + 1 <= m
            BY <3>1, <4>2, <5>1
          <5> QED BY <5>1, <5>2
        <4>4. h[s \ {Max(s)}] = f[s \ {k + 1}]
          BY <2>3, <2>6, <4>3
        <4> QED BY <2>2, <3>1, <4>3, <4>4
      <3>2. CASE k + 1 \notin s
        <4>1. s \in SUBSET (1..k) /\ s \ {Max(s)} \in SUBSET (1..k)
          BY <2>3, <3>2
        <4>2. h[s] = f[s] /\ h[s \ {Max(s)}] = f[s \ {Max(s)}]
          BY <2>6, <4>1
        <4>3. f[s] = IF s = {} THEN x ELSE g[<<f[s \ {Max(s)}], Max(s)>>]
          BY <2>1, <4>1
        <4> QED BY <4>2, <4>3
      <3> QED BY <3>1, <3>2
    <2>8. Upto(k + 1, h)
      BY <2>7
    <2> HIDE DEF Upto
    <2> QED BY <2>5, <2>8
  <1>4. ASSUME T # {} PROVE FALSE
    <2> HIDE DEF T
    <2>1. T \subseteq Nat
      BY DEF T
    <2>2. PICK k \in T : \A m \in T : k <= m
      BY <1>4, <2>1, LeastNat
    <2>3. k \in 0..n /\ k # 0
      BY <1>2, <2>2 DEF T
    <2>4. PICK m \in 0..n : k = m + 1
      BY <2>3
    <2>5. m \in T
      BY <1>3, <2>2, <2>3, <2>4
    <2> QED BY <2>2, <2>4, <2>5
  <1> QED BY <1>4

-----------------------------------------------------------------------------
(* What the loops over the stream and module files leave in the database *)

\* The streams that count as configured have the layout of their file.
Configured(x, c) ==
    /\ x.layout \in Rows /\ x.conf \subseteq Streams
    /\ \A s \in x.conf : x.layout[s] # None /\ x.layout[s] = c.files[s]

Saved(c) == {x \in [layout : Rows, conf : SUBSET Streams] : Configured(x, c)}
Parsed(c) == {x \in [layout : Rows, conf : SUBSET Streams, ok : BOOLEAN, mods : SUBSET Modules] :
                 Configured(x, c)}

\* The functions the three folds recur with: over the stream files, over the
\* pipes of one side of a module, and over the modules.
SaveFrom(f, x, c, seq) ==
    [s \in SUBSET (DOMAIN seq) |-> IF s = {} THEN x ELSE LoadStream(f[s \ {Max(s)}], c, seq[Max(s)])]
ConnectFrom(f, x, pipes) ==
    [s \in SUBSET (DOMAIN pipes) |-> IF s = {} THEN x ELSE Connect(f[s \ {Max(s)}], pipes[Max(s)])]
PassFrom(f, x, c, side) ==
    [s \in SUBSET (DOMAIN c.order) |->
        IF s = {} THEN x ELSE LoadModule(f[s \ {Max(s)}], c, side, c.order[Max(s)])]

\* A fold is the value at all positions of such a function, if there is one.
LEMMA SaveFold ==
  ASSUME NEW x, NEW c, NEW f, f = SaveFrom(f, x, c, SetToSeq(Streams))
  PROVE  \E it : /\ it = SaveFrom(it, x, c, SetToSeq(Streams))
                 /\ LoadStreams(x, c) = it[DOMAIN SetToSeq(Streams)]
  BY DEF LoadStreams, FoldLeft, MapThenFoldSet, SaveFrom

LEMMA ConnectFold ==
  ASSUME NEW x, NEW pipes, NEW f, f = ConnectFrom(f, x, pipes)
  PROVE  \E it : it = ConnectFrom(it, x, pipes) /\ FoldLeft(Connect, x, pipes) = it[DOMAIN pipes]
  BY DEF FoldLeft, MapThenFoldSet, ConnectFrom

LEMMA PassFold ==
  ASSUME NEW x, NEW c, NEW side, NEW f, f = PassFrom(f, x, c, side)
  PROVE  \E it : it = PassFrom(it, x, c, side) /\ Pass(x, c, side) = it[DOMAIN c.order]
  BY DEF Pass, FoldLeft, MapThenFoldSet, PassFrom

\* The steps of the loops.
LEMMA LoadStreamSaves ==
  ASSUME NEW c \in Configs, NEW x \in Saved(c), NEW s \in Streams
  PROVE  LoadStream(x, c, s) \in Saved(c)
  <1>1. c.files[s] \in Layouts \cup {None}
    BY DEF Config
  <1>2. CASE c.files[s] = None \/ x.layout[s] \notin {None, c.files[s]}
    BY <1>2 DEF LoadStream, SaveStream
  <1>3. CASE c.files[s] # None /\ x.layout[s] \in {None, c.files[s]}
    <2>1. PICK l : l = c.files[s] /\ l \in Layouts
      BY <1>1, <1>3
    <2>2. PICK r, k : r = x.layout /\ k = x.conf
      OBVIOUS
    <2>3. x = [layout |-> r, conf |-> k] /\ r \in Rows /\ k \in SUBSET Streams
      BY <2>2 DEF Saved
    <2>4. LoadStream(x, c, s) = [layout |-> [r EXCEPT ![s] = l], conf |-> k \cup {s}]
      BY <1>3, <2>1, <2>2, <2>3 DEF LoadStream, SaveStream
    <2>5. [r EXCEPT ![s] = l] \in Rows
      BY <2>1, <2>3 DEF Rows
    <2>6. \A t \in k : r[t] # None /\ r[t] = c.files[t]
      BY <2>2 DEF Saved, Configured
    <2>7. \A t \in k \cup {s} : [r EXCEPT ![s] = l][t] # None /\ [r EXCEPT ![s] = l][t] = c.files[t]
      BY <2>1, <2>3, <2>6 DEF Rows
    <2>8. PICK w, j : w = [r EXCEPT ![s] = l] /\ j = k \cup {s}
      OBVIOUS
    <2>9. PICK y : y = [layout |-> w, conf |-> j]
      OBVIOUS
    <2>10. y.layout = w /\ y.conf = j /\ w \in Rows /\ j \in SUBSET Streams
      BY <2>3, <2>5, <2>8, <2>9
    <2>11. y \in Saved(c)
      BY <2>7, <2>8, <2>9, <2>10 DEF Saved, Configured
    <2> QED BY <2>4, <2>8, <2>9, <2>11
  <1> QED BY <1>2, <1>3

LEMMA ConnectParses ==
  ASSUME NEW c \in Configs, NEW x \in Parsed(c), NEW p \in Pipe
  PROVE  Connect(x, p) \in Parsed(c)
  <1>1. PICK r, k, o, q : r = x.layout /\ k = x.conf /\ o = x.ok /\ q = x.mods
    OBVIOUS
  <1>2. /\ x = [layout |-> r, conf |-> k, ok |-> o, mods |-> q]
        /\ r \in Rows /\ k \in SUBSET Streams /\ q \in SUBSET Modules
        /\ \A t \in k : r[t] # None /\ r[t] = c.files[t]
    BY <1>1 DEF Parsed, Configured
  <1>3. ASSUME NEW v \in BOOLEAN PROVE [x EXCEPT !.ok = v] \in Parsed(c)
    <2>1. [x EXCEPT !.ok = v] = [layout |-> r, conf |-> k, ok |-> v, mods |-> q]
      BY <1>2
    <2> QED BY <1>2, <2>1 DEF Parsed, Configured
  <1>4. CASE p.node = "local" /\ x.layout[p.stream] = None
    <2>1. PICK s, l : s = p.stream /\ l = p.inline /\ s \in Streams /\ l \in Layouts \cup {None}
      BY DEF Pipe
    <2>2. PICK y : y = [x EXCEPT !.layout[p.stream] = p.inline]
      OBVIOUS
    <2>3. y = [layout |-> [r EXCEPT ![s] = l], conf |-> k, ok |-> o, mods |-> q]
      BY <1>1, <1>2, <2>1, <2>2
    <2>4. PICK w : w = [r EXCEPT ![s] = l]
      OBVIOUS
    <2>5. w \in Rows /\ \A t \in Streams : t # s => w[t] = r[t]
      BY <1>2, <2>1, <2>4 DEF Rows
    <2>6. s \notin k
      BY <1>1, <1>2, <1>4, <2>1
    <2>7. \A t \in k : w[t] # None /\ w[t] = c.files[t]
      BY <1>2, <2>5, <2>6
    <2>8. o \in BOOLEAN
      BY <1>1 DEF Parsed
    <2>9. y \in Parsed(c)
      BY <1>2, <2>3, <2>4, <2>5, <2>7, <2>8 DEF Parsed, Configured
    <2> QED BY <1>3, <1>4, <2>2, <2>9 DEF Connect
  <1>5. CASE ~(p.node = "local" /\ x.layout[p.stream] = None)
    BY <1>3, <1>5 DEF Connect
  <1> QED BY <1>4, <1>5

\* The loops.
LEMMA LoadStreamsSaves ==
  ASSUME NEW c \in Configs, NEW x \in Saved(c)
  PROVE  LoadStreams(x, c) \in Saved(c)
  <1>0. PICK n : n = Cardinality(Streams) /\ n \in Nat /\ ExistsBijection(1..n, Streams)
    BY FS_CardinalityType
  <1>1. PICK seq : seq = SetToSeq(Streams) /\ seq \in [1..n -> Streams]
    <2>1. PICK h \in [1..n -> Streams] : IsInjective(h)
      BY <1>0 DEF ExistsBijection, Bijection, Injection
    <2>2. SetToSeq(Streams) = CHOOSE f \in [1..n -> Streams] : IsInjective(f)
      BY <1>0 DEF SetToSeq
    <2>3. SetToSeq(Streams) \in [1..n -> Streams]
      BY <2>1, <2>2
    <2> QED BY <2>3
  <1> DEFINE g == [p \in Saved(c) \X (1..n) |-> LoadStream(p[1], c, seq[p[2]])]
  <1>2. g \in [Saved(c) \X (1..n) -> Saved(c)]
    BY <1>1, LoadStreamSaves
  <1>3. PICK f \in [SUBSET (1..n) -> Saved(c)] : Recurs(f, x, n, g)
    <2> HIDE DEF g
    <2> QED BY <1>0, <1>2, FoldExists
  <1>4. f = SaveFrom(f, x, c, seq)
    <2>1. ASSUME NEW s \in SUBSET (1..n), s # {}
          PROVE  f[s] = LoadStream(f[s \ {Max(s)}], c, seq[Max(s)])
      <3>1. s \ {Max(s)} \in SUBSET (1..n) /\ Max(s) \in 1..n
        BY <1>0, <2>1, LastPosition
      <3>2. PICK y, m : y = f[s \ {Max(s)}] /\ m = Max(s)
        OBVIOUS
      <3>3. f[s] = g[<<y, m>>] /\ y \in Saved(c) /\ m \in 1..n
        <4> HIDE DEF g
        <4> QED BY <1>3, <2>1, <3>1, <3>2 DEF Recurs
      <3> QED BY <3>2, <3>3
    <2>2. f[{}] = x
      BY <1>3 DEF Recurs
    <2>3. DOMAIN seq = 1..n
      BY <1>1
    <2> HIDE DEF g
    <2> QED BY <1>3, <2>1, <2>2, <2>3 DEF SaveFrom
  <1>5. PICK it : it = SaveFrom(it, x, c, seq) /\ LoadStreams(x, c) = it[DOMAIN seq]
    BY <1>1, <1>4, SaveFold
  <1>6. DOMAIN seq = 1..n
    BY <1>1
  <1>7. \A s \in SUBSET (1..n) : it[s] = IF s = {} THEN x ELSE LoadStream(it[s \ {Max(s)}], c, seq[Max(s)])
    BY <1>5, <1>6 DEF SaveFrom
  <1>8. it[{}] \in Saved(c)
    BY <1>7
  <1>9. ASSUME NEW s \in SUBSET (1..n), s # {}, it[s \ {Max(s)}] \in Saved(c) PROVE it[s] \in Saved(c)
    <2>1. Max(s) \in 1..n
      BY <1>0, <1>9, LastPosition
    <2>2. PICK y, m : y = it[s \ {Max(s)}] /\ m = seq[Max(s)]
      OBVIOUS
    <2>3. y \in Saved(c) /\ m \in Streams
      BY <1>1, <1>9, <2>1, <2>2
    <2>4. LoadStream(y, c, m) \in Saved(c)
      BY <2>3, LoadStreamSaves
    <2> QED BY <1>7, <1>9, <2>2, <2>4
  <1>10. \A s \in SUBSET (1..n) : it[s] \in Saved(c)
    BY <1>0, <1>8, <1>9, FoldStays
  <1> QED BY <1>5, <1>6, <1>10

LEMMA ConnectPipesParses ==
  ASSUME NEW c \in Configs, NEW b \in Parsed(c), NEW pipes \in Seq(Pipe)
  PROVE  ConnectPipes(b, pipes) \in Parsed(c)
  <1>0. PICK n : n = Len(pipes) /\ n \in Nat
    OBVIOUS
  <1>1. pipes \in [1..n -> Pipe] /\ DOMAIN pipes = 1..n
    BY <1>0
  <1>2. PICK x \in Parsed(c) : x = [b EXCEPT !.ok = TRUE]
    <2>1. PICK r, k, o, q : r = b.layout /\ k = b.conf /\ o = b.ok /\ q = b.mods
      OBVIOUS
    <2>2. b = [layout |-> r, conf |-> k, ok |-> o, mods |-> q]
      BY <2>1 DEF Parsed
    <2>3. PICK v \in BOOLEAN : v = TRUE
      OBVIOUS
    <2>4. [b EXCEPT !.ok = v] = [layout |-> r, conf |-> k, ok |-> v, mods |-> q]
      BY <2>2
    <2>5. [b EXCEPT !.ok = v] \in Parsed(c)
      BY <2>1, <2>3, <2>4 DEF Parsed, Configured
    <2> QED BY <2>3, <2>5
  <1> DEFINE g == [p \in Parsed(c) \X (1..n) |-> Connect(p[1], pipes[p[2]])]
  <1>3. g \in [Parsed(c) \X (1..n) -> Parsed(c)]
    BY <1>1, ConnectParses
  <1>4. PICK f \in [SUBSET (1..n) -> Parsed(c)] : Recurs(f, x, n, g)
    <2> HIDE DEF g
    <2> QED BY <1>0, <1>2, <1>3, FoldExists
  <1>5. f = ConnectFrom(f, x, pipes)
    <2>1. ASSUME NEW s \in SUBSET (1..n), s # {}
          PROVE  f[s] = Connect(f[s \ {Max(s)}], pipes[Max(s)])
      <3>1. s \ {Max(s)} \in SUBSET (1..n) /\ Max(s) \in 1..n
        BY <1>0, <2>1, LastPosition
      <3>2. PICK y, m : y = f[s \ {Max(s)}] /\ m = Max(s)
        OBVIOUS
      <3>3. f[s] = g[<<y, m>>] /\ y \in Parsed(c) /\ m \in 1..n
        <4> HIDE DEF g
        <4> QED BY <1>4, <2>1, <3>1, <3>2 DEF Recurs
      <3> QED BY <3>2, <3>3
    <2>2. f[{}] = x
      BY <1>4 DEF Recurs
    <2> HIDE DEF g
    <2> QED BY <1>1, <1>4, <2>1, <2>2 DEF ConnectFrom
  <1>6. PICK it : it = ConnectFrom(it, x, pipes) /\ FoldLeft(Connect, x, pipes) = it[DOMAIN pipes]
    BY <1>5, ConnectFold
  <1>7. \A s \in SUBSET (1..n) : it[s] = IF s = {} THEN x ELSE Connect(it[s \ {Max(s)}], pipes[Max(s)])
    BY <1>1, <1>6 DEF ConnectFrom
  <1>8. it[{}] \in Parsed(c)
    BY <1>2, <1>7
  <1>9. ASSUME NEW s \in SUBSET (1..n), s # {}, it[s \ {Max(s)}] \in Parsed(c)
        PROVE  it[s] \in Parsed(c)
    <2>1. Max(s) \in 1..n
      BY <1>0, <1>9, LastPosition
    <2>2. PICK y, p : y = it[s \ {Max(s)}] /\ p = pipes[Max(s)]
      OBVIOUS
    <2>3. y \in Parsed(c) /\ p \in Pipe
      BY <1>1, <1>9, <2>1, <2>2
    <2>4. Connect(y, p) \in Parsed(c)
      BY <2>3, ConnectParses
    <2> QED BY <1>7, <1>9, <2>2, <2>4
  <1>10. \A s \in SUBSET (1..n) : it[s] \in Parsed(c)
    BY <1>0, <1>8, <1>9, FoldStays
  <1> QED BY <1>1, <1>2, <1>6, <1>10 DEF ConnectPipes

LEMMA LoadModuleParses ==
  ASSUME NEW c \in Configs, NEW x \in Parsed(c), NEW side \in {"outs", "ins"}, NEW m \in Modules
  PROVE  LoadModule(x, c, side, m) \in Parsed(c)
  <1>1. c.mods[m][side] \in Seq(Pipe)
    <2>1. PICK r : r = c.mods[m] /\ r \in [ok : BOOLEAN, outs : Seq(Pipe), ins : Seq(Pipe)]
      BY DEF Config
    <2>2. r["outs"] \in Seq(Pipe) /\ r["ins"] \in Seq(Pipe)
      BY <2>1
    <2> QED BY <2>1, <2>2
  <1>2. PICK y \in Parsed(c) : y = ConnectPipes(x, c.mods[m][side])
    BY <1>1, ConnectPipesParses
  <1>3. PICK q : q = (IF y.ok THEN y.mods ELSE y.mods \ {m}) /\ q \in SUBSET Modules
    <2>1. y.mods \in SUBSET Modules
      BY <1>2 DEF Parsed
    <2>2. y.mods \ {m} \in SUBSET Modules
      BY <2>1
    <2>3. (IF y.ok THEN y.mods ELSE y.mods \ {m}) \in SUBSET Modules
      BY <2>1, <2>2, Zenon
    <2> QED BY <2>3
  <1>4. PICK z : z = [y EXCEPT !.mods = IF y.ok THEN @ ELSE @ \ {m}]
    OBVIOUS
  <1>5. z \in Parsed(c)
    <2>1. PICK r, k, o : r = y.layout /\ k = y.conf /\ o = y.ok
      OBVIOUS
    <2>2. z = [layout |-> r, conf |-> k, ok |-> o, mods |-> q]
      BY <1>2, <1>3, <1>4, <2>1 DEF Parsed
    <2> QED BY <1>2, <1>3, <2>1, <2>2 DEF Parsed, Configured
  <1> QED BY <1>2, <1>4, <1>5 DEF LoadModule

LEMMA PassParses ==
  ASSUME NEW c \in Configs, NEW x \in Parsed(c), NEW side \in {"outs", "ins"}
  PROVE  Pass(x, c, side) \in Parsed(c)
  <1>0. PICK n : n = Len(c.order) /\ n \in Nat /\ c.order \in Seq(Modules)
    BY DEF Config
  <1>1. c.order \in [1..n -> Modules] /\ DOMAIN c.order = 1..n
    BY <1>0
  <1> DEFINE g == [p \in Parsed(c) \X (1..n) |-> LoadModule(p[1], c, side, c.order[p[2]])]
  <1>3. g \in [Parsed(c) \X (1..n) -> Parsed(c)]
    BY <1>1, LoadModuleParses
  <1>4. PICK f \in [SUBSET (1..n) -> Parsed(c)] : Recurs(f, x, n, g)
    <2> HIDE DEF g
    <2> QED BY <1>0, <1>3, FoldExists
  <1>5. f = PassFrom(f, x, c, side)
    <2>1. ASSUME NEW s \in SUBSET (1..n), s # {}
          PROVE  f[s] = LoadModule(f[s \ {Max(s)}], c, side, c.order[Max(s)])
      <3>1. s \ {Max(s)} \in SUBSET (1..n) /\ Max(s) \in 1..n
        BY <1>0, <2>1, LastPosition
      <3>2. PICK y, m : y = f[s \ {Max(s)}] /\ m = Max(s)
        OBVIOUS
      <3>3. f[s] = g[<<y, m>>] /\ y \in Parsed(c) /\ m \in 1..n
        <4> HIDE DEF g
        <4> QED BY <1>4, <2>1, <3>1, <3>2 DEF Recurs
      <3> QED BY <3>2, <3>3
    <2>2. f[{}] = x
      BY <1>4 DEF Recurs
    <2> HIDE DEF g
    <2> QED BY <1>1, <1>4, <2>1, <2>2 DEF PassFrom
  <1>6. PICK it : it = PassFrom(it, x, c, side) /\ Pass(x, c, side) = it[DOMAIN c.order]
    BY <1>5, PassFold
  <1>7. \A s \in SUBSET (1..n) :
          it[s] = IF s = {} THEN x ELSE LoadModule(it[s \ {Max(s)}], c, side, c.order[Max(s)])
    BY <1>1, <1>6 DEF PassFrom
  <1>8. it[{}] \in Parsed(c)
    BY <1>7
  <1>9. ASSUME NEW s \in SUBSET (1..n), s # {}, it[s \ {Max(s)}] \in Parsed(c)
        PROVE  it[s] \in Parsed(c)
    <2>1. Max(s) \in 1..n
      BY <1>0, <1>9, LastPosition
    <2>2. PICK y, m : y = it[s \ {Max(s)}] /\ m = c.order[Max(s)]
      OBVIOUS
    <2>3. y \in Parsed(c) /\ m \in Modules
      BY <1>1, <1>9, <2>1, <2>2
    <2>4. LoadModule(y, c, side, m) \in Parsed(c)
      BY <2>3, LoadModuleParses
    <2> QED BY <1>7, <1>9, <2>2, <2>4
  <1>10. \A s \in SUBSET (1..n) : it[s] \in Parsed(c)
    BY <1>0, <1>8, <1>9, FoldStays
  <1> QED BY <1>1, <1>6, <1>10

\* Whatever the database held, and whatever the files say, in whatever order.
LEMMA LoadedConfigured ==
  ASSUME NEW c \in Configs, NEW rows \in Rows, NEW x,
         x = LoadModules(LoadStreams([layout |-> rows, conf |-> {}], c), c)
  PROVE  Configured(x, c)
  <1>1. PICK y : y = [layout |-> rows, conf |-> {}] /\ y \in Saved(c)
    BY DEF Saved, Configured
  <1>2. PICK z \in Saved(c) : z = LoadStreams(y, c)
    BY <1>1, LoadStreamsSaves
  <1>3. PICK p : p = [layout |-> z.layout, conf |-> z.conf, ok |-> TRUE,
                      mods |-> {m \in Modules : c.mods[m].ok}]
    OBVIOUS
  <1>4. p \in Parsed(c)
    BY <1>2, <1>3 DEF Saved, Parsed, Configured
  <1>5. PICK o : o = Pass(p, c, "outs") /\ o \in Parsed(c)
    BY <1>4, PassParses
  <1>6. Pass(o, c, "ins") \in Parsed(c)
    BY <1>5, PassParses
  <1>7. x = Pass(o, c, "ins")
    BY <1>1, <1>2, <1>3, <1>5 DEF LoadModules
  <1> QED BY <1>6, <1>7 DEF Parsed

-----------------------------------------------------------------------------
(* The types *)

LEMMA NextShape ==
  ASSUME Shape, NEW d \in Daemons,
         \/ LoadConfig(d) \/ Check(d) \/ Clear(d) \/ OpenPid(d) \/ WritePid(d)
         \/ Configure(d) \/ TaskDies(d) \/ Stop(d) \/ Unlink(d) \/ Crash(d)
  PROVE  Shape'
  <1>1. \E l \in Places : pc' = [pc EXCEPT ![d] = l]
    <2>1. CASE TaskDies(d)
      <3>1. pc' = [pc EXCEPT ![d] = "run"]
        BY <2>1 DEF TaskDies, Shape
      <3> QED BY <3>1 DEF Places
    <2>2. CASE LoadConfig(d) \/ Check(d) \/ Clear(d) \/ OpenPid(d) \/ WritePid(d)
      BY <2>2 DEF LoadConfig, Check, Clear, OpenPid, WritePid, Goto, Places
    <2>3. CASE Configure(d) \/ Stop(d) \/ Crash(d)
      BY <2>3 DEF Configure, Stop, Crash, Goto, Places
    <2>4. CASE Unlink(d)
      BY <2>4 DEF Unlink, Goto, Places
    <2> QED BY <2>1, <2>2, <2>3, <2>4
  <1>2. raced' \in BOOLEAN
    <2>1. CASE Check(d)
      BY <2>1, Zenon DEF Check, Shape
    <2>2. CASE ~Check(d)
      <3>1. raced' = raced
        BY <2>2 DEF LoadConfig, Clear, OpenPid, WritePid, Configure, TaskDies, Stop,
                    Unlink, Crash
      <3> QED BY <3>1 DEF Shape
    <2> QED BY <2>1, <2>2
  <1>3. DOMAIN loaded' = Daemons /\ DOMAIN config' = Daemons
    <2>1. CASE Configure(d)
      <3>1. PICK c \in Configs :
               LET x == LoadModules(LoadStreams([layout |-> layout, conf |-> {}], c), c)
               IN  /\ config' = [config EXCEPT ![d] = c]
                   /\ loaded' = [loaded EXCEPT ![d] = x.mods]
        BY <2>1 DEF Configure
      <3> QED BY <3>1 DEF Shape
    <2>2. CASE Stop(d) \/ Crash(d)
      BY <2>2 DEF Stop, Crash, Forget, Shape
    <2>3. CASE ~(Configure(d) \/ Stop(d) \/ Crash(d))
      <3>1. UNCHANGED <<loaded, config>>
        BY <2>3 DEF LoadConfig, Check, Clear, OpenPid, WritePid, TaskDies, Unlink
      <3> QED BY <3>1 DEF Shape
    <2> QED BY <2>1, <2>2, <2>3
  <1>4. layout' \in Rows
    <2>1. CASE Configure(d)
      <3>1. PICK c \in Configs :
               layout' = LoadModules(LoadStreams([layout |-> layout, conf |-> {}], c), c).layout
        BY <2>1 DEF Configure
      <3>2. PICK x : x = LoadModules(LoadStreams([layout |-> layout, conf |-> {}], c), c)
        OBVIOUS
      <3>3. Configured(x, c)
        BY <3>2, LoadedConfigured DEF Shape
      <3> QED BY <3>1, <3>2, <3>3 DEF Configured
    <2>2. CASE ~Configure(d)
      <3>1. layout' = layout
        BY <2>2 DEF LoadConfig, Check, Clear, OpenPid, WritePid, TaskDies, Stop, Unlink, Crash, db
      <3> QED BY <3>1 DEF Shape
    <2> QED BY <2>1, <2>2
  <1> QED BY <1>1, <1>2, <1>3, <1>4 DEF Shape

-----------------------------------------------------------------------------
(* The owner of the files *)

\* A process that passes the check of the pid file while nobody is in a window
\* finds nobody running: a running process is alive and has its pid in the file.
LEMMA CheckOwner ==
  ASSUME Inv, NEW d \in Daemons, Check(d), ~raced'
  PROVE  OneOwner'
  <1>1. ~raced /\ UNCHANGED <<pidfile, socket>>
    BY DEF Check, files, Inv, Shape
  <1>2. CASE Goto(d, "dead")
    <2>1. \A e \in Daemons : e # d => pc'[e] = pc[e]
      BY <1>2 DEF Goto, Inv, Shape
    <2>2. pc'[d] = "dead"
      BY <1>2 DEF Goto, Inv, Shape
    <2> QED BY <1>1, <2>1, <2>2 DEF Inv, OneOwner, Owns, InWindow
  <1>3. CASE /\ pidfile = None \/ \E e \in Daemons : pidfile = e /\ ~Alive(e)
             /\ Goto(d, "clear")
             /\ raced' = (raced \/ \E e \in Daemons \ {d} : InWindow(e))
    <2>1. \A e \in Daemons : e # d => pc'[e] = pc[e]
      BY <1>3 DEF Goto, Inv, Shape
    <2>2. pc'[d] = "clear"
      BY <1>3 DEF Goto, Inv, Shape
    <2>3. \A e \in Daemons : e # d => ~InWindow(e)
      BY <1>3
    <2>4. \A e \in Daemons : e # d => pc[e] \notin {"init", "run"}
      BY <1>1, <1>3 DEF Inv, OneOwner, Alive
    <2> QED BY <1>1, <2>1, <2>2, <2>3, <2>4 DEF OneOwner, Owns, InWindow
  <1> QED BY <1>2, <1>3 DEF Check

\* A step of the owner: the others own nothing, before and after.
LEMMA OwnerOnly ==
  ASSUME Inv, NEW d \in Daemons, NEW l \in Places, Owns(d), ~raced,
         pc' = [pc EXCEPT ![d] = l],
         l \in {"init", "run"} => pidfile' = d,
         l = "run" => socket' = d
  PROVE  OneOwner'
  <1>1. \A e \in Daemons : e # d => pc'[e] = pc[e] /\ ~Owns(e)
    BY DEF Inv, Shape, OneOwner
  <1>2. pc'[d] = l
    BY DEF Inv, Shape
  <1> QED BY <1>1, <1>2 DEF OneOwner, Owns, InWindow

\* A step of a process that leaves the files alone and does not come to own them.
LEMMA OthersKept ==
  ASSUME Inv, NEW d \in Daemons, NEW l \in {"check", "dead"}, ~raced,
         pc' = [pc EXCEPT ![d] = l], UNCHANGED <<pidfile, socket>>
  PROVE  OneOwner'
  <1>1. \A e \in Daemons : e # d => pc'[e] = pc[e]
    BY DEF Inv, Shape
  <1>2. pc'[d] = l
    BY DEF Inv, Shape
  <1> QED BY <1>1, <1>2 DEF Inv, OneOwner, Owns, InWindow

LEMMA NextOwner ==
  ASSUME Inv, NEW d \in Daemons, ~raced',
         \/ LoadConfig(d) \/ Check(d) \/ Clear(d) \/ OpenPid(d) \/ WritePid(d)
         \/ Configure(d) \/ TaskDies(d) \/ Stop(d) \/ Unlink(d) \/ Crash(d)
  PROVE  OneOwner'
  <1> USE DEF Goto, files
  <1>1. CASE LoadConfig(d)
    BY <1>1, OthersKept DEF LoadConfig
  <1>2. CASE Check(d)
    BY <1>2, CheckOwner
  <1>3. CASE Clear(d)
    BY <1>3, OwnerOnly DEF Clear, Owns, InWindow, Places
  <1>4. CASE OpenPid(d)
    BY <1>4, OwnerOnly DEF OpenPid, Owns, InWindow, Places
  <1>5. CASE WritePid(d)
    BY <1>5, OwnerOnly DEF WritePid, Owns, InWindow, Places
  <1>6. CASE Configure(d)
    <2>1. /\ pc[d] = "init" /\ socket' = d /\ pc' = [pc EXCEPT ![d] = "run"]
          /\ pidfile' = pidfile /\ raced' = raced
      BY <1>6 DEF Configure
    <2>2. pidfile = d
      BY <2>1 DEF Inv, OneOwner
    <2> QED BY <2>1, <2>2, OwnerOnly DEF Owns, Places
  <1>7. CASE TaskDies(d)
    BY <1>7 DEF TaskDies, Inv, OneOwner, Owns, InWindow
  <1>8. CASE Stop(d)
    BY <1>8, OwnerOnly DEF Stop, Owns, Places
  <1>9. CASE Unlink(d)
    <2>1. PICK l \in {"dead", "unlink"} : pc' = [pc EXCEPT ![d] = l]
      BY <1>9 DEF Unlink
    <2>2. Owns(d) /\ ~raced
      BY <1>9 DEF Unlink, Owns, InWindow
    <2> QED BY <2>1, <2>2, OwnerOnly DEF Places
  <1>10. CASE Crash(d)
    BY <1>10, OthersKept DEF Crash
  <1> QED BY <1>1, <1>2, <1>3, <1>4, <1>5, <1>6, <1>7, <1>8, <1>9, <1>10

LEMMA NextInv == Inv /\ Next => Inv'
  <1> SUFFICES ASSUME Inv, Next PROVE Inv'
    OBVIOUS
  <1>1. Shape'
    BY NextShape DEF Inv, Next
  <1>2. OneOwner'
    BY NextOwner DEF Next, OneOwner
  <1> QED BY <1>1, <1>2 DEF Inv

\* The invariant of the proofs holds in every state.
THEOREM InvHolds == Spec => []Inv
  BY InitInv, StutterInv, NextInv, PTL DEF Spec

-----------------------------------------------------------------------------
(* The theorems *)

LEMMA AtMostOne ==
  ASSUME NEW S, \A d, e \in S : d = e
  PROVE  Cardinality(S) <= 1
  <1>1. CASE S = {}
    BY <1>1, FS_EmptySet
  <1>2. CASE S # {}
    <2>1. PICK d : S = {d}
      BY <1>2
    <2> QED BY <2>1, FS_Singleton
  <1> QED BY <1>1, <1>2

\* One daemon runs at a time and clients reach it through its socket, whoever
\* crashed before and whatever files were left: the check of the pid file lets
\* nobody pass a running daemon, and only the owner of the files touches them.
THEOREM DaemonsApart == Spec => []OneDaemon
  <1>1. Inv => OneDaemon
    <2> SUFFICES ASSUME Inv, ~raced
                 PROVE  /\ Cardinality(Running) <= 1
                        /\ \A d \in Daemons : pc[d] = "run" => socket = d /\ pidfile = d
      BY DEF OneDaemon
    <2>1. \A d, e \in Running : d = e
      BY DEF Running, Inv, OneOwner, Owns
    <2>2. Cardinality(Running) <= 1
      BY <2>1, AtMostOne
    <2> QED BY <2>2 DEF Inv, OneOwner
  <1> QED BY InvHolds, <1>1, PTL

\* A process that is neither in the window nor past it never changes the files:
\* what a daemon wrote stays until it, or a later owner, removes it.
FilesOwned ==
    ~raced' => \A d \in Daemons :
        pc[d] \in {"init", "run"} /\ pc'[d] \in {"init", "run"} =>
            pidfile' = d /\ (pc[d] = "run" => socket' = socket)

\* While a daemon is between the writing of its pid and the end of its run no
\* step of another process touches the pid file or the socket.
THEOREM FilesKept == Spec => [][FilesOwned]_vars
  <1>1. Inv /\ Inv' /\ Next => FilesOwned
    <2> SUFFICES ASSUME Inv, Inv', Next, ~raced', NEW d \in Daemons,
                        pc[d] \in {"init", "run"}, pc'[d] \in {"init", "run"}
                 PROVE  pidfile' = d /\ (pc[d] = "run" => socket' = socket)
      BY DEF FilesOwned
    <2>1. pidfile' = d
      BY DEF Inv, OneOwner
    <2>2. ASSUME pc[d] = "run" PROVE socket' = socket
      <3>1. pc'[d] = "run"
        BY <2>2 DEF Next, LoadConfig, Check, Clear, OpenPid, WritePid, Configure,
                    TaskDies, Stop, Unlink, Crash, Goto, Inv, Shape
      <3>2. socket' = d
        BY <3>1 DEF Inv, OneOwner
      <3>3. ~raced
        BY DEF Next, LoadConfig, Check, Clear, OpenPid, WritePid, Configure,
                    TaskDies, Stop, Unlink, Crash, Inv, Shape
      <3> QED BY <2>2, <3>2, <3>3 DEF Inv, OneOwner
    <2> QED BY <2>1, <2>2
  <1> QED BY InvHolds, <1>1, PTL DEF Spec

-----------------------------------------------------------------------------
(* The flags of the streams *)

\* Another process configures itself only when no daemon runs.
LEMMA ConfigureFlags ==
  ASSUME Inv, NEW d \in Daemons, Configure(d), ~raced'
  PROVE  FlagsMatch'
  <1>1. pc[d] = "init" /\ pc' = [pc EXCEPT ![d] = "run"] /\ ~raced
    BY DEF Configure, Goto
  <1>2. \A e \in Daemons : e # d => pc'[e] # "run"
    BY <1>1 DEF Inv, Shape, OneOwner, Owns
  <1> DEFINE Result(c) == LoadModules(LoadStreams([layout |-> layout, conf |-> {}], c), c)
  <1>0. PICK c \in Configs :
          /\ config' = [config EXCEPT ![d] = c]
          /\ layout' = Result(c).layout /\ flags' = Flags(Result(c), c)
          /\ loaded' = [loaded EXCEPT ![d] = Result(c).mods]
    BY DEF Configure
  <1>3. PICK x :
          /\ x = Result(c)
          /\ config' = [config EXCEPT ![d] = c]
          /\ layout' = x.layout /\ flags' = Flags(x, c)
          /\ loaded' = [loaded EXCEPT ![d] = x.mods]
    BY <1>0
  <1>4. config'[d] = c /\ loaded'[d] = x.mods
    BY <1>3 DEF Inv, Shape
  <1>5. Configured(x, c)
    BY <1>3, LoadedConfigured DEF Inv, Shape
  <1>6. flags'.dest = OutsOf(c, x.mods) /\ flags'.src = InsOf(c, x.mods) /\ flags'.conf = x.conf
    BY <1>3 DEF Flags
  <1>7. flags'.conf \subseteq {s \in Streams : c.files[s] = layout'[s]}
    BY <1>3, <1>5, <1>6 DEF Configured
  <1> QED BY <1>2, <1>4, <1>6, <1>7 DEF FlagsMatch, OutsOf, InsOf

LEMMA NextFlags ==
  ASSUME Inv, FlagsMatch, NEW d \in Daemons, ~raced',
         \/ LoadConfig(d) \/ Check(d) \/ Clear(d) \/ OpenPid(d) \/ WritePid(d)
         \/ Configure(d) \/ TaskDies(d) \/ Stop(d) \/ Unlink(d) \/ Crash(d)
  PROVE  FlagsMatch'
  <1>1. CASE Configure(d)
    BY <1>1, ConfigureFlags
  <1>2. CASE ~Configure(d)
    <2>1. flags' = flags /\ layout' = layout /\ ~raced
      BY <1>2 DEF LoadConfig, Check, Clear, OpenPid, WritePid, TaskDies, Stop, Unlink, Crash,
                  db, Inv, Shape
    <2>2. ASSUME NEW e \in Daemons, pc'[e] = "run"
          PROVE  pc[e] = "run" /\ loaded'[e] = loaded[e] /\ config'[e] = config[e]
      <3>1. CASE Stop(d) \/ Crash(d)
        BY <2>2, <3>1 DEF Stop, Crash, Goto, Forget, Inv, Shape
      <3>2. CASE ~(Stop(d) \/ Crash(d))
        BY <1>2, <2>2, <3>2 DEF LoadConfig, Check, Clear, OpenPid, WritePid, TaskDies, Unlink,
                                Goto, Inv, Shape
      <3> QED BY <3>1, <3>2
    <2> QED BY <2>1, <2>2 DEF FlagsMatch, OutsOf, InsOf
  <1> QED BY <1>1, <1>2

\* While a daemon runs, a stream is marked as a destination, or as a source, exactly
\* when one of the modules it has loaded produces, or reads, it, and is configured
\* only with the layout of its file: every start resets the flags, whatever the last
\* run left, and no other process commits its own before the daemon has ended
\* (daemon.py:initialize).
THEOREM FlagsFollow == Spec => []FlagsMatch
  <1>1. Init => FlagsMatch
    BY DEF Init, FlagsMatch
  <1>2. Inv /\ FlagsMatch /\ [Next]_vars => FlagsMatch'
    <2>1. ASSUME Inv, FlagsMatch, UNCHANGED vars PROVE FlagsMatch'
      BY <2>1 DEF FlagsMatch, vars, db, OutsOf, InsOf
    <2>2. ASSUME Inv, FlagsMatch, Next PROVE FlagsMatch'
      <3>1. CASE raced'
        BY <3>1 DEF FlagsMatch
      <3>2. CASE ~raced'
        BY <2>2, <3>2, NextFlags DEF Next
      <3> QED BY <3>1, <3>2
    <2> QED BY <2>1, <2>2
  <1> QED BY <1>1, <1>2, InvHolds, PTL DEF Spec

=============================================================================
