-------------------------- MODULE OutputHandlerProof --------------------------
(***************************************************************************)
(* Proofs about OutputHandler for every set of pipes and every bound: the  *)
(* fan-out of an output keeps the intervals of each subscriber, and the    *)
(* breaks run() writes never raise.                                        *)
(***************************************************************************)
EXTENDS OutputHandler, SequenceTheorems, WellFoundedInduction, TLAPS

USE HandlerConstants DEF NoBlock

-----------------------------------------------------------------------------
(* Lists without duplicates and list.remove *)

Distinct(s) == \A i, j \in DOMAIN s : i # j => s[i] # s[j]

\* The least number of a set: what induction over Nat comes down to.
LEMMA LeastNat ==
  ASSUME NEW T \in SUBSET Nat, T # {}
  PROVE  \E n \in T : \A m \in T : n <= m
  <1> DEFINE R == {p \in Nat \X Nat : p[1] < p[2]}
  <1>1. IsWellFoundedOn(R, Nat)
    BY NatLessThanWellFounded DEF OpToRel
  <1>2. PICK n \in T : \A m \in T : <<m, n>> \notin R
    <2> HIDE DEF R
    <2> QED BY <1>1, WFMin
  <1>3. \A m \in T : ~(m < n)
    BY <1>2
  <1> QED BY <1>3

LEMMA RemoveAtElements ==
  ASSUME NEW S, NEW s \in Seq(S), NEW k \in 1..Len(s)
  PROVE  /\ RemoveAt(s, k) \in Seq(S)
         /\ Len(RemoveAt(s, k)) = Len(s) - 1
         /\ \A i \in 1..(Len(s) - 1) :
               RemoveAt(s, k)[i] = IF i < k THEN s[i] ELSE s[i + 1]
  <1> DEFINE a == SubSeq(s, 1, k - 1)
             b == SubSeq(s, k + 1, Len(s))
  <1>1. Len(s) \in Nat
    OBVIOUS
  <1>2. a \in Seq(S) /\ Len(a) = k - 1 /\ \A i \in 1..(k - 1) : a[i] = s[i]
    BY <1>1, SubSeqProperties
  <1>3. /\ b \in Seq(S) /\ Len(b) = Len(s) - k
        /\ \A i \in 1..(Len(s) - k) : b[i] = s[k + i]
    BY <1>1, SubSeqProperties
  <1>4. RemoveAt(s, k) = a \o b
    BY DEF RemoveAt
  <1> HIDE DEF a, b
  <1>5. /\ a \o b \in Seq(S) /\ Len(a \o b) = Len(a) + Len(b)
        /\ \A i \in 1..(Len(a) + Len(b)) :
              (a \o b)[i] = IF i <= Len(a) THEN a[i] ELSE b[i - Len(a)]
    <2>1. PICK x \in Seq(S) : x = a
      BY <1>2
    <2>2. PICK y \in Seq(S) : y = b
      BY <1>3
    <2>3. /\ x \o y \in Seq(S) /\ Len(x \o y) = Len(x) + Len(y)
          /\ \A i \in 1..(Len(x) + Len(y)) :
                (x \o y)[i] = IF i <= Len(x) THEN x[i] ELSE y[i - Len(x)]
      BY ConcatProperties
    <2> QED BY <2>1, <2>2, <2>3, Zenon
  <1>6. ASSUME NEW i \in 1..(Len(s) - 1)
        PROVE  (a \o b)[i] = IF i < k THEN s[i] ELSE s[i + 1]
    <2>1. CASE i < k
      BY <1>1, <1>2, <1>3, <1>5, <2>1
    <2>2. CASE ~(i < k)
      <3>1. i - (k - 1) \in 1..(Len(s) - k) /\ k + (i - (k - 1)) = i + 1
        BY <1>1, <2>2
      <3>2. b[i - (k - 1)] = s[i + 1]
        BY <1>3, <3>1
      <3>3. i \in 1..(Len(a) + Len(b)) /\ ~(i <= Len(a))
        BY <1>1, <1>2, <1>3, <2>2
      <3>4. (a \o b)[i] = b[i - (k - 1)]
        BY <1>2, <1>5, <3>3
      <3> QED BY <2>2, <3>2, <3>4
    <2> QED BY <2>1, <2>2
  <1> QED BY <1>1, <1>2, <1>3, <1>4, <1>5, <1>6

\* subscribers.remove(pipe): what is left are the other pipes, once each.
LEMMA RemoveFirstElements ==
  ASSUME NEW S, NEW s \in Seq(S), Distinct(s), NEW e
  PROVE  /\ RemoveFirst(s, e) \in Seq(S)
         /\ Distinct(RemoveFirst(s, e))
         /\ ToSet(RemoveFirst(s, e)) \subseteq ToSet(s) \ {e}
  <1>1. CASE \E i \in 1..Len(s) : s[i] = e
    <2> DEFINE I == {i \in 1..Len(s) : s[i] = e}
    <2>1. SelectInSeq(s, LAMBDA v : v = e) \in I
      <3>1. PICK n \in I : \A m \in I : n <= m
        <4>1. I \in SUBSET Nat /\ I # {}
          BY <1>1
        <4> HIDE DEF I
        <4> QED BY <4>1, LeastNat
      <3>2. Min(I) \in I
        BY <3>1 DEF Min
      <3>3. SelectInSeq(s, LAMBDA v : v = e) = Min(I)
        BY <3>1 DEF SelectInSeq
      <3> QED BY <3>2, <3>3
    <2>2. PICK k \in 1..Len(s) : s[k] = e /\ RemoveFirst(s, e) = RemoveAt(s, k)
      BY <1>1, <2>1 DEF RemoveFirst
    <2> DEFINE r == RemoveAt(s, k)
    <2>3. /\ r \in Seq(S) /\ Len(r) = Len(s) - 1 /\ Len(s) \in Nat
          /\ \A i \in 1..(Len(s) - 1) : r[i] = IF i < k THEN s[i] ELSE s[i + 1]
      BY RemoveAtElements
    <2> HIDE DEF r
    <2>4. DOMAIN r = 1..(Len(s) - 1) /\ DOMAIN s = 1..Len(s)
      BY <2>3
    <2> DEFINE from(i) == IF i < k THEN i ELSE i + 1
    <2>5. \A i \in DOMAIN r : from(i) \in DOMAIN s \ {k} /\ r[i] = s[from(i)]
      BY <2>3, <2>4
    <2>6. \A i, j \in DOMAIN r : i # j => from(i) # from(j)
      BY <2>3, <2>4
    <2>7. Distinct(r)
      BY <2>5, <2>6 DEF Distinct
    <2>8. \A i \in DOMAIN r : r[i] \in ToSet(s) /\ r[i] # e
      BY <2>2, <2>4, <2>5 DEF Distinct, ToSet
    <2> QED BY <2>2, <2>3, <2>7, <2>8 DEF ToSet, r
  <1>2. CASE ~ \E i \in 1..Len(s) : s[i] = e
    BY <1>2 DEF RemoveFirst, ToSet
  <1> QED BY <1>1, <1>2

LEMMA AppendElements ==
  ASSUME NEW S, NEW s \in Seq(S), Distinct(s), NEW e \in S, e \notin ToSet(s)
  PROVE  /\ Append(s, e) \in Seq(S) /\ Distinct(Append(s, e))
         /\ ToSet(Append(s, e)) = ToSet(s) \cup {e}
  <1> DEFINE r == Append(s, e)
  <1>1. /\ r \in Seq(S) /\ Len(s) \in Nat /\ Len(r) = Len(s) + 1
        /\ \A i \in 1..Len(s) : r[i] = s[i]
        /\ r[Len(s) + 1] = e
    BY AppendProperties, LenProperties
  <1>2. DOMAIN r = 1..(Len(s) + 1) /\ DOMAIN s = 1..Len(s)
    BY <1>1
  <1> HIDE DEF r
  <1>3. \A i \in DOMAIN r :
           \/ i \in DOMAIN s /\ r[i] = s[i]
           \/ i = Len(s) + 1 /\ r[i] = e
    <2>1. PICK n \in Nat : n = Len(s)
      BY <1>1
    <2>2. \A i \in 1..(n + 1) : i \in 1..n \/ i = n + 1
      BY <2>1
    <2> QED BY <1>1, <1>2, <2>1, <2>2
  <1>4. \A i \in DOMAIN s : s[i] # e
    BY DEF ToSet
  <1>5. Distinct(r)
    BY <1>3, <1>4 DEF Distinct
  <1>6. ToSet(r) = ToSet(s) \cup {e}
    BY <1>1, <1>2, <1>3 DEF ToSet
  <1> QED BY <1>1, <1>5, <1>6 DEF r

LEMMA TailElements ==
  ASSUME NEW S, NEW s \in Seq(S), s # <<>>
  PROVE  /\ Tail(s) \in Seq(S) /\ Head(s) \in S
         /\ ToSet(s) = ToSet(Tail(s)) \cup {Head(s)}
  <1>1. /\ Tail(s) \in Seq(S) /\ Len(s) \in Nat \ {0} /\ Len(Tail(s)) = Len(s) - 1
        /\ \A i \in 1..Len(Tail(s)) : Tail(s)[i] = s[i + 1]
        /\ Head(s) = s[1] /\ Head(s) \in S
    BY HeadTailProperties, EmptySeq
  <1> DEFINE t == Tail(s)
  <1>2. DOMAIN t = 1..(Len(s) - 1) /\ DOMAIN s = 1..Len(s)
    BY <1>1
  <1> HIDE DEF t
  <1>3. \A i \in DOMAIN s : s[i] = s[1] \/ (i - 1 \in DOMAIN t /\ s[i] = t[i - 1])
    BY <1>1, <1>2 DEF t
  <1>4. \A i \in DOMAIN t : i + 1 \in DOMAIN s /\ t[i] = s[i + 1]
    BY <1>1, <1>2 DEF t
  <1>5. 1 \in DOMAIN s
    BY <1>1, <1>2
  <1>6. ToSet(s) = ToSet(t) \cup {s[1]}
    <2>1. \A x \in ToSet(s) : x = s[1] \/ x \in ToSet(t)
      BY <1>3 DEF ToSet
    <2>2. \A x \in ToSet(t) : x \in ToSet(s)
      BY <1>4 DEF ToSet
    <2>3. s[1] \in ToSet(s)
      BY <1>5 DEF ToSet
    <2> QED BY <2>1, <2>2, <2>3
  <1> QED BY <1>1, <1>6 DEF t


LEMMA EmptyElements == ToSet(<<>>) = {} /\ \A S : <<>> \in Seq(S)
  BY DEF ToSet

-----------------------------------------------------------------------------
(* The inductive invariant *)

Subscribed == ToSet(subscribers)
Todo == ToSet(todo)

\* The list holds no module pipe that is being closed, and a pipe nobody has
\* subscribed yet has been written nothing.
ListShape ==
    /\ \A p \in Subscribed : p \in OsPipes => st[p] = "open"
    /\ \A p \in Pipes : st[p] = "new" =>
          p \notin Subscribed /\ p \notin Todo /\ last[p] = NoBlock

\* The copied list is used during the fan-out only, and the pipe the handler
\* waits for has the block in its buffer, unless it was given up since.
HandlerShape ==
    /\ hpc \notin {"send", "wait", "nmwait"} => todo = <<>>
    /\ hpc = "wait" => todo # <<>> /\ last[Head(todo)] \in {NoBlock, cur}
    /\ hpc = "nmwait" => todo # <<>>
    /\ hpc \in {"nonmono", "nmwait"} => idx # 0
    /\ runDied => hpc = "raised"

\* Between two blocks every subscriber has the last one or a break since, and
\* during a fan-out those still to be written have the one before; a break of
\* the producer is still to be forwarded, or was.
Aligned ==
    /\ \A b \in prodBreaks : b <= cur
    /\ hpc = "read" =>
          /\ \A p \in Subscribed : last[p] \in {NoBlock, cur}
          /\ cur \in prodBreaks => \A p \in Subscribed : last[p] = NoBlock
    /\ hpc \in {"send", "wait"} =>
          /\ cur \in prodBreaks => eoi
          /\ \A p \in Todo : \/ last[p] \in {NoBlock, cur}
                             \/ last[p] + 1 = cur /\ last[p] \notin prodBreaks
          /\ \A p \in Subscribed \ Todo : last[p] \in {NoBlock, cur}

Inv == TypeOK /\ ListShape /\ HandlerShape /\ Aligned

\* What a step may write: IntervalsKept says it of every step.
Follows ==
    \A p \in Pipes : last[p] # NoBlock /\ last'[p] \notin {NoBlock, last[p]} =>
        last'[p] = last[p] + 1 /\ last[p] \notin prodBreaks

Good == Inv' /\ Follows

-----------------------------------------------------------------------------
LEMMA InitInv == Init => Inv
  <1> SUFFICES ASSUME Init PROVE Inv
    OBVIOUS
  <1> USE EmptyElements DEF Init
  <1>1. TypeOK
    <2>1. subscribers \in Seq(Pipes) /\ todo \in Seq(Pipes) /\ DOMAIN subscribers = {}
      OBVIOUS
    <2> QED BY <2>1 DEF TypeOK
  <1>2. Subscribed = {} /\ Todo = {}
    BY DEF Subscribed, Todo
  <1>3. ListShape /\ HandlerShape
    BY <1>2 DEF ListShape, HandlerShape
  <1>4. Aligned
    BY <1>2 DEF Aligned
  <1> QED BY <1>1, <1>3, <1>4 DEF Inv

LEMMA StutterInv == Inv /\ UNCHANGED vars => Inv'
  BY DEF vars, hvars, Inv, TypeOK, ListShape, HandlerShape, Aligned, Subscribed, Todo

LEMMA Listed == ASSUME Inv PROVE Subscribed \subseteq Pipes /\ Todo \subseteq Pipes
  <1>1. \A s \in Seq(Pipes) : ToSet(s) \subseteq Pipes
    BY DEF ToSet
  <1> QED BY <1>1 DEF Inv, TypeOK, Subscribed, Todo

\* A step that leaves the handler and what was written alone.
LEMMA NotHandler ==
  ASSUME Inv, UNCHANGED <<last, hvars, runDied, spawns>>, child' \in {"up", "down"},
         broken' \subseteq OsPipes, busy' \subseteq OsPipes,
         st' \in [Pipes -> {"new", "open", "closing", "closed", "left"}],
         UNCHANGED subscribers,
         \A p \in Pipes : st'[p] = "new" => st[p] = "new",
         \A p \in Subscribed : p \in OsPipes => st'[p] = "open"
  PROVE  Good
  BY DEF hvars, Good, Follows, Inv, TypeOK, ListShape, HandlerShape, Aligned,
         Subscribed, Todo

LEMMA SubscribeGood ==
  ASSUME Inv, NEW p \in Pipes, Subscribe(p)
  PROVE  Good
  <1> USE DEF Subscribe, hvars
  <1>1. p \notin Subscribed /\ p \notin Todo /\ last[p] = NoBlock
    BY DEF Inv, ListShape
  <1>2. /\ subscribers' \in Seq(Pipes) /\ Distinct(subscribers')
        /\ Subscribed' = Subscribed \cup {p}
    <2>1. subscribers \in Seq(Pipes) /\ Distinct(subscribers)
      BY DEF Inv, TypeOK, Distinct
    <2> QED BY <1>1, <2>1, AppendElements DEF Subscribed
  <1>3. TypeOK'
    BY <1>2 DEF Inv, TypeOK, Distinct
  <1>4. Todo' = Todo
    BY DEF Todo
  <1>5. ListShape'
    BY <1>1, <1>2, <1>4 DEF Inv, TypeOK, ListShape
  <1>6. HandlerShape'
    BY DEF Inv, HandlerShape
  <1>7. Aligned'
    BY <1>1, <1>2, <1>4 DEF Inv, Aligned
  <1> QED BY <1>3, <1>5, <1>6, <1>7 DEF Inv, Good, Follows

\* A consumer's disconnect and an inserter that gives up: the pipe leaves the
\* list, but may still be written by the fan-out that is going on.
LEMMA LeaveGood ==
  ASSUME Inv, NEW p \in Pipes, Disconnect(p) \/ InserterLeaves(p)
  PROVE  Good
  <1> USE DEF Disconnect, InserterLeaves, hvars
  <1>1. /\ subscribers' \in Seq(Pipes) /\ Distinct(subscribers')
        /\ Subscribed' \subseteq Subscribed \ {p}
    <2>1. subscribers \in Seq(Pipes) /\ Distinct(subscribers)
      BY DEF Inv, TypeOK, Distinct
    <2>2. subscribers' = RemoveFirst(subscribers, p)
      OBVIOUS
    <2> QED BY <2>1, <2>2, RemoveFirstElements DEF Subscribed
  <1>2. PICK l \in {"closing", "left"} : st' = [st EXCEPT ![p] = l]
    OBVIOUS
  <1>3. last' = [last EXCEPT ![p] = NoBlock]
    OBVIOUS
  <1>4. UNCHANGED <<hpc, todo, idx, cur, eoi, prodBreaks, broken, busy, child, spawns,
                    runDied>>
    OBVIOUS
  <1>5. Todo' = Todo
    BY <1>4 DEF Todo
  <1>6. TypeOK'
    BY <1>1, <1>2, <1>3, <1>4 DEF Inv, TypeOK, Distinct
  <1>7. ListShape'
    BY Listed, <1>1, <1>2, <1>3, <1>5 DEF Inv, TypeOK, ListShape
  <1>8. Aligned'
    BY Listed, <1>1, <1>3, <1>4, <1>5 DEF Inv, TypeOK, Aligned
  <1>9. HandlerShape'
    BY <1>3, <1>4 DEF Inv, TypeOK, HandlerShape
  <1>10. Follows
    BY <1>3 DEF Inv, TypeOK, Follows
  <1> QED BY <1>6, <1>7, <1>8, <1>9, <1>10 DEF Inv, Good

\* supervisor._handle_remote_output ends: a LocalPipe is closed in the list.
LEMMA RemoteEndsGood ==
  ASSUME Inv, NEW p \in Locals, RemoteEnds(p)
  PROVE  Good
  <1> USE DEF RemoteEnds, hvars
  <1>1. Subscribed' = Subscribed /\ Todo' = Todo
    BY DEF Subscribed, Todo
  <1>2. p \in Pipes /\ p \notin OsPipes
    BY DEF Pipes
  <1>3. TypeOK'
    BY <1>2 DEF Inv, TypeOK
  <1>4. ListShape'
    BY Listed, <1>1, <1>2 DEF Inv, TypeOK, ListShape
  <1>5. HandlerShape'
    BY <1>2 DEF Inv, TypeOK, HandlerShape
  <1>6. Aligned'
    BY Listed, <1>1, <1>2 DEF Inv, TypeOK, Aligned
  <1>7. Follows
    BY <1>2 DEF Inv, TypeOK, Follows
  <1> QED BY <1>3, <1>4, <1>5, <1>6, <1>7 DEF Inv, Good

LEMMA SubscriberGood == ASSUME Inv, SubscriberNext PROVE Good
  <1>1. CASE \E p \in Pipes : Subscribe(p)
    BY <1>1, SubscribeGood
  <1>2. CASE \E p \in OsPipes : Disconnect(p)
    BY <1>2, LeaveGood DEF Pipes
  <1>3. CASE \E p \in Locals : InserterLeaves(p)
    BY <1>3, LeaveGood DEF Pipes
  <1>4. CASE \E p \in Locals : RemoteEnds(p)
    BY <1>4, RemoteEndsGood
  <1>5. CASE \E p \in OsPipes : ConsumerStalls(p) \/ ConsumerReads(p) \/ ConsumerExits(p)
    <2>1. /\ UNCHANGED <<last, hvars, runDied, spawns, child, subscribers, st>>
          /\ broken' \subseteq OsPipes /\ busy' \subseteq OsPipes
      BY <1>5 DEF ConsumerStalls, ConsumerReads, ConsumerExits, Inv, TypeOK
    <2> QED BY <2>1, NotHandler DEF Inv, TypeOK, ListShape
  <1>6. CASE \E p \in OsPipes : PipeClosed(p)
    <2>1. PICK p \in OsPipes : PipeClosed(p)
      BY <1>6
    <2>2. /\ UNCHANGED <<last, hvars, runDied, spawns, child, subscribers, broken, busy>>
          /\ p \in Pipes /\ st[p] = "closing" /\ st' = [st EXCEPT ![p] = "closed"]
      BY <2>1 DEF PipeClosed, Pipes
    <2>3. /\ st' \in [Pipes -> {"new", "open", "closing", "closed", "left"}]
          /\ \A q \in Pipes : st'[q] = "new" => st[q] = "new"
      BY <2>2 DEF Inv, TypeOK
    <2>4. \A q \in Subscribed : q \in OsPipes => st'[q] = "open"
      BY <2>2, Listed DEF Inv, TypeOK, ListShape
    <2> QED BY <2>2, <2>3, <2>4, NotHandler DEF Inv, TypeOK
  <1> QED BY <1>1, <1>2, <1>3, <1>4, <1>5, <1>6 DEF SubscriberNext

-----------------------------------------------------------------------------
(* The handler *)

\* The handler is over, for whatever reason: nothing is left to be written, and
\* what was written is not looked at before the break of the next run.
LEMMA EndsGood ==
  ASSUME Inv, NEW how \in {"done", "raised"}, HandlerEnds(how), hpc # "raised",
         UNCHANGED <<subscribers, st, broken, busy, child, spawns, runDied, last>>
  PROVE  Good
  <1> USE DEF HandlerEnds
  <1>1. Todo' = {} /\ Subscribed' = Subscribed
    BY EmptyElements DEF Todo, Subscribed
  <1>2. TypeOK'
    BY EmptyElements DEF Inv, TypeOK
  <1>3. ListShape'
    BY <1>1 DEF Inv, ListShape
  <1>4. HandlerShape'
    BY DEF Inv, TypeOK, HandlerShape
  <1>5. Aligned'
    BY DEF Inv, Aligned
  <1>6. Follows
    BY DEF Follows
  <1> QED BY <1>2, <1>3, <1>4, <1>5, <1>6 DEF Inv, Good

\* A pipe is done with: its write was accepted (n = cur), was given up (n =
\* NoBlock), or the pipe is no longer subscribed.
LEMMA NextPipeGood ==
  ASSUME Inv, NEW p \in Pipes, NEW n \in {NoBlock, cur, last[p]},
         hpc \in {"send", "wait"}, todo # <<>>, p = Head(todo),
         hpc' = "send", todo' = Tail(todo), last' = [last EXCEPT ![p] = n],
         n \in {NoBlock, cur} \/ p \notin Subscribed',
         UNCHANGED <<st, broken, busy, child, spawns, runDied, idx, cur, eoi, prodBreaks>>,
         subscribers' \in Seq(Pipes), Distinct(subscribers'), Subscribed' \subseteq Subscribed
  PROVE  Good
  <1>1. todo' \in Seq(Pipes) /\ Todo = Todo' \cup {p}
    BY TailElements DEF Inv, TypeOK, Todo
  <1>2. n \in Nat /\ last[p] \in Nat /\ cur \in Nat
    BY DEF Inv, TypeOK
  <1>3. TypeOK'
    BY <1>1, <1>2 DEF Inv, TypeOK, Distinct
  <1>4. ListShape'
    BY <1>1 DEF Inv, TypeOK, ListShape
  <1>5. HandlerShape'
    BY DEF Inv, HandlerShape
  <1> DEFINE Near(q) == \/ last[q] \in {NoBlock, cur}
                        \/ last[q] + 1 = cur /\ last[q] \notin prodBreaks
  <1>a. \A q \in Todo : Near(q)
    BY DEF Inv, Aligned
  <1>b. p \in Todo
    BY <1>1
  <1>6. Near(p)
    BY <1>a, <1>b
  <1>7. Aligned'
    <2>1. \A q \in Pipes : last'[q] = IF q = p THEN n ELSE last[q]
      BY DEF Inv, TypeOK
    <2>2. Subscribed' \subseteq Pipes /\ Todo' \subseteq Pipes
      BY <1>1, Listed
    <2>3. \A q \in Todo' : \/ last'[q] \in {NoBlock, cur}
                           \/ last'[q] + 1 = cur /\ last'[q] \notin prodBreaks
      <3> SUFFICES ASSUME NEW q \in Todo'
                   PROVE  \/ last'[q] \in {NoBlock, cur}
                          \/ last'[q] + 1 = cur /\ last'[q] \notin prodBreaks
        OBVIOUS
      <3>1. q \in Todo /\ q \in Pipes
        BY <1>1, <2>2
      <3>2. Near(q)
        BY <1>a, <3>1
      <3>3. CASE q = p /\ n \in {NoBlock, cur}
        BY <2>1, <3>1, <3>3
      <3>4. CASE q # p \/ n = last[p]
        <4>1. last'[q] = last[q]
          BY <2>1, <3>1, <3>4
        <4> QED BY <3>2, <4>1
      <3> QED BY <3>3, <3>4
    <2>4. \A q \in Subscribed' \ Todo' : last'[q] \in {NoBlock, cur}
      <3> SUFFICES ASSUME NEW q \in Subscribed' \ Todo' PROVE last'[q] \in {NoBlock, cur}
        OBVIOUS
      <3>1. CASE q = p
        BY <2>1, <2>2, <3>1
      <3>2. CASE q # p
        BY <1>1, <2>1, <2>2, <3>2 DEF Inv, Aligned
      <3> QED BY <3>1, <3>2
    <2> QED BY <2>3, <2>4 DEF Inv, Aligned
  <1>8. Follows
    <2>1. \A q \in Pipes : q # p => last'[q] = last[q]
      BY DEF Inv, TypeOK
    <2>2. last'[p] = n
      BY DEF Inv, TypeOK
    <2>3. last[p] # NoBlock /\ n \notin {NoBlock, last[p]} =>
             n = last[p] + 1 /\ last[p] \notin prodBreaks
      BY <1>2, <1>6
    <2> QED BY <2>1, <2>2, <2>3 DEF Follows
  <1> QED BY <1>3, <1>4, <1>5, <1>7, <1>8 DEF Inv, Good

LEMMA WaitsGood ==
  ASSUME Inv, NEW p \in Pipes, SendWaits(p)
  PROVE  Good
  <1> USE DEF SendWaits
  <1>1. Subscribed' = Subscribed /\ Todo' = Todo
    BY DEF Subscribed, Todo
  <1>2. todo # <<>> /\ p = Head(todo) /\ p \in Todo
    BY TailElements DEF Inv, TypeOK, Todo
  <1>3. \A q \in Pipes : last'[q] = IF q = p THEN cur ELSE last[q]
    BY DEF Inv, TypeOK
  <1>4. cur \in Nat /\ last[p] \in Nat
    BY DEF Inv, TypeOK
  <1>5. TypeOK'
    BY <1>4 DEF Inv, TypeOK
  <1>6. ListShape'
    BY <1>1, <1>2, <1>3 DEF Inv, ListShape
  <1>7. HandlerShape'
    BY <1>2, <1>3 DEF Inv, HandlerShape
  <1>8. Aligned'
    BY <1>1, <1>2, <1>3, Listed DEF Inv, Aligned
  <1>9. Follows
    <2> DEFINE Near(q) == \/ last[q] \in {NoBlock, cur}
                          \/ last[q] + 1 = cur /\ last[q] \notin prodBreaks
    <2>1. \A q \in Todo : Near(q)
      BY DEF Inv, Aligned
    <2>2. Near(p)
      BY <1>2, <2>1
    <2> QED BY <1>3, <1>4, <2>2 DEF Follows
  <1> QED BY <1>5, <1>6, <1>7, <1>8, <1>9 DEF Inv, Good

LEMMA SendGood ==
  ASSUME Inv, NEW p \in Pipes,
         \/ SendOk(p) \/ SendWaits(p) \/ SendDrained(p) \/ SendTimeout(p)
         \/ SendDropped(p) \/ SendReset(p) \/ SendClosed(p) \/ WaitClosed(p)
  PROVE  Good
  <1>1. /\ hpc \in {"send", "wait"} /\ todo # <<>> /\ p = Head(todo)
        /\ hpc = "wait" => last[p] \in {NoBlock, cur}
    BY DEF SendOk, SendWaits, SendDrained, SendTimeout, SendDropped, SendReset,
           SendClosed, WaitClosed, Inv, HandlerShape
  <1>2. /\ last = [last EXCEPT ![p] = last[p]]
        /\ subscribers \in Seq(Pipes) /\ Distinct(subscribers)
    BY DEF Inv, TypeOK, Distinct
  <1>3. CASE SendOk(p) \/ SendTimeout(p)
    <2>1. Subscribed' = Subscribed
      BY <1>3 DEF SendOk, SendTimeout, Subscribed
    <2>2. PICK n \in {NoBlock, cur} : last' = [last EXCEPT ![p] = n]
      BY <1>3 DEF SendOk, SendTimeout
    <2>3. /\ hpc' = "send" /\ todo' = Tail(todo)
          /\ UNCHANGED <<subscribers, st, broken, busy, child, spawns, runDied, idx, cur,
                         eoi, prodBreaks>>
      BY <1>3 DEF SendOk, SendTimeout
    <2> QED BY <1>1, <1>2, <2>1, <2>2, <2>3, NextPipeGood
  <1>4. CASE SendDrained(p) \/ WaitClosed(p)
    <2>1. Subscribed' = Subscribed
      BY <1>4 DEF SendDrained, WaitClosed, Subscribed
    <2>2. /\ hpc = "wait" /\ hpc' = "send" /\ todo' = Tail(todo) /\ last' = last
          /\ UNCHANGED <<subscribers, st, broken, busy, child, spawns, runDied, idx, cur,
                         eoi, prodBreaks>>
      BY <1>4 DEF SendDrained, WaitClosed
    <2> QED BY <1>1, <1>2, <2>1, <2>2, NextPipeGood
  <1>5. CASE SendDropped(p)
    <2>1. Subscribed' = Subscribed
      BY <1>5 DEF SendDropped, Subscribed
    <2>2. p \notin Subscribed
      BY <1>5 DEF SendDropped, Inv, ListShape
    <2>3. /\ hpc' = "send" /\ todo' = Tail(todo) /\ last' = last
          /\ UNCHANGED <<subscribers, st, broken, busy, child, spawns, runDied, idx, cur,
                         eoi, prodBreaks>>
      BY <1>5 DEF SendDropped
    <2> QED BY <1>1, <1>2, <2>1, <2>2, <2>3, NextPipeGood
  <1>6. CASE SendReset(p) /\ p \in ToSet(subscribers)
    \* the pipe is removed from the list before its interval could go on
    <2>1. /\ hpc' = "send" /\ todo' = Tail(todo) /\ last' = last
          /\ subscribers' = RemoveFirst(subscribers, p)
          /\ UNCHANGED <<st, broken, busy, child, spawns, runDied, idx, cur, eoi,
                         prodBreaks>>
      BY <1>6 DEF SendReset
    <2>2. /\ subscribers' \in Seq(Pipes) /\ Distinct(subscribers')
          /\ Subscribed' \subseteq Subscribed \ {p}
      BY <1>2, <2>1, RemoveFirstElements DEF Subscribed
    <2> QED BY <1>1, <1>2, <2>1, <2>2, NextPipeGood
  <1>7. CASE SendReset(p) /\ p \notin ToSet(subscribers)
    BY <1>1, <1>7, EndsGood DEF SendReset
  <1>8. CASE SendClosed(p)
    BY <1>8, EndsGood DEF SendClosed
  <1>9. CASE SendWaits(p)
    BY <1>1, <1>9, WaitsGood
  <1> QED BY <1>3, <1>4, <1>5, <1>6, <1>7, <1>8, <1>9

\* A block, a break of the producer or rows out of order are read.
LEMMA ReadGood ==
  ASSUME Inv, (\E e \in BOOLEAN : ReadBlock(e)) \/ ReadBreak \/ ReadNonMonotonic
  PROVE  Good
  <1>1. /\ hpc = "read" /\ todo = <<>> /\ Todo = {}
        /\ UNCHANGED <<subscribers, st, broken, busy, child, spawns, runDied, last>>
    BY EmptyElements DEF ReadBlock, ReadBreak, ReadNonMonotonic, Inv, HandlerShape, Todo
  <1>2. /\ cur \in Nat /\ last \in [Pipes -> Nat] /\ prodBreaks \subseteq Nat
        /\ \A b \in prodBreaks : b <= cur
        /\ \A p \in Subscribed : p \in Pipes /\ last[p] \in {NoBlock, cur}
        /\ cur \in prodBreaks => \A p \in Subscribed : last[p] = NoBlock
    BY <1>1, Listed DEF Inv, TypeOK, Aligned
  <1>3. Subscribed' = Subscribed
    BY <1>1 DEF Subscribed
  <1>4. Follows
    BY <1>1 DEF Follows
  <1>5. CASE \E e \in BOOLEAN : ReadBlock(e)
    <2>1. PICK e \in BOOLEAN : ReadBlock(e)
      BY <1>5
    <2>2. /\ cur' = cur + 1 /\ eoi' = e /\ todo' = subscribers /\ hpc' = "send"
          /\ prodBreaks' = (prodBreaks \cap {cur}) \cup (IF e THEN {cur + 1} ELSE {})
          /\ idx' = idx
      BY <2>1 DEF ReadBlock
    <2>3. Todo' = Subscribed
      BY <2>2 DEF Todo, Subscribed
    <2>4. TypeOK'
      BY <1>1, <1>2, <2>2 DEF Inv, TypeOK
    <2>5. ListShape'
      BY <1>1, <1>3, <2>3 DEF Inv, ListShape
    <2>6. HandlerShape'
      BY <1>1, <2>2 DEF Inv, HandlerShape
    <2>7. Aligned'
      <3>1. \A b \in prodBreaks' : b <= cur'
        BY <1>2, <2>2
      <3>2. cur' \in prodBreaks' => eoi'
        BY <1>2, <2>2
      <3>3. \A p \in Todo' : \/ last'[p] \in {NoBlock, cur'}
                             \/ last'[p] + 1 = cur' /\ last'[p] \notin prodBreaks'
        BY <1>1, <1>2, <2>2, <2>3
      <3> QED BY <1>3, <2>2, <2>3, <3>1, <3>2, <3>3 DEF Aligned
    <2> QED BY <1>4, <2>4, <2>5, <2>6, <2>7 DEF Inv, Good
  <1>6. CASE ReadBreak
    <2>1. /\ eoi' = TRUE /\ prodBreaks' = prodBreaks \cup {cur} /\ hpc' = "send"
          /\ UNCHANGED <<todo, idx, cur>>
      BY <1>6 DEF ReadBreak
    <2>2. Todo' = {}
      BY <1>1, <2>1 DEF Todo
    <2>3. TypeOK'
      BY <1>1, <1>2, <2>1 DEF Inv, TypeOK
    <2>4. ListShape' /\ HandlerShape'
      BY <1>1, <1>3, <2>1, <2>2 DEF Inv, ListShape, HandlerShape
    <2>5. Aligned'
      BY <1>1, <1>2, <1>3, <2>1, <2>2 DEF Aligned
    <2> QED BY <1>4, <2>3, <2>4, <2>5 DEF Inv, Good
  <1>7. CASE ReadNonMonotonic
    <2>1. /\ cur' = cur + 1 /\ hpc' = "nonmono" /\ idx' = 1
          /\ UNCHANGED <<todo, eoi, prodBreaks>>
      BY <1>7 DEF ReadNonMonotonic
    <2>2. Todo' = {}
      BY <1>1, <2>1 DEF Todo
    <2>3. TypeOK'
      BY <1>1, <1>2, <2>1 DEF Inv, TypeOK
    <2>4. ListShape' /\ HandlerShape'
      BY <1>1, <1>3, <2>1, <2>2 DEF Inv, ListShape, HandlerShape
    <2>5. Aligned'
      BY <1>2, <2>1 DEF Aligned
    <2> QED BY <1>4, <2>3, <2>4, <2>5 DEF Inv, Good
  <1> QED BY <1>5, <1>6, <1>7

\* The break goes to the live list: close_interval_nowait never raises there.
LEMMA BreakNeverRaises == ASSUME Inv PROVE ~NowaitRaises
  <1>1. \A i \in 1..Len(subscribers) : subscribers[i] \in Subscribed
    <2>1. DOMAIN subscribers = 1..Len(subscribers)
      BY DEF Inv, TypeOK
    <2> QED BY <2>1 DEF Subscribed, ToSet
  <1> QED BY <1>1 DEF NowaitRaises, Inv, ListShape

LEMMA BreakToAllGood ==
  ASSUME Inv, BreakToAll, hpc' = "read", todo' = <<>>, cur' = cur, idx' = idx, eoi' \in BOOLEAN,
         child' \in {"up", "down"}, spawns' \in Nat, hpc # "raised",
         UNCHANGED <<subscribers, st, broken, busy, runDied, prodBreaks>>
  PROVE  Good
  <1>1. Todo' = {} /\ Subscribed' = Subscribed
    BY EmptyElements DEF Todo, Subscribed
  <1>2. \A p \in Pipes : last'[p] = IF p \in Subscribed THEN NoBlock ELSE last[p]
    BY DEF BreakToAll, Subscribed
  <1>3. last' \in [Pipes -> Nat]
    BY DEF BreakToAll, Inv, TypeOK
  <1>4. TypeOK'
    BY <1>3, EmptyElements DEF Inv, TypeOK
  <1>5. ListShape'
    BY <1>1, <1>2 DEF Inv, ListShape
  <1>6. HandlerShape'
    BY DEF Inv, HandlerShape
  <1>7. Aligned'
    BY <1>1, <1>2, Listed DEF Inv, Aligned
  <1>8. Follows
    BY <1>2 DEF Follows
  <1> QED BY <1>4, <1>5, <1>6, <1>7, <1>8 DEF Inv, Good

LEMMA SendDoneGood == ASSUME Inv, SendDone PROVE Good
  <1>1. /\ hpc = "send" /\ todo = <<>> /\ hpc' = "read" /\ eoi' = FALSE
        /\ UNCHANGED <<subscribers, st, broken, busy, child, spawns, runDied, todo, idx,
                       cur, prodBreaks>>
    BY BreakNeverRaises DEF SendDone
  <1>2. CASE eoi
    <2>1. BreakToAll
      BY <1>2, BreakNeverRaises DEF SendDone
    <2> QED BY <1>1, <2>1, BreakToAllGood DEF Inv, TypeOK
  <1>3. CASE ~eoi
    <2>1. last' = last
      BY <1>3 DEF SendDone
    <2>2. Todo = {} /\ Todo' = {} /\ Subscribed' = Subscribed
      BY <1>1, EmptyElements DEF Todo, Subscribed
    <2>3. TypeOK'
      BY <1>1, <2>1 DEF Inv, TypeOK
    <2>4. ListShape' /\ HandlerShape'
      BY <1>1, <2>1, <2>2 DEF Inv, ListShape, HandlerShape
    <2>5. Aligned'
      BY <1>1, <1>3, <2>1, <2>2 DEF Inv, Aligned
    <2>6. Follows
      BY <2>1 DEF Follows
    <2> QED BY <2>3, <2>4, <2>5, <2>6 DEF Inv, Good
  <1> QED BY <1>2, <1>3 DEF Inv, TypeOK

\* A step of the loop that writes nothing.
LEMMA QuietGood ==
  ASSUME Inv, hpc' \in {"nonmono", "restart"}, hpc # "raised", todo' = <<>>, idx' \in Nat,
         hpc' = "nonmono" => idx' # 0,
         UNCHANGED <<subscribers, st, broken, busy, child, spawns, runDied, last, cur, eoi,
                     prodBreaks>>
  PROVE  Good
  <1>1. Todo' = {} /\ Subscribed' = Subscribed
    BY EmptyElements DEF Todo, Subscribed
  <1>2. TypeOK'
    BY EmptyElements DEF Inv, TypeOK
  <1>3. ListShape' /\ HandlerShape'
    BY <1>1 DEF Inv, ListShape, HandlerShape
  <1>4. Aligned' /\ Follows
    BY DEF Inv, Aligned, Follows
  <1> QED BY <1>2, <1>3, <1>4 DEF Inv, Good

\* The loop over the live list after rows out of order: until the next run
\* nothing more is written, so breaks may come in any order, or be missed.
LEMMA NonMonotonicGood ==
  ASSUME Inv, NonMonotonicBreak \/ NonMonotonicDrained \/ NonMonotonicRestart
  PROVE  Good
  <1>1. CASE (NonMonotonicBreak \/ NonMonotonicDrained)
             /\ \E how \in {"done", "raised"} : HandlerEnds(how) /\ last' = last
    <2>1. PICK how \in {"done", "raised"} : HandlerEnds(how) /\ last' = last
      BY <1>1
    <2>2. /\ hpc # "raised"
          /\ UNCHANGED <<subscribers, st, broken, busy, child, spawns, runDied>>
      BY <1>1 DEF NonMonotonicBreak, NonMonotonicDrained
    <2> QED BY <2>1, <2>2, EndsGood
  <1>2. CASE /\ NonMonotonicBreak
             /\ ~ \E how \in {"done", "raised"} : HandlerEnds(how) /\ last' = last
    <2>1. PICK p \in Pipes : p = subscribers[idx]
      <3>1. idx \in 1..Len(subscribers)
        BY <1>2 DEF NonMonotonicBreak, Inv, TypeOK, HandlerShape
      <3> QED BY <3>1 DEF Inv, TypeOK
    <2>2. /\ hpc = "nonmono" /\ st[p] = "open"
          /\ last' = [last EXCEPT ![p] = NoBlock] /\ idx' = idx + 1
          /\ \/ hpc' = "nmwait" /\ todo' = <<p>>
             \/ hpc' = hpc /\ todo' = todo
          /\ UNCHANGED <<cur, eoi, prodBreaks, subscribers, st, broken, busy, child,
                         spawns, runDied>>
      BY <1>2, <2>1 DEF NonMonotonicBreak
    <2>3. todo = <<>> /\ Todo = {}
      BY <2>2, EmptyElements DEF Inv, HandlerShape, Todo
    <2>4. /\ todo' \in Seq(Pipes) /\ Todo' \subseteq {p}
          /\ hpc' = "nonmono" => todo' = <<>>
          /\ hpc' = "nmwait" => todo' # <<>>
      <3>1. <<p>> \in Seq(Pipes) /\ ToSet(<<p>>) = {p} /\ <<p>> # <<>>
        BY DEF ToSet
      <3>2. CASE hpc' = "nmwait" /\ todo' = <<p>>
        <4>1. Todo' = {p}
          BY <3>1, <3>2 DEF Todo
        <4> QED BY <3>1, <3>2, <4>1
      <3>3. CASE hpc' = hpc /\ todo' = todo
        <4>1. Todo' = {}
          BY <2>3, <3>3, EmptyElements DEF Todo
        <4> QED BY <2>2, <2>3, <3>3, <4>1, EmptyElements
      <3> QED BY <2>2, <3>2, <3>3
    <2>5. Subscribed' = Subscribed
      BY <2>2 DEF Subscribed
    <2>6. TypeOK'
      BY <2>2, <2>4 DEF Inv, TypeOK
    <2>7. ListShape'
      BY <2>2, <2>4, <2>5 DEF Inv, TypeOK, ListShape
    <2>8. HandlerShape'
      BY <2>2, <2>4 DEF Inv, TypeOK, HandlerShape
    <2>9. Aligned' /\ Follows
      BY <2>2 DEF Inv, TypeOK, Aligned, Follows
    <2> QED BY <2>6, <2>7, <2>8, <2>9 DEF Inv, Good
  <1>3. CASE /\ NonMonotonicDrained
             /\ ~ \E how \in {"done", "raised"} : HandlerEnds(how) /\ last' = last
    <2>1. /\ hpc = "nmwait" /\ hpc' = "nonmono" /\ todo' = <<>>
          /\ UNCHANGED <<subscribers, st, broken, busy, child, spawns, runDied, last, idx,
                         cur, eoi, prodBreaks>>
      BY <1>3 DEF NonMonotonicDrained
    <2> QED BY <2>1, QuietGood DEF Inv, TypeOK, HandlerShape
  <1>4. CASE NonMonotonicRestart
    <2>1. todo = <<>>
      BY <1>4 DEF NonMonotonicRestart, Inv, HandlerShape
    <2> QED BY <1>4, <2>1, QuietGood DEF NonMonotonicRestart
  <1> QED BY <1>1, <1>2, <1>3, <1>4

LEMMA HandlerGood == ASSUME Inv, HandlerNext PROVE Good
  <1>1. CASE (\E e \in BOOLEAN : ReadBlock(e)) \/ ReadBreak \/ ReadNonMonotonic
    BY <1>1, ReadGood
  <1>2. CASE ReadEof \/ RestartDone
    BY <1>2, EndsGood DEF ReadEof, RestartDone
  <1>3. CASE SendStep
    BY <1>3, SendGood DEF SendStep
  <1>4. CASE SendDone
    BY <1>4, SendDoneGood
  <1>5. CASE NonMonotonicBreak \/ NonMonotonicDrained \/ NonMonotonicRestart
    BY <1>5, NonMonotonicGood
  <1> QED BY <1>1, <1>2, <1>3, <1>4, <1>5 DEF HandlerNext

-----------------------------------------------------------------------------
(* The worker, and the theorems *)

LEMMA WorkerGood == ASSUME Inv, WorkerNext PROVE Good
  <1>1. CASE ChildExits
    BY <1>1, NotHandler DEF ChildExits, Inv, TypeOK, ListShape
  <1>2. CASE CancelHandler
    BY <1>2, EndsGood DEF CancelHandler
  <1>3. CASE HandlerRaised
    <2>1. /\ hpc = "raised" /\ runDied' = TRUE
          /\ UNCHANGED <<subscribers, st, broken, busy, child, spawns, last, hpc, todo, idx,
                         cur, eoi, prodBreaks>>
      BY <1>3 DEF HandlerRaised, hvars
    <2>2. Subscribed' = Subscribed /\ Todo' = Todo
      BY <2>1 DEF Subscribed, Todo
    <2> QED BY <2>1, <2>2 DEF Good, Follows, Inv, TypeOK, ListShape, HandlerShape, Aligned
  <1>4. CASE Respawn
    <2>1. /\ hpc = "done" /\ BreakToAll /\ child' = "up" /\ spawns' = spawns + 1
          /\ hpc' = "read" /\ runDied' = runDied
          /\ UNCHANGED <<subscribers, st, broken, busy, todo, idx, cur, eoi, prodBreaks>>
      BY <1>4, BreakNeverRaises DEF Respawn
    <2>2. todo = <<>> /\ spawns' \in Nat /\ eoi \in BOOLEAN
      BY <2>1 DEF Inv, TypeOK, HandlerShape
    <2> QED BY <2>1, <2>2, BreakToAllGood
  <1> QED BY <1>1, <1>2, <1>3, <1>4 DEF WorkerNext

LEMMA NextGood == Inv /\ Next => Good
  BY SubscriberGood, HandlerGood, WorkerGood DEF Next

\* The invariant of the proofs holds in every state.
THEOREM InvHolds == Spec => []Inv
  <1>1. Inv /\ Next => Inv'
    BY NextGood DEF Good
  <1> QED BY InitInv, StutterInv, <1>1, PTL DEF Spec

\* The state is well typed, and a pipe is subscribed at most once: the
\* list.remove of an unsubscribe leaves no second entry.
THEOREM TypeCorrect == Spec => []TypeOK
  <1>1. Inv => TypeOK
    BY DEF Inv
  <1> QED BY InvHolds, <1>1, PTL

\* close_interval_nowait of run() and of the handler never raises, so run() dies
\* of nothing but an exception of the handler.
THEOREM BreaksSurvived == Spec => []RunSurvivesBreaks
  <1>1. Inv => RunSurvivesBreaks
    BY BreakNeverRaises DEF RunSurvivesBreaks, Inv, HandlerShape
  <1> QED BY InvHolds, <1>1, PTL

\* Whatever is lost to a subscriber is marked as missing data and nothing is
\* repeated, for any number of consumers, blocks and restarts of the child.
THEOREM IntervalsSurvive == Spec => IntervalsKept
  <1>1. Inv /\ [Next]_vars => [Follows]_vars
    BY NextGood DEF Good
  <1> QED BY InvHolds, <1>1, PTL DEF Spec, IntervalsKept, Follows

=============================================================================
