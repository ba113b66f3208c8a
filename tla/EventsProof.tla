----------------------------- MODULE EventsProof -----------------------------
(***************************************************************************)
(* What holds of every pair of event streams: whatever the copy command    *)
(* and a user's program read, write and remove, no write replaces another  *)
(* event than its own, as long as the reservations of ids do not overlap   *)
(* and the ids the client holds are the ones the node gave it; a copy that *)
(* ends well has stored all of its window; and copies of new events that   *)
(* fail and are started again store no event twice.                        *)
(***************************************************************************)
EXTENDS Events, SequenceTheorems, FiniteSetTheorems, WellFoundedInduction, TLAPS


Ids == Nat \cup {None}
Rows == [id : Nat, event : Nat, made : Nat, mixed : BOOLEAN]
Objects == [id : Ids, event : Nat, stream : {1, 2, None}, node : Streams \cup {None}, mixed : BOOLEAN]
Carried == [id : Ids, stream : {1, 2, None}, event : Nat, mixed : BOOLEAN, fresh : BOOLEAN]
Hands == [list : Seq(Objects), at : Nat, rx : Seq(Nat), to : Streams]
Posts ==
    [stage : {"idle", "next", "set", "insert", "update", "error"}, to : Streams,
     events : Seq(Carried), olds : SUBSET Nat, base : Nat]

TypeOK ==
    /\ setup \in Setups /\ far \in BOOLEAN
    /\ events \in Seq([start : Int, end : Int])
    /\ table \in [Streams -> SUBSET Rows]
    /\ seq \in [Streams -> Nat]
    /\ hand \in [Clients -> Hands] /\ post \in [Clients -> Posts]
    /\ DOMAIN copy = {"pc", "new", "start", "end", "open", "runs"}

\* The id of an object is one of stream s.
Own(o, s) == o.node = Node(s) /\ o.stream = StreamId(s)

\* A request carries the events of the list it is about; an event that comes with an
\* id is one of the stream it goes to.
Carries(c) ==
    LET p == post[c]
        h == hand[c]
    IN  /\ p.to = h.to /\ h.at + Len(p.events) <= Len(h.list)
        /\ p.olds \subseteq DOMAIN p.events
        /\ \A i \in DOMAIN p.events :
              /\ p.events[i].event = h.list[h.at + i].event
              /\ p.events[i].mixed = h.list[h.at + i].mixed
              /\ Own(h.list[h.at + i], p.to) => p.events[i].id = h.list[h.at + i].id
              /\ i \in p.olds => Own(h.list[h.at + i], p.to)
        /\ p.stage \in {"next", "set"} =>
              p.olds = {i \in DOMAIN p.events : p.events[i].id # None} /\ News(p) # {}
        /\ p.stage \in {"insert", "update", "error"} =>
              \A i \in DOMAIN p.events : p.events[i].id # None

Carrying == \A c \in Clients : post[c].stage # "idle" => Carries(c)

\* The copy command writes nothing unless it is in its loop.
CopyQuiet ==
    copy.pc # "write" =>
       post["copy"].stage = "idle" /\ hand["copy"].at >= Len(hand["copy"].list)

\* An object of a stream has an id.
Identified ==
    \A c \in Clients : \A k \in DOMAIN hand[c].list :
       \A s \in Streams : Own(hand[c].list[k], s) => hand[c].list[k].id # None

\* The ids client c has taken from the sequence of s and not stored yet.
Taken(c, s) ==
    LET p == post[c] IN
    IF p.to # s THEN {}
    ELSE IF p.stage = "set" THEN {p.base}
    ELSE IF p.stage = "insert" THEN {p.events[i].id : i \in DOMAIN p.events \ p.olds}
    ELSE {}

Distinct(c, s) ==
    post[c].stage = "insert" /\ post[c].to = s =>
       \A i, k \in DOMAIN post[c].events \ post[c].olds :
          post[c].events[i].id = post[c].events[k].id => i = k

\* While the reservations of s do not overlap, an id is used once.
IdsOnce(s) ==
    /\ \A r \in table[s] : r.id <= seq[s] /\ \A c \in Clients : r.id \notin Taken(c, s)
    /\ \A r, x \in table[s] : r.id = x.id => r = x
    /\ \A c \in Clients : \A n \in Taken(c, s) : n <= seq[s]
    /\ Taken("copy", s) \cap Taken("user", s) = {}
    /\ \A c \in Clients : Distinct(c, s)

\* The id of o, an object of s, is in no reservation, and its row is that of o's event.
Knows(o, s) ==
    /\ o.id <= seq[s] /\ \A c \in Clients : o.id \notin Taken(c, s)
    /\ \A r \in table[s] : r.id = o.id => r.made = o.event \/ r.mixed

KeptIn(s) ==
    /\ IdsOnce(s)
    /\ \A r \in table[s] : r.event # r.made => r.mixed
    /\ \A c \in Clients : \A k \in DOMAIN hand[c].list :
          LET o == hand[c].list[k] IN Own(o, s) /\ ~o.mixed => Knows(o, s)

Inv ==
    /\ TypeOK /\ Carrying /\ CopyQuiet /\ Identified
    /\ \A s \in Streams \ raced : KeptIn(s)

-----------------------------------------------------------------------------
(* Slices of a list *)

LEMMA SliceOf ==
    ASSUME NEW S, NEW list \in Seq(S), NEW m \in Nat, NEW n \in Nat, m <= n, n <= Len(list)
    PROVE  /\ SubSeq(list, m + 1, n) \in Seq(S)
           /\ Len(SubSeq(list, m + 1, n)) = n - m
           /\ \A i \in 1..(n - m) : SubSeq(list, m + 1, n)[i] = list[m + i]
<1>1. m + 1 \in Int /\ n \in Int /\ \A i \in (m + 1)..n : list[i] \in S
  OBVIOUS
<1> QED
  BY <1>1, SubSeqProperties

LEMMA Joined ==
    ASSUME NEW S, NEW l \in Seq(S), NEW r \in Seq(S)
    PROVE  \A i \in 1..(Len(l) + Len(r)) : (l \o r)[i] \in S
<1>1. PICK all \in Seq(S) : all = l \o r /\ Len(all) = Len(l) + Len(r)
  BY ConcatProperties
<1>2. PICK n \in Nat : n = Len(l) + Len(r)
  OBVIOUS
<1>3. Len(all) = n
  BY <1>1, <1>2
<1>4. \A i \in 1..n : all[i] \in S
  BY <1>3
<1> QED
  BY <1>1, <1>2, <1>4

-----------------------------------------------------------------------------
(* The ids of the new events of a request: the n-th one gets the n-th id *)

LEMMA Ranks ==
    ASSUME NEW n \in Nat, NEW N \in SUBSET (1..n)
    PROVE  /\ Cardinality(N) \in Nat
           /\ N # {} => Cardinality(N) >= 1
           /\ \A i \in N : /\ Cardinality({k \in N : k < i}) \in Nat
                            /\ Cardinality({k \in N : k < i}) < Cardinality(N)
           /\ \A i, j \in N :
                 Cardinality({k \in N : k < i}) = Cardinality({k \in N : k < j}) => i = j
<1> DEFINE B(i) == {k \in N : k < i}
<1>1. IsFiniteSet(N) /\ Cardinality(N) \in Nat
  <2>1. IsFiniteSet(1..n)
    BY FS_Interval
  <2>2. IsFiniteSet(N)
    BY <2>1, FS_Subset
  <2> QED
    BY <2>2, FS_CardinalityType
<1>2. \A i : IsFiniteSet(B(i)) /\ Cardinality(B(i)) \in Nat
  <2>1. \A i : B(i) \in SUBSET N
    OBVIOUS
  <2> HIDE DEF B
  <2>2. \A i : IsFiniteSet(B(i))
    BY <1>1, <2>1, FS_Subset
  <2> QED
    BY <2>2, FS_CardinalityType
<1>3. ASSUME NEW i \in N, NEW S, B(i) \cup {i} \subseteq S, IsFiniteSet(S)
      PROVE  Cardinality(B(i)) + 1 <= Cardinality(S)
  <2>1. i \notin B(i)
    OBVIOUS
  <2> HIDE DEF B
  <2>2. Cardinality(B(i) \cup {i}) = Cardinality(B(i)) + 1
    BY <1>2, <2>1, FS_AddElement
  <2>3. Cardinality(B(i) \cup {i}) <= Cardinality(S)
    BY <1>3, FS_Subset
  <2> QED
    BY <2>2, <2>3
<1>4. \A i \in N : Cardinality(B(i)) < Cardinality(N)
  <2>1. \A i \in N : B(i) \cup {i} \subseteq N
    OBVIOUS
  <2> HIDE DEF B
  <2>2. \A i \in N : Cardinality(B(i)) + 1 <= Cardinality(N)
    BY <1>1, <1>3, <2>1
  <2> QED
    BY <1>1, <1>2, <2>2
<1>5. \A i, j \in N : i < j => Cardinality(B(i)) < Cardinality(B(j))
  <2>0. \A i \in N : i \in Int
    OBVIOUS
  <2>1. \A i, j \in N : i < j => B(i) \cup {i} \subseteq B(j)
    <3>1. \A i, j, k \in N : i < j /\ k < i => k < j
      BY <2>0
    <3> QED
      BY <3>1
  <2> HIDE DEF B
  <2>2. \A i, j \in N : i < j => Cardinality(B(i)) + 1 <= Cardinality(B(j))
    BY <1>2, <1>3, <2>1
  <2> QED
    BY <1>2, <2>2
<1>6. \A i, j \in N : Cardinality(B(i)) = Cardinality(B(j)) => i = j
  <2> HIDE DEF B
  <2>1. \A i, j \in N : i < j \/ j < i \/ i = j
    OBVIOUS
  <2> QED
    BY <1>2, <1>5, <2>1
<1>7. N # {} => Cardinality(N) >= 1
  BY <1>1, FS_EmptySet
<1> QED
  BY <1>1, <1>2, <1>4, <1>6, <1>7

LEMMA LeastIndex ==
    ASSUME NEW T \in SUBSET Nat, T # {}
    PROVE  \E n \in T : \A m \in T : n <= m
<1> DEFINE R == {p \in Nat \X Nat : p[1] < p[2]}
<1>1. IsWellFoundedOn(R, Nat)
  BY NatLessThanWellFounded DEF OpToRel
<1>2. PICK n \in T : \A m \in T : <<m, n>> \notin R
  <2> HIDE DEF R
  <2> QED BY <1>1, WFMin
<1>3. \A m \in T : ~(m < n)
  BY <1>2
<1> QED BY <1>3

-----------------------------------------------------------------------------
USE EventsConstants DEF Streams, Clients

(* The parts of the state *)

LEMMA PostTypes ==
    ASSUME TypeOK, NEW c \in Clients
    PROVE  /\ post[c] \in Posts
           /\ post[c].to \in Streams /\ post[c].base \in Nat /\ post[c].olds \subseteq Nat
           /\ post[c].events \in Seq(Carried)
           /\ Len(post[c].events) \in Nat /\ DOMAIN post[c].events = 1..Len(post[c].events)
           /\ \A i \in DOMAIN post[c].events :
                 /\ post[c].events[i] \in Carried
                 /\ post[c].events[i].id \in Ids /\ post[c].events[i].event \in Nat
                 /\ post[c].events[i].mixed \in BOOLEAN
<1>1. post[c] \in Posts
  BY DEF TypeOK
<1>2. post[c].events \in Seq(Carried)
  BY <1>1 DEF Posts
<1>3. \A i \in DOMAIN post[c].events : post[c].events[i] \in Carried
  BY <1>2
<1>4. Len(post[c].events) \in Nat /\ DOMAIN post[c].events = 1..Len(post[c].events)
  BY <1>2
<1> QED
  BY <1>1, <1>2, <1>3, <1>4 DEF Posts, Carried

LEMMA HandTypes ==
    ASSUME TypeOK, NEW c \in Clients
    PROVE  /\ hand[c] \in Hands
           /\ hand[c].to \in Streams /\ hand[c].at \in Nat /\ hand[c].rx \in Seq(Nat)
           /\ hand[c].list \in Seq(Objects)
           /\ Len(hand[c].list) \in Nat /\ DOMAIN hand[c].list = 1..Len(hand[c].list)
           /\ \A k \in DOMAIN hand[c].list :
                 /\ hand[c].list[k] \in Objects
                 /\ hand[c].list[k].id \in Ids /\ hand[c].list[k].event \in Nat
                 /\ hand[c].list[k].mixed \in BOOLEAN
<1>1. hand[c] \in Hands
  BY DEF TypeOK
<1>2. hand[c].list \in Seq(Objects)
  BY <1>1 DEF Hands
<1>3. \A k \in DOMAIN hand[c].list : hand[c].list[k] \in Objects
  BY <1>2
<1>4. Len(hand[c].list) \in Nat /\ DOMAIN hand[c].list = 1..Len(hand[c].list)
  BY <1>2
<1> QED
  BY <1>1, <1>2, <1>3, <1>4 DEF Hands, Objects

LEMMA RowTypes ==
    ASSUME TypeOK, NEW s \in Streams, NEW r \in table[s]
    PROVE  r \in Rows /\ r.id \in Nat /\ r.event \in Nat /\ r.made \in Nat /\ r.mixed \in BOOLEAN
  BY DEF TypeOK, Rows

\* The node and the id of a stream say which one it is.
LEMMA OneOwner ==
    ASSUME NEW o, NEW s \in Streams, NEW x \in Streams, Own(o, s), Own(o, x)
    PROVE  s = x
  BY DEF Own, Node, StreamId

LEMMA OwnSame ==
    ASSUME far' = far
    PROVE  \A o, s : Own(o, s)' <=> Own(o, s)
  BY DEF Own, Node, StreamId

LEMMA SamePost ==
    ASSUME NEW c, NEW s, post'[c] = post[c]
    PROVE  Taken(c, s)' = Taken(c, s) /\ (Distinct(c, s)' <=> Distinct(c, s))
  BY DEF Taken, Distinct

LEMMA QuietPost ==
    ASSUME NEW c, NEW s, post'[c].stage \notin {"set", "insert"}
    PROVE  Taken(c, s)' = {} /\ Distinct(c, s)'
  BY DEF Taken, Distinct

LEMMA SameCarries ==
    ASSUME NEW c, far' = far, post'[c] = post[c], hand'[c] = hand[c], Carries(c)
    PROVE  Carries(c)'
  BY OwnSame DEF Carries, News

\* What the actions keep that store nothing in s.
LEMMA KeptFrame ==
    ASSUME NEW s, KeptIn(s), far' = far, seq'[s] = seq[s], table'[s] \subseteq table[s],
           \A c \in Clients : Taken(c, s)' \subseteq Taken(c, s),
           \A c \in Clients : Distinct(c, s) => Distinct(c, s)',
           \A c \in Clients : \A k \in DOMAIN hand'[c].list :
              Own(hand'[c].list[k], s) /\ ~hand'[c].list[k].mixed => Knows(hand'[c].list[k], s)
    PROVE  KeptIn(s)'
<1>1. IdsOnce(s)'
  <2>1. \A r \in table'[s] : r.id <= seq'[s] /\ \A c \in Clients : r.id \notin Taken(c, s)'
    BY DEF KeptIn, IdsOnce
  <2>2. \A r, x \in table'[s] : r.id = x.id => r = x
    BY DEF KeptIn, IdsOnce
  <2>3. \A c \in Clients : \A n \in Taken(c, s)' : n <= seq'[s]
    BY DEF KeptIn, IdsOnce
  <2>4. Taken("copy", s)' \cap Taken("user", s)' = {}
    BY DEF KeptIn, IdsOnce
  <2>5. \A c \in Clients : Distinct(c, s)'
    BY DEF KeptIn, IdsOnce
  <2> QED
    BY <2>1, <2>2, <2>3, <2>4, <2>5 DEF IdsOnce
<1>2. \A r \in table'[s] : r.event # r.made => r.mixed
  BY DEF KeptIn
<1>3. ASSUME NEW c \in Clients, NEW k \in DOMAIN hand'[c].list,
             Own(hand[c].list[k], s)', ~hand'[c].list[k].mixed
      PROVE  Knows(hand[c].list[k], s)'
  <2>1. PICK o : o = hand'[c].list[k]
    OBVIOUS
  <2>2. Own(o, s)
    BY <1>3, <2>1 DEF Own, Node, StreamId
  <2>3. Knows(o, s)
    BY <1>3, <2>1, <2>2
  <2>4. Knows(o, s)'
    BY <2>3 DEF Knows
  <2> QED
    BY <2>1, <2>4 DEF Knows
<1>4. \A c \in Clients : \A k \in DOMAIN hand'[c].list :
         Own(hand[c].list[k], s)' /\ ~hand'[c].list[k].mixed => Knows(hand[c].list[k], s)'
  BY <1>3
<1> QED
  BY <1>1, <1>2, <1>4 DEF KeptIn
-----------------------------------------------------------------------------
(* event_stream_write: a chunk carries the next events of the list *)

LEMMA OneCarried ==
    ASSUME NEW o \in Objects, NEW s \in Streams, NEW j, j = Belongs(ToJson(o, s), s)
    PROVE  /\ j \in Carried /\ j.event = o.event /\ j.mixed = o.mixed
           /\ Own(o, s) => j.id = o.id
           /\ j.id # None => Own(o, s)
<1>1. ToJson(o, s) \in Carried
  BY DEF ToJson, Carried, Objects, Ids
<1>2. StreamId(s) \in {1, 2}
  BY DEF StreamId
<1>3. CASE Own(o, s)
  <2>1. j = ToJson(o, s)
    BY <1>3 DEF Own, Belongs, ToJson
  <2> QED
    BY <1>1, <1>3, <2>1 DEF ToJson, Own
<1>4. CASE ~Own(o, s)
  <2>1. j.id = None
    BY <1>4, <1>1, <1>2 DEF Belongs, ToJson, Own, Objects
  <2>2. j \in Carried
    BY <1>1, <1>2 DEF Belongs, Carried, Ids
  <2>3. j.event = o.event /\ j.mixed = o.mixed
    BY DEF Belongs, ToJson
  <2> QED
    BY <1>4, <2>1, <2>2, <2>3
<1> QED
  BY <1>3, <1>4

LEMMA ChunkCarries ==
    ASSUME TypeOK, NEW c \in Clients, hand[c].at <= Len(hand[c].list),
           post'[c] = NextChunk(c), hand'[c] = hand[c], far' = far
    PROVE  /\ post'[c] \in Posts /\ post'[c].stage \in {"next", "update"}
           /\ Carries(c)'
<1> DEFINE h == hand[c]
           to == IF h.at + WriteBlock < Len(h.list) THEN h.at + WriteBlock ELSE Len(h.list)
           chunk == SubSeq(h.list, h.at + 1, to)
           j == [i \in DOMAIN chunk |-> Belongs(ToJson(chunk[i], h.to), h.to)]
           p == NextChunk(c)
<1>0. h.list \in Seq(Objects) /\ h.at \in Nat /\ h.to \in Streams
  BY HandTypes
<1>1. /\ chunk \in Seq(Objects) /\ h.at + Len(chunk) <= Len(h.list)
      /\ \A i \in DOMAIN chunk : chunk[i] = h.list[h.at + i] /\ h.list[h.at + i] \in Objects
  <2> HIDE DEF h
  <2>1. PICK n \in Nat : n = Len(h.list) /\ DOMAIN h.list = 1..n
    BY <1>0
  <2>2. PICK t \in Nat : t = (IF h.at + WriteBlock < n THEN h.at + WriteBlock ELSE n)
    BY <1>0
  <2>3. h.at <= n
    BY <2>1 DEF h
  <2>4. h.at <= t /\ t <= n
    BY <1>0, <2>2, <2>3
  <2>5. chunk = SubSeq(h.list, h.at + 1, t)
    BY <2>1, <2>2
  <2> HIDE DEF chunk, to
  <2>6. /\ chunk \in Seq(Objects) /\ Len(chunk) = t - h.at
        /\ \A i \in 1..(t - h.at) : chunk[i] = h.list[h.at + i]
    <3>1. t <= Len(h.list)
      BY <2>1, <2>4
    <3>2. /\ SubSeq(h.list, h.at + 1, t) \in Seq(Objects) /\ Len(SubSeq(h.list, h.at + 1, t)) = t - h.at
          /\ \A i \in 1..(t - h.at) : SubSeq(h.list, h.at + 1, t)[i] = h.list[h.at + i]
      <4>1. PICK l \in Seq(Objects) : l = h.list
        BY <1>0
      <4>2. PICK a \in Nat : a = h.at
        BY <1>0
      <4>3. a <= t /\ t <= Len(l) /\ t \in Nat
        BY <2>2, <2>4, <3>1, <4>1, <4>2
      <4>4. /\ SubSeq(l, a + 1, t) \in Seq(Objects) /\ Len(SubSeq(l, a + 1, t)) = t - a
            /\ \A i \in 1..(t - a) : SubSeq(l, a + 1, t)[i] = l[a + i]
        BY <4>3, SliceOf
      <4> QED
        BY <4>1, <4>2, <4>4, Zenon
    <3> QED
      BY <2>5, <3>2, Zenon
  <2>7. h.at + Len(chunk) <= Len(h.list)
    BY <1>0, <2>1, <2>4, <2>6
  <2>8. DOMAIN chunk = 1..(t - h.at)
    BY <1>0, <2>6
  <2>9. \A i \in 1..(t - h.at) : h.at + i \in 1..n
    BY <1>0, <2>4
  <2>10. \A i \in DOMAIN chunk : h.list[h.at + i] \in Objects
    BY <1>0, <2>1, <2>8, <2>9
  <2> QED
    BY <2>6, <2>7, <2>8, <2>10
<1>2. /\ p.events = j /\ p.to = h.to /\ p.base = 0
      /\ p.olds = {i \in DOMAIN j : j[i].id # None}
      /\ p.stage = IF \E i \in DOMAIN j : j[i].id = None THEN "next" ELSE "update"
      /\ p = [stage |-> p.stage, to |-> p.to, events |-> p.events, olds |-> p.olds, base |-> p.base]
  <2>1. p = [stage |-> IF \E i \in DOMAIN j : j[i].id = None THEN "next" ELSE "update",
             to |-> h.to, events |-> j, olds |-> {i \in DOMAIN j : j[i].id # None}, base |-> 0]
    BY Zenon DEF NextChunk
  <2> HIDE DEF p, j, h
  <2>2. PICK st : st = IF \E i \in DOMAIN j : j[i].id = None THEN "next" ELSE "update"
    OBVIOUS
  <2>3. PICK os : os = {i \in DOMAIN j : j[i].id # None}
    OBVIOUS
  <2>4. p = [stage |-> st, to |-> h.to, events |-> j, olds |-> os, base |-> 0]
    BY <2>1, <2>2, <2>3
  <2>5. p.stage = st /\ p.to = h.to /\ p.events = j /\ p.olds = os /\ p.base = 0
    BY <2>4
  <2>6. p = [stage |-> p.stage, to |-> p.to, events |-> p.events, olds |-> p.olds, base |-> p.base]
    BY <2>4, <2>5
  <2> QED
    BY <2>2, <2>3, <2>5, <2>6, Zenon
<1>3. ASSUME NEW i \in DOMAIN chunk
      PROVE  /\ j[i] \in Carried /\ j[i].event = chunk[i].event /\ j[i].mixed = chunk[i].mixed
             /\ Own(chunk[i], h.to) => j[i].id = chunk[i].id
             /\ j[i].id # None => Own(chunk[i], h.to)
  <2> HIDE DEF chunk
  <2>1. chunk[i] \in Objects
    BY <1>1
  <2>2. j[i] = Belongs(ToJson(chunk[i], h.to), h.to)
    OBVIOUS
  <2> HIDE DEF j
  <2> QED
    BY <1>0, <2>1, <2>2, OneCarried
<1>4. DOMAIN j = 1..Len(chunk) /\ DOMAIN chunk = 1..Len(chunk) /\ Len(chunk) \in Nat
  BY <1>1
<1> HIDE DEF j, chunk, to
<1>5. j \in Seq(Carried) /\ Len(j) = Len(chunk)
  <2>1. j = [i \in 1..Len(chunk) |-> j[i]]
    BY <1>4 DEF j
  <2>2. \A i \in 1..Len(chunk) : j[i] \in Carried
    BY <1>3, <1>4
  <2>3. PICK n \in Nat : n = Len(chunk)
    BY <1>4
  <2>4. j \in [1..n -> Carried]
    BY <2>1, <2>2, <2>3
  <2>5. j \in Seq(Carried)
    BY <2>4
  <2>6. Len(j) = n
    BY <2>1, <2>3, <2>5
  <2> QED
    BY <2>3, <2>5, <2>6
<1>6. p.stage \in {"next", "update"}
  BY <1>2
<1>7. p \in Posts
  <2>1. p.olds \subseteq Nat
    BY <1>2, <1>4
  <2> HIDE DEF p
  <2> QED
    BY <1>0, <1>2, <1>5, <1>6, <2>1 DEF Posts
<1>8. /\ p.to = h.to /\ h.at + Len(p.events) <= Len(h.list) /\ p.olds \subseteq DOMAIN p.events
  BY <1>1, <1>2, <1>5
<1>9. \A i \in DOMAIN p.events :
        /\ p.events[i].event = h.list[h.at + i].event
        /\ p.events[i].mixed = h.list[h.at + i].mixed
        /\ Own(h.list[h.at + i], p.to) => p.events[i].id = h.list[h.at + i].id
        /\ i \in p.olds => Own(h.list[h.at + i], p.to)
  BY <1>1, <1>2, <1>3, <1>4
<1>10. /\ p.stage \in {"next", "set"} =>
              p.olds = {i \in DOMAIN p.events : p.events[i].id # None} /\ News(p) # {}
       /\ p.stage \in {"insert", "update", "error"} =>
              \A i \in DOMAIN p.events : p.events[i].id # None
  BY <1>2 DEF News
<1> HIDE DEF p
<1>11. \A o, s : Own(o, s)' <=> Own(o, s)
  BY OwnSame
<1>12. post'[c] = p /\ hand'[c] = h
  BY DEF p
<1> QED
  BY <1>6, <1>7, <1>8, <1>9, <1>10, <1>11, <1>12 DEF Carries, News, Own, Node, StreamId

\* The objects that stay in the hands of a client.
LEMMA SameHand ==
    ASSUME NEW c, NEW s, KeptIn(s), c \in Clients, hand'[c] = hand[c]
    PROVE  \A k \in DOMAIN hand'[c].list :
              Own(hand'[c].list[k], s) /\ ~hand'[c].list[k].mixed => Knows(hand'[c].list[k], s)
  BY DEF KeptIn

LEMMA SameIdentified ==
    ASSUME Identified, far' = far, hand' = hand
    PROVE  Identified'
  BY DEF Identified, Own, Node, StreamId

\* Send, and a request that is sent again.
LEMMA ChunkSent ==
    ASSUME Inv, NEW c \in Clients, hand[c].at <= Len(hand[c].list), c = "copy" => copy.pc = "write",
           post' = [post EXCEPT ![c] = NextChunk(c)],
           UNCHANGED <<store, hand, copy, raced>>
    PROVE  Inv'
<1> USE DEF store
<1>1. /\ post'[c] \in Posts /\ post'[c].stage \in {"next", "update"}
      /\ Carries(c)'
  <2>1. post'[c] = NextChunk(c) /\ hand'[c] = hand[c] /\ far' = far
    BY DEF Inv, TypeOK
  <2> QED
    BY <2>1, ChunkCarries DEF Inv
<1>2. \A d \in Clients : d # c => post'[d] = post[d]
  BY DEF Inv, TypeOK
<1>3. TypeOK'
  BY <1>1, <1>2 DEF Inv, TypeOK
<1>4. Carrying'
  BY <1>1, <1>2, SameCarries DEF Inv, Carrying
<1>5. CopyQuiet'
  BY <1>2 DEF Inv, CopyQuiet
<1>6. Identified'
  BY SameIdentified DEF Inv
<1>7. ASSUME NEW s \in Streams \ raced PROVE KeptIn(s)'
  <2>1. KeptIn(s)
    BY DEF Inv
  <2>2. \A d \in Clients : Taken(d, s)' \subseteq Taken(d, s) /\ (Distinct(d, s) => Distinct(d, s)')
    BY <1>1, <1>2, SamePost, QuietPost
  <2>3. \A d \in Clients : \A k \in DOMAIN hand'[d].list :
           Own(hand'[d].list[k], s) /\ ~hand'[d].list[k].mixed => Knows(hand'[d].list[k], s)
    BY <2>1, SameHand
  <2> QED
    BY <2>1, <2>2, <2>3, KeptFrame
<1> QED
  BY <1>3, <1>4, <1>5, <1>6, <1>7 DEF Inv

LEMMA SendInv ==
    ASSUME Inv, NEW c \in Clients, Send(c)
    PROVE  Inv'
<1>1. hand[c].at <= Len(hand[c].list)
  BY HandTypes DEF Inv, Send
<1>2. c = "copy" => copy.pc = "write"
  <2>1. hand[c].at \in Nat /\ Len(hand[c].list) \in Nat
    BY HandTypes DEF Inv
  <2>2. ~(hand[c].at >= Len(hand[c].list))
    BY <2>1 DEF Send
  <2> QED
    BY <2>2 DEF Inv, CopyQuiet
<1> QED
  BY <1>1, <1>2, ChunkSent DEF Send, history

LEMMA AtBounded ==
    ASSUME Inv, NEW c \in Clients, post[c].stage # "idle"
    PROVE  /\ hand[c].at <= Len(hand[c].list)
           /\ c = "copy" => copy.pc = "write"
<1>1. hand[c].at \in Nat /\ Len(hand[c].list) \in Nat /\ Len(post[c].events) \in Nat
  BY HandTypes, PostTypes DEF Inv
<1>2. hand[c].at + Len(post[c].events) <= Len(hand[c].list)
  BY DEF Inv, Carrying, Carries
<1>3. hand[c].at <= Len(hand[c].list)
  <2>1. PICK a \in Nat : a = hand[c].at
    BY <1>1
  <2>2. PICK n \in Nat : n = Len(hand[c].list)
    BY <1>1
  <2>3. PICK m \in Nat : m = Len(post[c].events)
    BY <1>1
  <2>4. a + m <= n
    BY <1>2, <2>1, <2>2, <2>3
  <2>5. a <= n
    BY <2>4
  <2> QED
    BY <2>1, <2>2, <2>5
<1>4. c = "copy" => copy.pc = "write"
  BY DEF Inv, CopyQuiet
<1> QED
  BY <1>3, <1>4

LEMMA RetryInv ==
    ASSUME Inv, NEW c \in Clients, Retry(c)
    PROVE  Inv'
  BY AtBounded, ChunkSent DEF Retry
-----------------------------------------------------------------------------
(* The steps of the clients *)

\* What the hands of the clients may hold.
Sound(o) ==
    \A s \in Streams :
       Own(o, s) => o.id # None /\ (s \notin raced /\ ~o.mixed => Knows(o, s))

LEMMA HandSound ==
    ASSUME Inv, NEW c \in Clients, NEW k \in DOMAIN hand[c].list
    PROVE  Sound(hand[c].list[k])
  BY DEF Inv, Sound, Identified, KeptIn

\* Steps that only end a request, change a list or remove rows.
LEMMA CalmStep ==
    ASSUME Inv, TypeOK', CopyQuiet', UNCHANGED <<far, seq, raced>>,
           \A s \in Streams : table'[s] \subseteq table[s],
           \A c \in Clients :
              \/ post'[c].stage = "idle"
              \/ post'[c] = post[c] /\ hand'[c] = hand[c],
           \A c \in Clients : \A k \in DOMAIN hand'[c].list : Sound(hand'[c].list[k])
    PROVE  Inv'
<1>1. Carrying'
  BY SameCarries DEF Inv, Carrying
<1>2. Identified'
  <2>1. ASSUME NEW c \in Clients, NEW k \in DOMAIN hand'[c].list, NEW s \in Streams,
               Own(hand[c].list[k], s)'
        PROVE  hand'[c].list[k].id # None
    <3>1. PICK o : o = hand'[c].list[k]
      OBVIOUS
    <3>2. Own(o, s)
      BY <2>1, <3>1 DEF Own, Node, StreamId
    <3> QED
      BY <3>1, <3>2 DEF Sound
  <2> QED
    BY <2>1 DEF Identified
<1>3. ASSUME NEW s \in Streams \ raced PROVE KeptIn(s)'
  <2>1. KeptIn(s)
    BY DEF Inv
  <2>2. \A d \in Clients : Taken(d, s)' \subseteq Taken(d, s) /\ (Distinct(d, s) => Distinct(d, s)')
    BY SamePost, QuietPost
  <2>3. \A d \in Clients : \A k \in DOMAIN hand'[d].list :
           Own(hand'[d].list[k], s) /\ ~hand'[d].list[k].mixed => Knows(hand'[d].list[k], s)
    BY DEF Sound
  <2> QED
    BY <2>1, <2>2, <2>3, KeptFrame
<1> QED
  BY <1>1, <1>2, <1>3 DEF Inv

LEMMA IdleTypes == Idle \in Posts /\ Idle.stage = "idle"
<1>1. <<>> \in Seq(Carried)
  OBVIOUS
<1> QED
  BY <1>1 DEF Idle, Posts

LEMMA AbortInv ==
    ASSUME Inv, NEW c \in Clients, Abort(c)
    PROVE  Inv'
<1> USE DEF Abort, store
<1>0. TypeOK
  BY DEF Inv
<1>1. post'[c] = Idle /\ hand'[c] = [hand[c] EXCEPT !.at = Len(hand[c].list)]
  BY <1>0 DEF TypeOK
<1>2. \A d \in Clients : d # c => post'[d] = post[d] /\ hand'[d] = hand[d]
  BY <1>0 DEF TypeOK
<1>3. hand'[c].list = hand[c].list /\ hand'[c].at = Len(hand[c].list) /\ hand'[c] \in Hands
  <2>1. hand[c] \in Hands /\ Len(hand[c].list) \in Nat
    BY <1>0, HandTypes
  <2>2. PICK h \in Hands : h = hand[c]
    BY <2>1
  <2>3. PICK n \in Nat : n = Len(hand[c].list)
    BY <2>1
  <2>4. [h EXCEPT !.at = n] \in Hands /\ [h EXCEPT !.at = n].list = h.list /\ [h EXCEPT !.at = n].at = n
    BY DEF Hands
  <2>5. hand'[c] = [h EXCEPT !.at = n]
    BY <1>1, <2>2, <2>3
  <2> QED
    BY <2>2, <2>3, <2>4, <2>5
<1>4. TypeOK'
  BY <1>0, <1>1, <1>2, <1>3, IdleTypes DEF TypeOK
<1>5. CopyQuiet'
  <2>1. CASE c = "copy"
    <3>1. hand'[c].at >= Len(hand'[c].list)
      BY <1>0, <1>3, HandTypes
    <3> QED
      BY <1>1, <2>1, <3>1, IdleTypes DEF CopyQuiet
  <2>2. CASE c # "copy"
    BY <1>2, <2>2 DEF Inv, CopyQuiet
  <2> QED
    BY <2>1, <2>2
<1>6. \A d \in Clients : \A k \in DOMAIN hand'[d].list : Sound(hand'[d].list[k])
  BY <1>2, <1>3, HandSound
<1> QED
  BY <1>1, <1>2, <1>4, <1>5, <1>6, IdleTypes, CalmStep

LEMMA CopyNextInv ==
    ASSUME Inv, CopyNext
    PROVE  Inv'
<1> USE DEF CopyNext, store, history
<1>0. TypeOK
  BY DEF Inv
<1>1. TypeOK'
  BY <1>0 DEF TypeOK
<1>2. CopyQuiet'
  <2>1. Len(hand["copy"].list) \in Nat
    BY <1>0, HandTypes
  <2>2. hand["copy"].at >= Len(hand["copy"].list)
    BY <2>1
  <2>3. post["copy"].stage = "idle"
    BY IdleTypes
  <2> QED
    BY <2>2, <2>3 DEF CopyQuiet
<1> QED
  BY <1>1, <1>2, HandSound, CalmStep

LEMMA CopyFailInv ==
    ASSUME Inv, CopyFail
    PROVE  Inv'
<1> USE DEF CopyFail, store, history
<1>1. TypeOK'
  BY DEF Inv, TypeOK
<1>2. CopyQuiet'
  BY DEF Inv, CopyQuiet
<1> QED
  BY <1>1, <1>2, HandSound, CalmStep

LEMMA HandMade ==
    ASSUME NEW list \in Seq(Objects), NEW at \in Nat, NEW rx \in Seq(Nat), NEW to \in Streams
    PROVE  [list |-> list, at |-> at, rx |-> rx, to |-> to] \in Hands
  BY DEF Hands

LEMMA NoHandTypes ==
    NoHand \in Hands /\ NoHand.list = <<>> /\ NoHand.at >= Len(NoHand.list)
<1>1. <<>> \in Seq(Objects) /\ <<>> \in Seq(Nat) /\ Len(<<>>) = 0
  OBVIOUS
<1> QED
  BY <1>1 DEF NoHand, Hands

LEMMA Removed ==
    ASSUME TypeOK, NEW x \in Streams, NEW start, NEW end, table' = RemoveEvents(x, start, end)
    PROVE  /\ table' \in [Streams -> SUBSET Rows]
           /\ \A s \in Streams : table'[s] \subseteq table[s]
<1>1. \A s \in Streams : table'[s] = IF s = x THEN Kept(x, start, end) ELSE table[s]
  BY DEF TypeOK, RemoveEvents
<1>2. Kept(x, start, end) \subseteq table[x]
  BY DEF Kept
<1>3. table' = [s \in Streams |-> IF s = x THEN Kept(x, start, end) ELSE table[s]]
  BY DEF TypeOK, RemoveEvents
<1> QED
  BY <1>1, <1>2, <1>3 DEF TypeOK

LEMMA CopyStartInv ==
    ASSUME Inv, NEW action, NEW new \in BOOLEAN, NEW start, NEW end, CopyStart(action, new, start, end)
    PROVE  Inv'
<1> USE DEF CopyStart
<1>0. TypeOK
  BY DEF Inv
<1>1. /\ table' \in [Streams -> SUBSET Rows]
      /\ \A s \in Streams : table'[s] \subseteq table[s]
  <2>1. CASE table' = table
    BY <1>0, <2>1 DEF TypeOK
  <2>2. CASE table' = RemoveEvents(Dest, start, end)
    BY <1>0, <2>2, Removed
  <2> QED
    BY <2>1, <2>2
<1>2. hand'["copy"] = NoHand /\ hand'["user"] = hand["user"]
  BY <1>0 DEF TypeOK
<1>3. TypeOK'
  BY <1>0, <1>1, <1>2, NoHandTypes DEF TypeOK
<1>4. post["copy"].stage = "idle"
  BY DEF Inv, CopyQuiet
<1>5. CopyQuiet'
  BY <1>2, <1>4, NoHandTypes DEF CopyQuiet
<1>6. \A d \in Clients : \A k \in DOMAIN hand'[d].list : Sound(hand'[d].list[k])
  BY <1>2, NoHandTypes, HandSound
<1> QED
  BY <1>1, <1>2, <1>3, <1>4, <1>5, <1>6, CalmStep

LEMMA ReadTypes ==
    ASSUME TypeOK, NEW s \in Streams, NEW start, NEW end, NEW b \in ReadEvents(s, start, end)
    PROVE  /\ b \in Seq(table[s]) /\ Len(b) \in Nat /\ DOMAIN b = 1..Len(b)
           /\ \A i \in DOMAIN b : b[i] \in table[s]
<1>1. PICK n \in 0..ReadBlock :
        b \in [1..n -> {r \in table[s] : InBounds(r.event, start, end, FALSE)}]
  BY DEF ReadEvents
<1>2. n \in Nat /\ b \in [1..n -> table[s]]
  <2>1. \A i \in 1..n : b[i] \in table[s]
    BY <1>1
  <2> QED
    BY <1>1, <2>1
<1>3. b \in Seq(table[s])
  BY <1>2
<1> QED
  BY <1>3

LEMMA RowSound ==
    ASSUME Inv, NEW s \in Streams, NEW r \in table[s]
    PROVE  FromJson(r, s) \in Objects /\ Sound(FromJson(r, s))
<1> DEFINE o == FromJson(r, s)
<1>0. r.id \in Nat /\ r.event \in Nat
  BY RowTypes DEF Inv
<1>1. o.id = r.id /\ o.event = r.event /\ Own(o, s) /\ o \in Objects
  BY <1>0 DEF FromJson, Own, Objects, Ids, Node, StreamId
<1> HIDE DEF o
<1>2. ASSUME NEW x \in Streams, Own(o, x) PROVE o.id # None /\ (x \notin raced => Knows(o, x))
  <2>1. x = s
    BY <1>1, <1>2, OneOwner
  <2>2. o.id # None
    BY <1>0, <1>1
  <2>3. ASSUME s \notin raced PROVE Knows(o, s)
    <3>1. IdsOnce(s) /\ (r.event # r.made => r.mixed)
      BY <2>3 DEF Inv, KeptIn
    <3> QED
      BY <1>1, <3>1 DEF Knows, IdsOnce
  <2> QED
    BY <2>1, <2>2, <2>3
<1> QED
  BY <1>1, <1>2 DEF Sound, o

\* The list of a read.
LEMMA ReadList ==
    ASSUME Inv, NEW s \in Streams, NEW start, NEW end, NEW b \in ReadEvents(s, start, end),
           NEW list, list = [i \in DOMAIN b |-> FromJson(b[i], s)]
    PROVE  /\ list \in Seq(Objects) /\ Len(list) = Len(b) /\ Len(b) \in Nat
           /\ \A k \in DOMAIN list : Sound(list[k])
<1>1. PICK n \in Nat : n = Len(b) /\ DOMAIN b = 1..n
  BY ReadTypes DEF Inv
<1>2. \A i \in 1..n : list[i] \in Objects /\ Sound(list[i])
  BY <1>1, ReadTypes, RowSound DEF Inv
<1>3. list = [i \in 1..n |-> list[i]]
  BY <1>1
<1>4. list \in [1..n -> Objects]
  BY <1>2, <1>3
<1>5. list \in Seq(Objects) /\ DOMAIN list = 1..n
  BY <1>4
<1>6. Len(list) = n
  BY <1>5
<1> QED
  BY <1>1, <1>2, <1>5, <1>6

LEMMA CopyReadInv ==
    ASSUME Inv, CopyRead
    PROVE  Inv'
<1> USE DEF CopyRead, store
<1>0. TypeOK /\ post["copy"].stage = "idle"
  BY DEF Inv, CopyQuiet
<1>1. CASE hand' = hand /\ copy' = [copy EXCEPT !.pc = "failed"]
  <2>1. TypeOK'
    BY <1>0, <1>1 DEF TypeOK
  <2>2. CopyQuiet'
    BY <1>0, <1>1 DEF Inv, CopyQuiet, TypeOK
  <2> QED
    BY <1>1, <2>1, <2>2, HandSound, CalmStep
<1>2. CASE \E b \in ReadEvents(Source, copy.start, copy.end) :
             /\ copy' = [copy EXCEPT !.pc = IF b = <<>> THEN NoMore ELSE "write"]
             /\ hand' = [hand EXCEPT !["copy"] =
                           [list |-> [i \in DOMAIN b |-> FromJson(b[i], Source)],
                            at |-> 0, rx |-> <<>>, to |-> Dest]]
  <2>1. PICK b \in ReadEvents(Source, copy.start, copy.end) :
             /\ copy' = [copy EXCEPT !.pc = IF b = <<>> THEN NoMore ELSE "write"]
             /\ hand' = [hand EXCEPT !["copy"] =
                           [list |-> [i \in DOMAIN b |-> FromJson(b[i], Source)],
                            at |-> 0, rx |-> <<>>, to |-> Dest]]
    BY <1>2
  <2>2. PICK list : list = [i \in DOMAIN b |-> FromJson(b[i], Source)]
    OBVIOUS
  <2>3. /\ list \in Seq(Objects) /\ Len(list) = Len(b) /\ Len(b) \in Nat
        /\ \A k \in DOMAIN list : Sound(list[k])
    BY <2>2, ReadList
  <2>4. /\ hand'["copy"] = [list |-> list, at |-> 0, rx |-> <<>>, to |-> Dest]
        /\ hand'["user"] = hand["user"]
    BY <1>0, <2>1, <2>2 DEF TypeOK
  <2>5. hand'["copy"] \in Hands
    <3>1. <<>> \in Seq(Nat)
      OBVIOUS
    <3> QED
      BY <2>3, <2>4, <3>1 DEF Hands
  <2>6. hand' \in [Clients -> Hands]
    BY <1>0, <2>1, <2>4, <2>5 DEF TypeOK
  <2>7. TypeOK'
    BY <1>0, <2>6 DEF TypeOK
  <2>8. CopyQuiet'
    <3>1. CASE b # <<>>
      <4>1. copy'.pc = "write"
        BY <1>0, <2>1, <3>1 DEF TypeOK
      <4> QED
        BY <4>1 DEF CopyQuiet
    <3>2. CASE b = <<>>
      <4>1. Len(list) = 0
        BY <2>3, <3>2
      <4> QED
        BY <1>0, <2>4, <4>1 DEF CopyQuiet
    <3> QED
      BY <3>1, <3>2
  <2>9. \A d \in Clients : \A k \in DOMAIN hand'[d].list : Sound(hand'[d].list[k])
    BY <2>3, <2>4, HandSound
  <2> QED
    BY <1>0, <2>4, <2>7, <2>8, <2>9, CalmStep
<1> QED
  BY <1>1, <1>2

LEMMA UserFrame ==
    ASSUME Inv, UserFree, TypeOK', UNCHANGED <<far, seq, raced, post, copy>>,
           \A s \in Streams : table'[s] \subseteq table[s],
           hand'["copy"] = hand["copy"],
           \A k \in DOMAIN hand'["user"].list : Sound(hand'["user"].list[k])
    PROVE  Inv'
<1>1. CopyQuiet'
  BY DEF Inv, CopyQuiet
<1>2. post["user"].stage = "idle"
  BY IdleTypes DEF UserFree
<1>3. \A d \in Clients : \A k \in DOMAIN hand'[d].list : Sound(hand'[d].list[k])
  BY HandSound
<1> QED
  BY <1>1, <1>2, <1>3, CalmStep

LEMMA NewSound ==
    ASSUME NEW e \in Nat
    PROVE  NewObject(e) \in Objects /\ Sound(NewObject(e))
  BY DEF NewObject, Objects, Ids, Sound, Own, Node

LEMMA UserNewInv ==
    ASSUME Inv, NEW s \in Streams, NEW t \in setup.new, UserNew(t, s)
    PROVE  Inv'
<1> USE DEF UserNew
<1>0. TypeOK
  BY DEF Inv
<1>1. events' \in Seq([start : Int, end : Int])
  <2>1. t \in Int \X Int
    BY <1>0 DEF TypeOK
  <2>2. [start |-> t[1], end |-> t[2]] \in [start : Int, end : Int]
    BY <2>1
  <2>3. events \in Seq([start : Int, end : Int])
    BY <1>0 DEF TypeOK
  <2> QED
    BY <2>2, <2>3, AppendProperties
<1>2. Len(events) + 1 \in Nat
  BY <1>0 DEF TypeOK
<1>3. PICK o : o = NewObject(Len(events) + 1)
  OBVIOUS
<1>4. o \in Objects /\ Sound(o)
  BY <1>2, <1>3, NewSound
<1>5. <<o>> \in Seq(Objects) /\ <<>> \in Seq(Nat) /\ 0 \in Nat /\ Len(<<o>>) = 1 /\ <<o>>[1] = o
  BY <1>4
<1>6. /\ hand'["user"] = [list |-> <<o>>, at |-> 0, rx |-> <<>>, to |-> s]
      /\ hand'["copy"] = hand["copy"]
  BY <1>0, <1>3 DEF TypeOK
<1> HIDE DEF UserNew
<1>7. hand'["user"] \in Hands
  <2>1. [list |-> <<o>>, at |-> 0, rx |-> <<>>, to |-> s] \in Hands
    BY <1>5, HandMade
  <2> QED
    BY <1>6, <2>1, Zenon
<1> USE DEF UserNew
<1>8. TypeOK'
  <2>1. hand' \in [Clients -> Hands]
    BY <1>0, <1>6, <1>7 DEF TypeOK
  <2> QED
    BY <1>0, <1>1, <2>1 DEF TypeOK
<1>9. \A k \in DOMAIN hand'["user"].list : Sound(hand'["user"].list[k])
  <2>1. DOMAIN <<o>> = {1}
    OBVIOUS
  <2> QED
    BY <1>4, <1>5, <1>6, <2>1
<1> QED
  BY <1>6, <1>8, <1>9, UserFrame DEF history

LEMMA UserReadInv ==
    ASSUME Inv, NEW s \in Streams, UserRead(s)
    PROVE  Inv'
<1> USE DEF UserRead, store
<1>0. TypeOK
  BY DEF Inv
<1>1. PICK b \in ReadEvents(s, None, None) :
        hand' = [hand EXCEPT !["user"] =
                   [list |-> [i \in DOMAIN b |-> FromJson(b[i], s)],
                    at |-> Len(b), rx |-> <<>>, to |-> s]]
  OBVIOUS
<1>2. PICK list : list = [i \in DOMAIN b |-> FromJson(b[i], s)]
  OBVIOUS
<1>3. /\ list \in Seq(Objects) /\ Len(list) = Len(b) /\ Len(b) \in Nat
      /\ \A k \in DOMAIN list : Sound(list[k])
  BY <1>2, ReadList
<1>4. /\ hand'["user"] = [list |-> list, at |-> Len(b), rx |-> <<>>, to |-> s]
      /\ hand'["copy"] = hand["copy"]
  BY <1>0, <1>1, <1>2 DEF TypeOK
<1>5. hand'["user"] \in Hands
  <2>1. <<>> \in Seq(Nat)
    OBVIOUS
  <2> HIDE DEF UserRead, store
  <2> QED
    <3>1. [list |-> list, at |-> Len(b), rx |-> <<>>, to |-> s] \in Hands
      BY <1>3, <2>1, HandMade
    <3> QED
      BY <1>4, <3>1, Zenon
<1>6. TypeOK'
  <2>1. hand' \in [Clients -> Hands]
    BY <1>0, <1>1, <1>4, <1>5 DEF TypeOK
  <2> QED
    BY <1>0, <2>1 DEF TypeOK
<1>7. \A k \in DOMAIN hand'["user"].list : Sound(hand'["user"].list[k])
  BY <1>3, <1>4
<1> QED
  BY <1>4, <1>6, <1>7, UserFrame DEF history

LEMMA UserWriteInv ==
    ASSUME Inv, NEW s \in Streams, UserWrite(s)
    PROVE  Inv'
<1> USE DEF UserWrite, store
<1>0. TypeOK
  BY DEF Inv
<1>1. /\ hand'["user"] = [hand["user"] EXCEPT !.at = 0, !.rx = <<>>, !.to = s]
      /\ hand'["copy"] = hand["copy"]
  BY <1>0 DEF TypeOK
<1>2. hand'["user"].list = hand["user"].list /\ hand'["user"] \in Hands
  <2>1. <<>> \in Seq(Nat) /\ hand["user"] \in Hands
    BY <1>0 DEF TypeOK
  <2>2. /\ hand["user"].list \in Seq(Objects)
        /\ hand'["user"] = [list |-> hand["user"].list, at |-> 0, rx |-> <<>>, to |-> s]
    BY <1>1, <2>1 DEF Hands
  <2>3. 0 \in Nat
    OBVIOUS
  <2> HIDE DEF UserWrite, store
  <2>4. hand'["user"] \in Hands
    BY <2>1, <2>2, <2>3, HandMade, Zenon
  <2> QED
    BY <2>2, <2>4
<1>3. TypeOK'
  <2>1. hand' \in [Clients -> Hands]
    BY <1>0, <1>1, <1>2 DEF TypeOK
  <2> QED
    BY <1>0, <2>1 DEF TypeOK
<1>4. \A k \in DOMAIN hand'["user"].list : Sound(hand'["user"].list[k])
  BY <1>2, HandSound
<1> QED
  BY <1>1, <1>3, <1>4, UserFrame DEF history

LEMMA UserRemoveInv ==
    ASSUME Inv, NEW s \in Streams, NEW start, NEW end, UserRemove(s, start, end)
    PROVE  Inv'
<1> USE DEF UserRemove, clients
<1>0. TypeOK
  BY DEF Inv
<1>1. /\ table' \in [Streams -> SUBSET Rows]
      /\ \A x \in Streams : table'[x] \subseteq table[x]
  BY <1>0, Removed
<1>2. TypeOK'
  BY <1>0, <1>1 DEF TypeOK
<1> QED
  BY <1>1, <1>2, HandSound, UserFrame

\* An object that is not mixed after the reply is what it was.
LEMMA ReplyObject ==
    ASSUME NEW o \in Objects, Sound(o), NEW to \in Streams, NEW j \in Nat, NEW e,
           Own(o, to) => e = o.id, NEW m \in BOOLEAN,
           m = FALSE => ~o.mixed /\ j = e /\ Own(o, to),
           NEW n, n = [o EXCEPT !.id = j, !.mixed = m]
    PROVE  n \in Objects /\ Sound(n)
<1>4. /\ n \in Objects /\ n.id = j /\ n.mixed = m
      /\ n.event = o.event /\ n.node = o.node /\ n.stream = o.stream
  BY DEF Objects, Ids
<1>5. ASSUME NEW s \in Streams, Own(n, s)
      PROVE  n.id # None /\ (s \notin raced /\ ~n.mixed => Knows(n, s))
  <2>1. n.id # None
    BY <1>4
  <2>2. Own(o, s)
    BY <1>4, <1>5 DEF Own
  <2>3. ASSUME s \notin raced, ~n.mixed PROVE Knows(n, s)
    <3>1. ~o.mixed /\ j = e /\ Own(o, to)
      BY <1>4, <2>3
    <3>2. n.id = o.id
      BY <1>4, <3>1
    <3>3. Knows(o, s)
      BY <2>2, <2>3, <3>1 DEF Sound
    <3> QED
      BY <1>4, <3>2, <3>3 DEF Knows
  <2> QED
    BY <2>1, <2>3
<1> QED
  BY <1>4, <1>5 DEF Sound

LEMMA ElementsOf ==
    ASSUME NEW S, NEW q \in Seq(S)
    PROVE  Len(q) \in Nat /\ DOMAIN q = 1..Len(q) /\ \A i \in DOMAIN q : q[i] \in S
  OBVIOUS

\* The ids a client has received.
LEMMA Received ==
    ASSUME NEW rx \in Seq(Nat), NEW n \in Nat, NEW ids \in [1..n -> Nat]
    PROVE  rx \o ids \in Seq(Nat) /\ \A i \in 1..n : (rx \o ids)[i] \in Nat
<1>1. ids \in Seq(Nat) /\ Len(ids) = n
  OBVIOUS
<1>2. rx \o ids \in Seq(Nat) /\ Len(rx \o ids) = Len(rx) + n
  BY <1>1, ConcatProperties
<1>3. PICK all \in Seq(Nat) : all = rx \o ids
  BY <1>2
<1>4. PICK m \in Nat : m = Len(rx)
  OBVIOUS
<1>5. Len(all) = m + n
  BY <1>2, <1>3, <1>4
<1>6. \A i \in 1..n : i \in 1..(m + n)
  OBVIOUS
<1>7. \A i \in 1..n : all[i] \in Nat
  <2>1. \A i \in 1..(m + n) : all[i] \in Nat
    BY <1>5, ElementsOf
  <2> QED
    BY <1>6, <2>1
<1> QED
  BY <1>2, <1>3, <1>7

LEMMA ReplyInv ==
    ASSUME Inv, NEW c \in Clients, Reply(c)
    PROVE  Inv'
<1> DEFINE p == post[c]
           h == hand[c]
           ids == [i \in DOMAIN p.events |-> p.events[i].id]
<1>0. TypeOK
  BY DEF Inv
<1>1. PICK n \in Nat : n = Len(p.events) /\ DOMAIN p.events = 1..n
  BY <1>0, PostTypes
<1>2. p.stage = "update" /\ Carries(c)
  BY DEF Inv, Carrying, Reply
<1>3. ids \in [1..n -> Nat]
  <2>1. \A i \in 1..n : p.events[i].id \in Nat
    BY <1>0, <1>1, <1>2, PostTypes DEF Carries, Ids
  <2> QED
    BY <1>1, <2>1
<1>4. PICK rx : rx = h.rx \o ids
  OBVIOUS
<1>5. h \in Hands /\ h.rx \in Seq(Nat) /\ h.at \in Nat /\ h.to \in Streams /\ p.to \in Streams
  BY <1>0, HandTypes, PostTypes
<1> HIDE DEF ids
<1>6. rx \in Seq(Nat) /\ \A i \in 1..n : rx[i] \in Nat
  BY <1>3, <1>4, <1>5, Received
<1>7. PICK m \in Nat : m = Len(h.list) /\ DOMAIN h.list = 1..m
  BY <1>0, HandTypes
<1> DEFINE object(k) ==
             [h.list[k] EXCEPT !.id = rx[k - h.at],
                !.mixed = \/ @ \/ rx[k - h.at] # p.events[k - h.at].id
                          \/ h.list[k].node # Node(p.to) \/ h.list[k].stream # StreamId(p.to)]
           list == [k \in DOMAIN h.list |->
                      IF k - h.at \in DOMAIN p.events THEN object(k) ELSE h.list[k]]
<1>8. /\ hand' = [hand EXCEPT ![c] = [list |-> list, at |-> h.at + Len(p.events), rx |-> rx, to |-> h.to]]
      /\ post' = [post EXCEPT ![c] = Idle]
      /\ UNCHANGED <<store, copy, history>>
  BY <1>4 DEF Reply, ids
<1>9. ASSUME NEW k \in 1..m PROVE list[k] \in Objects /\ Sound(list[k])
  <2>1. h.list[k] \in Objects /\ Sound(h.list[k])
    BY <1>0, <1>7, HandTypes, HandSound
  <2>2. CASE k - h.at \notin DOMAIN p.events
    BY <1>7, <2>1, <2>2
  <2>3. CASE k - h.at \in DOMAIN p.events
    <3>1. PICK i \in 1..n : i = k - h.at
      BY <1>1, <2>3
    <3>2. h.at + i = k
      BY <1>5, <3>1
    <3>3. Own(h.list[k], p.to) => p.events[i].id = h.list[k].id
      BY <1>1, <1>2, <3>2 DEF Carries
    <3>4. list[k] = [h.list[k] EXCEPT !.id = rx[i],
                       !.mixed = \/ @ \/ rx[i] # p.events[i].id
                                 \/ h.list[k].node # Node(p.to) \/ h.list[k].stream # StreamId(p.to)]
      BY <1>7, <2>3, <3>1
    <3>5. rx[i] \in Nat
      BY <1>6
    <3>6. PICK o \in Objects : o = h.list[k]
      BY <2>1
    <3>7. PICK e : e = p.events[i].id
      OBVIOUS
    <3>8. PICK j \in Nat : j = rx[i]
      BY <3>5
    <3>9. PICK q : q = list[k]
      OBVIOUS
    <3>10. PICK to \in Streams : to = p.to
      BY <1>5
    <3> HIDE DEF list
    <3>11. Sound(o) /\ (Own(o, to) => e = o.id)
      BY <2>1, <3>3, <3>6, <3>7, <3>10
    <3>12. PICK v \in BOOLEAN : v = (\/ o.mixed \/ j # e \/ o.node # Node(to) \/ o.stream # StreamId(to))
      BY DEF Objects
    <3>13. q = [o EXCEPT !.id = j, !.mixed = v]
      BY <3>4, <3>6, <3>7, <3>8, <3>9, <3>10, <3>12
    <3>14. v = FALSE => ~o.mixed /\ j = e /\ Own(o, to)
      BY <3>12 DEF Own
    <3>15. q \in Objects /\ Sound(q)
      BY <3>11, <3>13, <3>14, ReplyObject
    <3> QED
      BY <3>9, <3>15
  <2> QED
    BY <2>2, <2>3
<1>10. DOMAIN list = 1..m
  BY <1>7
<1>11. list = [k \in 1..m |-> list[k]]
  BY <1>7
<1> HIDE DEF list
<1>12. list \in [1..m -> Objects]
  BY <1>9, <1>11
<1>13. list \in Seq(Objects)
  BY <1>12
<1>14. h.at + Len(p.events) \in Nat
  BY <1>1, <1>5
<1>15. /\ hand'[c] = [list |-> list, at |-> h.at + Len(p.events), rx |-> rx, to |-> h.to]
       /\ \A d \in Clients : d # c => hand'[d] = hand[d] /\ post'[d] = post[d]
       /\ post'[c] = Idle
  BY <1>0, <1>8 DEF TypeOK
<1>16. hand'[c] \in Hands
  <2>1. [list |-> list, at |-> h.at + Len(p.events), rx |-> rx, to |-> h.to] \in Hands
    BY <1>5, <1>6, <1>13, <1>14, HandMade
  <2> QED
    BY <1>15, <2>1, Zenon
<1>17. TypeOK'
  <2>1. hand' \in [Clients -> Hands] /\ post' \in [Clients -> Posts]
    BY <1>0, <1>8, <1>15, <1>16, IdleTypes DEF TypeOK
  <2> QED
    BY <1>0, <1>8, <2>1 DEF TypeOK, store
<1>18. CopyQuiet'
  <2>1. CASE c = "copy"
    <3>1. copy.pc = "write"
      BY <1>2, <2>1, AtBounded
    <3> QED
      BY <1>8, <3>1 DEF CopyQuiet
  <2>2. CASE c # "copy"
    BY <1>8, <1>15, <2>2 DEF Inv, CopyQuiet
  <2> QED
    BY <2>1, <2>2
<1>19. \A d \in Clients : \A k \in DOMAIN hand'[d].list : Sound(hand'[d].list[k])
  BY <1>9, <1>10, <1>15, HandSound
<1> QED
  BY <1>8, <1>15, <1>17, <1>18, <1>19, IdleTypes, CalmStep DEF store, history
-----------------------------------------------------------------------------
(* The steps of the node *)

LEMMA KeptParts ==
    ASSUME NEW s, hand' = hand, far' = far, IdsOnce(s)',
           \A r \in table'[s] : r.event # r.made => r.mixed,
           \A c \in Clients : \A k \in DOMAIN hand[c].list : \A o :
              o = hand[c].list[k] /\ Own(o, s) /\ ~o.mixed => Knows(o, s)'
    PROVE  KeptIn(s)'
<1>1. ASSUME NEW c \in Clients, NEW k \in DOMAIN hand'[c].list,
             Own(hand[c].list[k], s)', ~hand'[c].list[k].mixed
      PROVE  Knows(hand[c].list[k], s)'
  <2>1. PICK o : o = hand[c].list[k] /\ o = hand'[c].list[k]
    OBVIOUS
  <2>2. Own(o, s) /\ ~o.mixed
    BY <1>1, <2>1 DEF Own, Node, StreamId
  <2>3. Knows(o, s)'
    BY <2>1, <2>2
  <2> QED
    BY <2>1, <2>3 DEF Knows
<1>2. \A c \in Clients : \A k \in DOMAIN hand'[c].list :
         Own(hand[c].list[k], s)' /\ ~hand'[c].list[k].mixed => Knows(hand[c].list[k], s)'
  BY <1>1
<1> QED
  BY <1>2 DEF KeptIn

\* A step of the node for c's request disturbs the stream of the request alone.
LEMMA ServeStep ==
    ASSUME Inv, NEW c \in Clients, post[c].stage # "idle",
           UNCHANGED <<setup, events, far, hand, copy>>,
           table' \in [Streams -> SUBSET Rows], seq' \in [Streams -> Nat],
           NEW q \in Posts, post' = [post EXCEPT ![c] = q], q.stage # "idle",
           q.to = post[c].to, Carries(c)', raced \subseteq raced',
           \A s \in Streams : s # q.to => table'[s] = table[s] /\ seq'[s] = seq[s],
           \A s \in Streams : s = q.to /\ s \notin raced' => KeptIn(s)'
    PROVE  Inv'
<1>1. post'[c] = q /\ \A d \in Clients : d # c => post'[d] = post[d]
  BY DEF Inv, TypeOK
<1>2. TypeOK'
  BY DEF Inv, TypeOK
<1>3. Carrying'
  BY <1>1, SameCarries DEF Inv, Carrying
<1>4. CopyQuiet'
  BY <1>1 DEF Inv, CopyQuiet
<1>5. Identified'
  BY SameIdentified DEF Inv
<1>6. ASSUME NEW s \in Streams, s \notin raced', s # q.to PROVE KeptIn(s)'
  <2>1. KeptIn(s)
    BY <1>6 DEF Inv
  <2>2. Taken(c, s)' = {} /\ Distinct(c, s)'
    BY <1>1, <1>6 DEF Taken, Distinct
  <2>3. \A d \in Clients : Taken(d, s)' \subseteq Taken(d, s) /\ (Distinct(d, s) => Distinct(d, s)')
    BY <1>1, <2>2, SamePost
  <2>4. \A d \in Clients : \A k \in DOMAIN hand'[d].list :
           Own(hand'[d].list[k], s) /\ ~hand'[d].list[k].mixed => Knows(hand'[d].list[k], s)
    BY <2>1, SameHand
  <2> QED
    BY <1>6, <2>1, <2>3, <2>4, KeptFrame
<1>7. \A s \in Streams \ raced' : KeptIn(s)'
  BY <1>6
<1> QED
  BY <1>2, <1>3, <1>4, <1>5, <1>7 DEF Inv

LEMMA CarriesMade ==
    ASSUME NEW c, NEW q, NEW h, far' = far, post'[c] = q, hand'[c] = h, q.stage \notin {"next", "set"},
           q.to = h.to, h.at + Len(q.events) <= Len(h.list), q.olds \subseteq DOMAIN q.events,
           \A i \in DOMAIN q.events :
              /\ q.events[i].event = h.list[h.at + i].event
              /\ q.events[i].mixed = h.list[h.at + i].mixed
              /\ Own(h.list[h.at + i], q.to) => q.events[i].id = h.list[h.at + i].id
              /\ i \in q.olds => Own(h.list[h.at + i], q.to),
           \A i \in DOMAIN q.events : q.events[i].id # None
    PROVE  Carries(c)'
<1>1. \A o, s : Own(o, s)' <=> Own(o, s)
  BY OwnSame
<1>2. \A i \in DOMAIN q.events :
          /\ q.events[i].event = h.list[h.at + i].event
          /\ q.events[i].mixed = h.list[h.at + i].mixed
          /\ Own(h.list[h.at + i], q.to)' => q.events[i].id = h.list[h.at + i].id
          /\ i \in q.olds => Own(h.list[h.at + i], q.to)'
  BY <1>1
<1> QED
  BY <1>2 DEF Carries

LEMMA TakenTypes ==
    ASSUME Inv, NEW c \in Clients, NEW s, NEW n \in Taken(c, s)
    PROVE  n \in Nat
<1>0. TypeOK
  BY DEF Inv
<1>1. CASE post[c].stage = "set"
  BY <1>0, <1>1, PostTypes DEF Taken
<1>2. CASE post[c].stage = "insert"
  <2>1. PICK i \in DOMAIN post[c].events : n = post[c].events[i].id
    BY <1>2 DEF Taken
  <2>2. post[c].events[i].id # None
    BY <1>2 DEF Inv, Carrying, Carries
  <2> QED
    BY <1>0, <2>1, <2>2, PostTypes DEF Ids
<1> QED
  BY <1>1, <1>2 DEF Taken

LEMMA OwnedId ==
    ASSUME Inv, NEW c \in Clients, NEW k \in DOMAIN hand[c].list, NEW s \in Streams,
           Own(hand[c].list[k], s)
    PROVE  hand[c].list[k].id \in Nat
  BY HandTypes DEF Inv, Identified, Ids

\* A request whose ids are being made carries what it carried.
LEMMA CarriesSet ==
    ASSUME NEW c, Carries(c), far' = far, hand'[c] = hand[c],
           post[c].stage = "next", post'[c].stage = "set", post'[c].to = post[c].to,
           post'[c].events = post[c].events, post'[c].olds = post[c].olds
    PROVE  Carries(c)'
<1> DEFINE p == post[c]
           h == hand[c]
<1>1. \A o, s : Own(o, s)' <=> Own(o, s)
  BY OwnSame
<1>2. /\ p.to = h.to /\ h.at + Len(p.events) <= Len(h.list) /\ p.olds \subseteq DOMAIN p.events
      /\ p.olds = {i \in DOMAIN p.events : p.events[i].id # None} /\ News(p) # {}
  BY DEF Carries
<1>3. \A i \in DOMAIN p.events :
          /\ p.events[i].event = h.list[h.at + i].event
          /\ p.events[i].mixed = h.list[h.at + i].mixed
          /\ Own(h.list[h.at + i], p.to)' => p.events[i].id = h.list[h.at + i].id
          /\ i \in p.olds => Own(h.list[h.at + i], p.to)'
  BY <1>1 DEF Carries
<1>4. News(post'[c]) = News(p)
  BY DEF News
<1>5. (/\ p.to = h.to /\ h.at + Len(p.events) <= Len(h.list)
       /\ p.olds \subseteq DOMAIN p.events)'
  BY <1>2
<1>6. (\A i \in DOMAIN p.events :
          /\ p.events[i].event = h.list[h.at + i].event
          /\ p.events[i].mixed = h.list[h.at + i].mixed
          /\ Own(h.list[h.at + i], p.to) => p.events[i].id = h.list[h.at + i].id
          /\ i \in p.olds => Own(h.list[h.at + i], p.to))'
  BY <1>1, <1>3
<1>7. (p.olds = {i \in DOMAIN p.events : p.events[i].id # None} /\ News(p) # {})'
  BY <1>2, <1>4
<1>8. p.stage' = "set"
  OBVIOUS
<1>9. p.stage' \notin {"insert", "update", "error"}
  BY <1>8
<1> QED
  BY <1>5, <1>6, <1>7, <1>9, Zenon DEF Carries

LEMMA ReserveInv ==
    ASSUME Inv, NEW c \in Clients, Reserve(c)
    PROVE  Inv'
<1> DEFINE p == post[c]
           q == [p EXCEPT !.stage = "set", !.base = seq[p.to] + 1]
<1>0. TypeOK /\ p \in Posts /\ p.to \in Streams /\ p.stage = "next" /\ Carries(c)
  BY PostTypes DEF Inv, Carrying, Reserve
<1>1. seq[p.to] \in Nat /\ seq[p.to] + 1 \in Nat
  BY <1>0 DEF TypeOK
<1>2. /\ q \in Posts /\ q.stage = "set" /\ q.base = seq[p.to] + 1
      /\ q.to = p.to /\ q.events = p.events /\ q.olds = p.olds
  BY <1>0, <1>1 DEF Posts
<1>3. post' = [post EXCEPT ![c] = q]
  BY <1>0 DEF Reserve, TypeOK
<1> HIDE DEF q
<1>4. post'[c] = q /\ \A d \in Clients : d # c => post'[d] = post[d]
  BY <1>0, <1>3 DEF TypeOK
<1>5. /\ seq' \in [Streams -> Nat] /\ seq'[p.to] = seq[p.to] + 1
      /\ \A s \in Streams : s # p.to => seq'[s] = seq[s]
  BY <1>0, <1>1 DEF Reserve, TypeOK
<1>6. UNCHANGED <<setup, events, far, hand, copy, table, raced>>
  BY DEF Reserve, history
<1>7. Carries(c)'
  <2>1. far' = far /\ hand'[c] = hand[c]
    BY <1>6
  <2>2. post'[c].to = p.to /\ post'[c].events = p.events /\ post'[c].olds = p.olds /\ post'[c].stage = "set"
    BY <1>2, <1>4
  <2> QED
    BY <1>0, <2>1, <2>2, CarriesSet
<1>8. ASSUME NEW s \in Streams, s = q.to, s \notin raced' PROVE KeptIn(s)'
  <2>1. KeptIn(s)
    BY <1>6, <1>8 DEF Inv
  <2>2. Taken(c, s)' = {seq[s] + 1} /\ \A d \in Clients : d # c => Taken(d, s)' = Taken(d, s)
    <3>1. Taken(c, s)' = {seq[s] + 1}
      BY <1>2, <1>4, <1>8 DEF Taken
    <3> QED
      BY <1>4, <3>1, SamePost
  <2>3. \A d \in Clients : Distinct(d, s)'
    <3>1. Distinct(c, s)'
      BY <1>2, <1>4 DEF Distinct
    <3> QED
      BY <1>4, <2>1, <3>1, SamePost DEF KeptIn, IdsOnce
  <2>4. seq[s] \in Nat /\ seq'[s] = seq[s] + 1 /\ table'[s] = table[s]
    BY <1>0, <1>1, <1>2, <1>5, <1>6, <1>8 DEF TypeOK
  <2>5. ASSUME NEW n \in Nat, n <= seq[s], \A d \in Clients : n \notin Taken(d, s)
        PROVE  n <= seq'[s] /\ \A d \in Clients : n \notin Taken(d, s)'
    BY <2>2, <2>4, <2>5
  <2>6. \A r \in table[s] : r.id \in Nat
    BY <1>0, RowTypes
  <2>7. IdsOnce(s)'
    <3>1. \A r \in table'[s] : r.id <= seq'[s] /\ \A d \in Clients : r.id \notin Taken(d, s)'
      BY <2>1, <2>4, <2>5, <2>6 DEF KeptIn, IdsOnce
    <3>2. \A r, x \in table'[s] : r.id = x.id => r = x
      BY <2>1, <2>4 DEF KeptIn, IdsOnce
    <3>3. \A d \in Clients : \A n \in Taken(d, s) : n <= seq[s] /\ n \in Int
      <4>1. \A d \in Clients : \A n \in Taken(d, s) : n <= seq[s]
        BY <2>1 DEF KeptIn, IdsOnce
      <4>2. \A d \in Clients : \A n \in Taken(d, s) : n \in Nat
        BY <1>0, TakenTypes DEF Inv
      <4> QED
        BY <4>1, <4>2
    <3>4. \A d \in Clients : \A n \in Taken(d, s)' : n <= seq'[s]
      BY <2>2, <2>4, <3>3
    <3>5. Taken("copy", s)' \cap Taken("user", s)' = {}
      BY <2>2, <2>4, <3>3
    <3> QED
      BY <2>3, <3>1, <3>2, <3>4, <3>5 DEF IdsOnce
  <2>8. ASSUME NEW d \in Clients, NEW k \in DOMAIN hand[d].list, NEW o,
               o = hand[d].list[k], Own(o, s), ~o.mixed
        PROVE  Knows(o, s)'
    <3>1. Knows(o, s)
      BY <2>1, <2>8 DEF KeptIn
    <3>2. o.id \in Nat
      BY <2>8, OwnedId DEF Inv
    <3> QED
      BY <2>4, <2>5, <3>1, <3>2 DEF Knows
  <2>9. \A r \in table'[s] : r.event # r.made => r.mixed
    BY <2>1, <2>4 DEF KeptIn
  <2> QED
    BY <1>6, <2>7, <2>8, <2>9, KeptParts
<1>9. /\ q.stage # "idle" /\ p.stage # "idle" /\ q.to = p.to
      /\ UNCHANGED <<setup, events, far, hand, copy>> /\ raced \subseteq raced'
      /\ table' \in [Streams -> SUBSET Rows] /\ seq' \in [Streams -> Nat] /\ q \in Posts
  BY <1>0, <1>2, <1>5, <1>6 DEF TypeOK
<1>10. \A s \in Streams : s # q.to => table'[s] = table[s] /\ seq'[s] = seq[s]
  BY <1>2, <1>5, <1>6
<1>11. \A s \in Streams : s = q.to /\ s \notin raced' => KeptIn(s)'
  BY <1>8
<1> QED
  BY <1>3, <1>7, <1>9, <1>10, <1>11, ServeStep, Zenon

LEMMA SetSequenceInv ==
    ASSUME Inv, NEW c \in Clients, SetSequence(c)
    PROVE  Inv'
<1> DEFINE p == post[c]
           N == News(p)
           rank(i) == Cardinality({k \in N : k < i})
           ids == [i \in DOMAIN p.events |->
                     IF i \in N THEN [p.events[i] EXCEPT !.id = p.base + rank(i)] ELSE p.events[i]]
           q == [p EXCEPT !.stage = "insert", !.events = ids]
           last == p.base + Cardinality(N) - 1
<1>0. TypeOK /\ p \in Posts /\ p.to \in Streams /\ p.stage = "set" /\ Carries(c) /\ p.base \in Nat
  BY PostTypes DEF Inv, Carrying, SetSequence
<1>1. PICK n \in Nat : n = Len(p.events) /\ DOMAIN p.events = 1..n
  BY <1>0, PostTypes
<1>2. /\ p.olds = {i \in 1..n : p.events[i].id # None} /\ N # {} /\ N \in SUBSET (1..n)
      /\ N = (1..n) \ p.olds /\ \A i \in N : p.events[i].id = None
  BY <1>0, <1>1 DEF Carries, News
<1>3. /\ post' = [post EXCEPT ![c] = q]
      /\ seq' = [seq EXCEPT ![p.to] = last]
      /\ raced' = IF seq[p.to] = p.base THEN raced ELSE raced \cup {p.to}
      /\ UNCHANGED <<setup, events, far, hand, copy, table>>
  BY <1>0 DEF SetSequence, TypeOK
<1> HIDE DEF N
<1>4. /\ Cardinality(N) \in Nat /\ Cardinality(N) >= 1
      /\ \A i \in N : rank(i) \in Nat /\ rank(i) < Cardinality(N)
      /\ \A i, j \in N : rank(i) = rank(j) => i = j
  BY <1>2, Ranks
<1> HIDE DEF rank
<1>5. last \in Nat /\ p.base <= last
  BY <1>0, <1>4
<1>6. \A i \in N : p.base + rank(i) \in Nat /\ p.base <= p.base + rank(i) /\ p.base + rank(i) <= last
  BY <1>0, <1>4
<1>7. \A i, j \in N : p.base + rank(i) = p.base + rank(j) => i = j
  BY <1>0, <1>4
<1> HIDE DEF last
<1>8. ASSUME NEW i \in 1..n
      PROVE  /\ ids[i] \in Carried /\ ids[i].event = p.events[i].event /\ ids[i].mixed = p.events[i].mixed
             /\ i \in N => ids[i].id = p.base + rank(i)
             /\ i \notin N => ids[i] = p.events[i] /\ ids[i].id # None
  <2>1. p.events[i] \in Carried
    BY <1>0, <1>1, PostTypes
  <2>2. CASE i \in N
    <3>1. ids[i] = [p.events[i] EXCEPT !.id = p.base + rank(i)]
      BY <1>1, <2>2
    <3> HIDE DEF ids
    <3> QED
      BY <1>6, <2>1, <2>2, <3>1 DEF Carried, Ids
  <2>3. CASE i \notin N
    BY <1>1, <1>2, <2>1, <2>3
  <2> QED
    BY <2>2, <2>3
<1>9. ids = [i \in 1..n |-> ids[i]]
  BY <1>1
<1>10. q.stage = "insert" /\ q.to = p.to /\ q.events = ids /\ q.olds = p.olds /\ q.base = p.base
  BY <1>0 DEF Posts
<1> HIDE DEF ids
<1>11. ids \in Seq(Carried) /\ Len(ids) = n /\ DOMAIN ids = 1..n
  <2>1. ids \in [1..n -> Carried]
    BY <1>8, <1>9
  <2>2. ids \in Seq(Carried)
    BY <2>1
  <2> QED
    BY <2>1, <2>2
<1>12. q \in Posts
  BY <1>0, <1>11 DEF Posts
<1> HIDE DEF q
<1>13. post'[c] = q /\ \A d \in Clients : d # c => post'[d] = post[d]
  BY <1>0, <1>3 DEF TypeOK
<1>14. /\ seq' \in [Streams -> Nat] /\ seq'[p.to] = last
       /\ \A s \in Streams : s # p.to => seq'[s] = seq[s]
  BY <1>0, <1>3, <1>5 DEF TypeOK
<1>15. Carries(c)'
  <2>1. p.to = hand[c].to /\ hand[c].at + Len(ids) <= Len(hand[c].list) /\ p.olds \subseteq DOMAIN ids
    BY <1>0, <1>1, <1>2, <1>11 DEF Carries
  <2>2. ASSUME NEW i \in 1..n
        PROVE  /\ ids[i].event = hand[c].list[hand[c].at + i].event
               /\ ids[i].mixed = hand[c].list[hand[c].at + i].mixed
               /\ Own(hand[c].list[hand[c].at + i], p.to) => ids[i].id = hand[c].list[hand[c].at + i].id
               /\ i \in p.olds => Own(hand[c].list[hand[c].at + i], p.to)
    <3>1. PICK o : o = hand[c].list[hand[c].at + i]
      OBVIOUS
    <3>2. /\ p.events[i].event = o.event /\ p.events[i].mixed = o.mixed
          /\ Own(o, p.to) => p.events[i].id = o.id
          /\ i \in p.olds => Own(o, p.to)
      BY <1>0, <1>1, <3>1 DEF Carries
    <3>3. hand[c].at + i \in DOMAIN hand[c].list
      <4>1. PICK m \in Nat : m = Len(hand[c].list) /\ DOMAIN hand[c].list = 1..m
        BY <1>0, HandTypes
      <4>2. hand[c].at \in Nat /\ hand[c].at + n <= m
        BY <1>0, <1>1, <4>1, HandTypes DEF Carries
      <4> QED
        BY <4>1, <4>2
    <3>4. Own(o, p.to) => o.id # None
      BY <1>0, <3>1, <3>3 DEF Inv, Identified
    <3>5. Own(o, p.to) => i \notin N
      BY <1>2, <3>2, <3>4
    <3> QED
      BY <1>8, <3>1, <3>2, <3>5
  <2>3. \A i \in 1..n : ids[i].id # None
    <3>1. \A i \in N : ids[i].id \in Nat
      BY <1>2, <1>6, <1>8
    <3>2. \A i \in N : ids[i].id # None
      BY <3>1
    <3> QED
      BY <1>8, <3>2
  <2>4. hand'[c] = hand[c] /\ \A o, s : Own(o, s)' <=> Own(o, s)
    BY <1>3, OwnSame
  <2> QED
    <3>1. PICK h : h = hand[c]
      OBVIOUS
    <3>2. far' = far /\ post'[c] = q /\ hand'[c] = h /\ q.stage \in {"insert", "update", "error"}
      BY <1>3, <1>10, <1>13, <2>4, <3>1
    <3>3. q.to = h.to /\ h.at + Len(q.events) <= Len(h.list) /\ q.olds \subseteq DOMAIN q.events
      BY <1>10, <2>1, <3>1
    <3>4. \A i \in DOMAIN q.events :
              /\ q.events[i].event = h.list[h.at + i].event
              /\ q.events[i].mixed = h.list[h.at + i].mixed
              /\ Own(h.list[h.at + i], q.to) => q.events[i].id = h.list[h.at + i].id
              /\ i \in q.olds => Own(h.list[h.at + i], q.to)
              /\ q.events[i].id # None
      BY <1>10, <1>11, <2>2, <2>3, <3>1
    <3>5. far' = far /\ hand'[c] = h /\ post'[c] = q /\ q.to = h.to /\ q.stage \notin {"next", "set"}
      BY <3>2, <3>3
    <3>6. \A i \in DOMAIN q.events :
              /\ q.events[i].event = h.list[h.at + i].event
              /\ q.events[i].mixed = h.list[h.at + i].mixed
              /\ Own(h.list[h.at + i], q.to) => q.events[i].id = h.list[h.at + i].id
              /\ i \in q.olds => Own(h.list[h.at + i], q.to)
      BY <3>4, Zenon
    <3>7. \A i \in DOMAIN q.events : q.events[i].id # None
      BY <3>4, Zenon
    <3> QED
      BY <3>3, <3>5, <3>6, <3>7, CarriesMade
<1>16. ASSUME NEW s \in Streams, s = q.to, s \notin raced' PROVE KeptIn(s)'
  <2>1. seq[s] = p.base /\ s \notin raced
    BY <1>3, <1>10, <1>16
  <2>2. KeptIn(s)
    BY <2>1 DEF Inv
  <2>3. Taken(c, s) = {p.base}
    BY <1>0, <1>10, <1>16 DEF Taken
  <2>4. Taken(c, s)' = {ids[i].id : i \in (1..n) \ p.olds}
    BY <1>10, <1>11, <1>13, <1>16 DEF Taken
  <2>5. \A m \in Taken(c, s)' : m \in Nat /\ p.base <= m /\ m <= last
    BY <1>2, <1>6, <1>8, <2>4
  <2>6. \A d \in Clients : d # c => Taken(d, s)' = Taken(d, s)
    BY <1>13, SamePost
  <2>7. seq'[s] = last /\ table'[s] = table[s]
    BY <1>3, <1>10, <1>14, <1>16
  <2>8. ASSUME NEW m \in Nat, m <= seq[s], m \notin Taken(c, s)
        PROVE  m <= seq'[s] /\ m \notin Taken(c, s)'
    <3>1. m < p.base
      BY <1>0, <2>1, <2>3, <2>8
    <3> QED
      BY <1>0, <1>5, <2>5, <2>7, <3>1
  <2>9. \A d \in Clients : Distinct(d, s)'
    <3>1. Distinct(c, s)'
      <4>1. \A i, k \in (1..n) \ p.olds : ids[i].id = ids[k].id => i = k
        BY <1>2, <1>7, <1>8
      <4> QED
        BY <1>10, <1>11, <1>13, <4>1 DEF Distinct
    <3> QED
      BY <1>13, <2>2, <3>1, SamePost DEF KeptIn, IdsOnce
  <2>10. IdsOnce(s)'
    <3>1. ASSUME NEW r \in table'[s]
          PROVE  r.id <= seq'[s] /\ \A d \in Clients : r.id \notin Taken(d, s)'
      <4>1. r.id \in Nat /\ r.id <= seq[s] /\ \A d \in Clients : r.id \notin Taken(d, s)
        BY <1>0, <2>2, <2>7, RowTypes DEF KeptIn, IdsOnce
      <4> QED
        BY <2>6, <2>8, <4>1
    <3>2. \A r, x \in table'[s] : r.id = x.id => r = x
      BY <2>2, <2>7 DEF KeptIn, IdsOnce
    <3>3. ASSUME NEW d \in Clients, d # c, NEW m \in Taken(d, s)
          PROVE  m <= seq'[s] /\ m \notin Taken(c, s)'
      <4>1. m \in Nat
        BY <3>3, TakenTypes
      <4>2. m <= seq[s]
        BY <2>2 DEF KeptIn, IdsOnce
      <4>3. m \notin Taken(c, s)
        BY <2>2, <3>3 DEF KeptIn, IdsOnce
      <4> QED
        BY <2>8, <4>1, <4>2, <4>3
    <3>4. \A d \in Clients : \A m \in Taken(d, s)' : m <= seq'[s]
      BY <2>5, <2>6, <2>7, <3>3
    <3>5. Taken("copy", s)' \cap Taken("user", s)' = {}
      BY <2>6, <3>3
    <3> QED
      BY <2>9, <3>1, <3>2, <3>4, <3>5 DEF IdsOnce
  <2>11. ASSUME NEW d \in Clients, NEW k \in DOMAIN hand[d].list, NEW o,
                o = hand[d].list[k], Own(o, s), ~o.mixed
         PROVE  Knows(o, s)'
    <3>1. Knows(o, s)
      BY <2>2, <2>11 DEF KeptIn
    <3>2. o.id \in Nat
      BY <2>11, OwnedId
    <3>3. o.id <= seq'[s] /\ \A x \in Clients : o.id \notin Taken(x, s)'
      BY <2>6, <2>8, <3>1, <3>2 DEF Knows
    <3> QED
      BY <2>7, <3>1, <3>3 DEF Knows
  <2>12. \A r \in table'[s] : r.event # r.made => r.mixed
    BY <2>2, <2>7 DEF KeptIn
  <2> QED
    BY <1>3, <2>10, <2>11, <2>12, KeptParts
<1>17. raced \subseteq raced' /\ table' \in [Streams -> SUBSET Rows]
  BY <1>0, <1>3 DEF TypeOK
<1> QED
  BY <1>0, <1>3, <1>10, <1>12, <1>14, <1>15, <1>16, <1>17, ServeStep

LEMMA CarriesOn ==
    ASSUME Inv, NEW c \in Clients, post[c].stage \in {"insert", "update"},
           NEW q, post'[c] = q, far' = far, hand' = hand, q.stage \in {"update", "error"},
           q.to = post[c].to, q.events = post[c].events, q.olds \subseteq post[c].olds
    PROVE  Carries(c)'
<1>1. PICK h : h = hand[c]
  OBVIOUS
<1>2. Carries(c)
  BY DEF Inv, Carrying
<1>3. q.to = h.to /\ h.at + Len(q.events) <= Len(h.list) /\ q.olds \subseteq DOMAIN q.events
  BY <1>1, <1>2 DEF Carries
<1>4. \A i \in DOMAIN q.events :
         /\ q.events[i].event = h.list[h.at + i].event
         /\ q.events[i].mixed = h.list[h.at + i].mixed
         /\ Own(h.list[h.at + i], q.to) => q.events[i].id = h.list[h.at + i].id
         /\ i \in q.olds => Own(h.list[h.at + i], q.to)
         /\ q.events[i].id # None
  BY <1>1, <1>2 DEF Carries
<1>5. hand'[c] = h /\ q.stage \notin {"next", "set"}
  BY <1>1
<1>6. \A o, s : Own(o, s)' <=> Own(o, s)
  BY OwnSame
<1> QED
  BY <1>3, <1>4, <1>5, <1>6 DEF Carries, Own, Node, StreamId

LEMMA InsertInv ==
    ASSUME Inv, NEW c \in Clients, Insert(c)
    PROVE  Inv'
<1> DEFINE p == post[c]
           new == DOMAIN p.events \ p.olds
           ok == \A i \in new : Valid(p.events[i].event)
           rows == {Row(p.events[i].id, p.events[i].event) : i \in new}
           q == [p EXCEPT !.stage = IF ok THEN "update" ELSE "error"]
<1>0. TypeOK /\ p \in Posts /\ p.to \in Streams /\ p.stage = "insert" /\ Carries(c)
  BY PostTypes DEF Inv, Carrying, Insert
<1>1. /\ post' = [post EXCEPT ![c] = q]
      /\ table' = IF ok THEN [table EXCEPT ![p.to] = @ \cup rows] ELSE table
      /\ UNCHANGED <<setup, events, far, hand, copy, seq, raced>>
  <2>1. UNCHANGED <<setup, events, far, hand, copy, seq, raced>>
    BY DEF Insert
  <2>2. table' = IF ok THEN [table EXCEPT ![p.to] = @ \cup rows] ELSE table
    BY DEF Insert
  <2>3. post' = [post EXCEPT ![c] = q]
    <3>1. post' = [post EXCEPT ![c].stage = IF ok THEN "update" ELSE "error"]
      BY DEF Insert
    <3> HIDE DEF ok
    <3> QED
      BY <3>1
  <2> QED
    BY <2>1, <2>2, <2>3
<1>2. \A i \in new : p.events[i].id \in Nat /\ p.events[i].event \in Nat
  BY <1>0, PostTypes DEF Carries, Ids
<1>3. \A x \in rows :
        /\ x \in Rows /\ x.event = x.made
        /\ \E i \in new : x = Row(p.events[i].id, p.events[i].event) /\ x.id = p.events[i].id
  <2>1. ASSUME NEW i \in new, NEW x, x = Row(p.events[i].id, p.events[i].event)
        PROVE  x \in Rows /\ x.event = x.made /\ x.id = p.events[i].id
    BY <1>2, <2>1 DEF Row, Rows
  <2>2. \A x \in rows : \E i \in new : x = Row(p.events[i].id, p.events[i].event)
    OBVIOUS
  <2> HIDE DEF new, rows
  <2> QED
    BY <2>1, <2>2
<1>4. /\ q \in Posts /\ q.stage \in {"update", "error"}
      /\ q.to = p.to /\ q.events = p.events /\ q.olds = p.olds
  BY <1>0 DEF Posts
<1> HIDE DEF ok, rows, q
<1>5. post'[c] = q /\ \A d \in Clients : d # c => post'[d] = post[d]
  BY <1>0, <1>1 DEF TypeOK
<1>6. /\ table' \in [Streams -> SUBSET Rows] /\ seq' \in [Streams -> Nat]
      /\ table'[p.to] \subseteq table[p.to] \cup rows
      /\ \A s \in Streams : s # p.to => table'[s] = table[s] /\ seq'[s] = seq[s]
  <2>1. table[p.to] \cup rows \in SUBSET Rows
    BY <1>0, <1>3 DEF TypeOK
  <2>2. CASE ok
    BY <1>0, <1>1, <2>1, <2>2 DEF TypeOK
  <2>3. CASE ~ok
    BY <1>0, <1>1, <2>3 DEF TypeOK
  <2> QED
    BY <2>2, <2>3
<1>7. Carries(c)'
  <2>1. post[c].stage \in {"insert", "update"} /\ q.olds \subseteq post[c].olds
    BY <1>0, <1>4
  <2> QED
    BY <1>1, <1>4, <1>5, <2>1, CarriesOn
<1>8. ASSUME NEW s \in Streams, s = q.to, s \notin raced' PROVE KeptIn(s)'
  <2>1. KeptIn(s)
    BY <1>1, <1>8 DEF Inv
  <2>2. Taken(c, s) = {p.events[i].id : i \in new}
    BY <1>0, <1>4, <1>8 DEF Taken
  <2>3. Taken(c, s)' = {} /\ Distinct(c, s)'
    BY <1>4, <1>5, QuietPost
  <2>4. \A d \in Clients : d # c => Taken(d, s)' = Taken(d, s)
    BY <1>5, SamePost
  <2>5. \A d \in Clients : Distinct(d, s)'
    BY <1>5, <2>1, <2>3, SamePost DEF KeptIn, IdsOnce
  <2>6. seq'[s] = seq[s] /\ table'[s] \subseteq table[s] \cup rows
    BY <1>1, <1>4, <1>6, <1>8
  <2>7. \A x \in rows : x.id \in Taken(c, s)
    BY <1>3, <2>2
  <2>8. \A r \in table[s] : \A x \in rows : r.id # x.id
    BY <2>1, <2>7 DEF KeptIn, IdsOnce
  <2>9. \A x, y \in rows : x.id = y.id => x = y
    <3>1. \A i, k \in new : p.events[i].id = p.events[k].id => i = k
      BY <1>0, <1>4, <1>8, <2>1 DEF KeptIn, IdsOnce, Distinct
    <3> QED
      BY <1>3, <3>1
  <2>10. IdsOnce(s)'
    <3>1. ASSUME NEW r \in table'[s]
          PROVE  r.id <= seq'[s] /\ \A d \in Clients : r.id \notin Taken(d, s)'
      <4>1. CASE r \in table[s]
        BY <2>1, <2>3, <2>4, <2>6, <4>1 DEF KeptIn, IdsOnce
      <4>2. CASE r \in rows
        <5>1. r.id \in Taken(c, s)
          BY <2>7, <4>2
        <5>2. r.id <= seq[s]
          BY <2>1, <5>1 DEF KeptIn, IdsOnce
        <5>3. \A d \in Clients : d # c => r.id \notin Taken(d, s)
          BY <2>1, <5>1 DEF KeptIn, IdsOnce
        <5> QED
          BY <2>3, <2>4, <2>6, <5>2, <5>3
      <4> QED
        BY <2>6, <4>1, <4>2
    <3>2. \A r, x \in table'[s] : r.id = x.id => r = x
      BY <2>1, <2>6, <2>8, <2>9 DEF KeptIn, IdsOnce
    <3>3. \A d \in Clients : \A n \in Taken(d, s)' : n <= seq'[s]
      BY <2>1, <2>3, <2>4, <2>6 DEF KeptIn, IdsOnce
    <3>4. Taken("copy", s)' \cap Taken("user", s)' = {}
      BY <2>1, <2>3, <2>4 DEF KeptIn, IdsOnce
    <3> QED
      BY <2>5, <3>1, <3>2, <3>3, <3>4 DEF IdsOnce
  <2>11. \A r \in table'[s] : r.event # r.made => r.mixed
    BY <1>3, <2>1, <2>6 DEF KeptIn
  <2>12. ASSUME NEW d \in Clients, NEW k \in DOMAIN hand[d].list, NEW o,
                o = hand[d].list[k], Own(o, s), ~o.mixed
         PROVE  Knows(o, s)'
    <3>1. Knows(o, s)
      BY <2>1, <2>12 DEF KeptIn
    <3>2. o.id <= seq'[s] /\ \A x \in Clients : o.id \notin Taken(x, s)'
      BY <2>3, <2>4, <2>6, <3>1 DEF Knows
    <3>3. \A r \in table'[s] : r.id = o.id => r.made = o.event \/ r.mixed
      BY <2>6, <2>7, <3>1 DEF Knows
    <3> QED
      BY <3>2, <3>3 DEF Knows
  <2> QED
    BY <1>1, <2>10, <2>11, <2>12, KeptParts
<1>9. q.stage # "idle" /\ p.stage # "idle"
  BY <1>0, <1>4
<1> QED
  BY <1>1, <1>4, <1>6, <1>7, <1>8, <1>9, ServeStep

LEMMA UpdateInv ==
    ASSUME Inv, NEW c \in Clients, Update(c)
    PROVE  Inv'
<1> DEFINE p == post[c]
           least == CHOOSE n \in p.olds : \A k \in p.olds : n <= k
<1>0. TypeOK /\ p \in Posts /\ p.to \in Streams /\ p.stage = "update" /\ p.olds # {} /\ Carries(c)
  BY PostTypes DEF Inv, Carrying, Update
<1>1. PICK i \in p.olds : i = least
  <2>1. p.olds \in SUBSET Nat
    BY <1>0, PostTypes
  <2>2. \E n \in p.olds : \A k \in p.olds : n <= k
    BY <1>0, <2>1, LeastIndex
  <2> QED
    BY <2>2
<1> DEFINE j == p.events[i]
           t == p.to
           hit == {r \in table[t] : r.id = j.id}
           f(r) == [r EXCEPT !.event = j.event, !.mixed = @ \/ j.mixed]
           rows == {f(r) : r \in hit}
           q == [p EXCEPT !.olds = @ \ {i}]
<1>2. /\ table' = [table EXCEPT ![t] = (@ \ hit) \cup rows]
      /\ post' = [post EXCEPT ![c].olds = @ \ {i}]
      /\ UNCHANGED <<setup, events, far, hand, copy, seq, raced>>
  <2>1. rows = Written(hit, j)
    BY DEF Written
  <2> HIDE DEF rows
  <2> QED
    BY <1>1, <2>1 DEF Update
<1>3. i \in DOMAIN p.events /\ j.event \in Nat /\ j.mixed \in BOOLEAN
  BY <1>0, <1>1, PostTypes DEF Carries
<1>4. \A r \in hit : /\ r \in table[t] /\ f(r) \in Rows /\ f(r).id = r.id /\ f(r).made = r.made
                      /\ f(r).event = j.event /\ (f(r).mixed <=> (r.mixed \/ j.mixed))
  <2>1. \A r \in hit : r \in table[t] /\ r \in Rows
    BY <1>0, RowTypes
  <2>2. PICK e \in Nat : e = j.event
    BY <1>3
  <2>3. PICK m \in BOOLEAN : m = j.mixed
    BY <1>3
  <2>4. \A r : f(r) = [r EXCEPT !.event = e, !.mixed = @ \/ m]
    BY <2>2, <2>3
  <2> HIDE DEF hit, j, f
  <2>5. ASSUME NEW r \in hit
        PROVE  /\ f(r) \in Rows /\ f(r).id = r.id /\ f(r).made = r.made
               /\ f(r).event = e /\ (f(r).mixed <=> (r.mixed \/ m))
    <3>1. PICK x : x = f(r)
      OBVIOUS
    <3>2. r \in Rows /\ x = [r EXCEPT !.event = e, !.mixed = @ \/ m]
      BY <2>1, <2>4, <3>1
    <3>3. PICK b \in BOOLEAN : b = (r.mixed \/ m)
      BY <3>2 DEF Rows
    <3>4. x = [r EXCEPT !.event = e, !.mixed = b]
      <4>1. r \in Rows
        BY <3>2
      <4>2. x = [r EXCEPT !.event = e, !.mixed = (r.mixed \/ m)]
        BY <3>2, <4>1 DEF Rows
      <4> QED
        BY <3>3, <4>2
    <3>5. x \in Rows /\ x.id = r.id /\ x.made = r.made /\ x.event = e /\ x.mixed = b
      <4>1. r \in Rows
        BY <3>2
      <4> QED
        BY <3>4, <4>1 DEF Rows
    <3> QED
      BY <3>1, <3>3, <3>5
  <2> QED
    BY <2>1, <2>2, <2>3, <2>5
<1>5. post' = [post EXCEPT ![c] = q]
  BY <1>2
<1>6. q \in Posts /\ q.stage = "update" /\ q.to = t /\ q.events = p.events /\ q.olds \subseteq p.olds
  BY <1>0 DEF Posts
<1>7. \A x \in rows : \E r \in hit : x = f(r)
  OBVIOUS
<1>8. \A r \in table[t] : r \in hit <=> r.id = j.id
  OBVIOUS
<1> HIDE DEF q, hit, f, rows
<1>9. post'[c] = q /\ \A d \in Clients : d # c => post'[d] = post[d]
  BY <1>0, <1>5 DEF TypeOK
<1>10. /\ table' \in [Streams -> SUBSET Rows] /\ seq' \in [Streams -> Nat]
       /\ table'[t] = (table[t] \ hit) \cup rows
       /\ \A s \in Streams : s # t => table'[s] = table[s] /\ seq'[s] = seq[s]
  <2>1. (table[t] \ hit) \cup rows \in SUBSET Rows
    BY <1>0, <1>4, <1>7 DEF TypeOK
  <2> QED
    BY <1>0, <1>2, <2>1 DEF TypeOK
<1>11. \A x \in table'[t] : \E r \in table[t] :
          /\ x.id = r.id /\ x.made = r.made /\ (r.mixed => x.mixed)
          /\ x = IF r \in hit THEN f(r) ELSE r
  BY <1>4, <1>7, <1>10
<1>12. Carries(c)'
  <2>1. post[c].stage \in {"insert", "update"} /\ q.stage \in {"update", "error"}
    BY <1>0, <1>6
  <2> QED
    BY <1>2, <1>6, <1>9, <2>1, CarriesOn
<1>13. ASSUME NEW s \in Streams, s = q.to, s \notin raced' PROVE KeptIn(s)'
  <2>0. s = t /\ s \notin raced
    BY <1>2, <1>6, <1>13
  <2>1. KeptIn(s)
    BY <2>0 DEF Inv
  <2>2. \A d \in Clients : Taken(d, s)' = Taken(d, s) /\ Distinct(d, s)'
    <3>1. Taken(c, s)' = {} /\ Distinct(c, s)'
      BY <1>6, <1>9, QuietPost
    <3>2. Taken(c, s) = {}
      BY <1>0 DEF Taken
    <3> QED
      BY <1>9, <2>1, <3>1, <3>2, SamePost DEF KeptIn, IdsOnce
  <2>3. seq'[s] = seq[s]
    BY <1>2
  <2>4. \A x \in table'[s] : \E r \in table[s] :
          /\ x.id = r.id /\ x.made = r.made /\ (r.mixed => x.mixed)
          /\ x = IF r \in hit THEN f(r) ELSE r
    BY <1>11, <2>0
  <2>5. IdsOnce(s)'
    <3>1. \A x \in table'[s] : x.id <= seq'[s] /\ \A d \in Clients : x.id \notin Taken(d, s)'
      BY <2>1, <2>2, <2>3, <2>4 DEF KeptIn, IdsOnce
    <3>2. \A x, y \in table'[s] : x.id = y.id => x = y
      BY <2>1, <2>4 DEF KeptIn, IdsOnce
    <3>3. \A d \in Clients : \A n \in Taken(d, s)' : n <= seq'[s]
      BY <2>1, <2>2, <2>3 DEF KeptIn, IdsOnce
    <3>4. Taken("copy", s)' \cap Taken("user", s)' = {}
      BY <2>1, <2>2 DEF KeptIn, IdsOnce
    <3> QED
      BY <2>2, <3>1, <3>2, <3>3, <3>4 DEF IdsOnce
  <2>6. ASSUME NEW d \in Clients, NEW k \in DOMAIN hand[d].list, NEW o,
               o = hand[d].list[k], Own(o, s), ~o.mixed
        PROVE  Knows(o, s) /\ Knows(o, s)'
    <3>1. Knows(o, s)
      BY <2>1, <2>6 DEF KeptIn
    <3>2. o.id <= seq'[s] /\ \A x \in Clients : o.id \notin Taken(x, s)'
      BY <2>2, <2>3, <3>1 DEF Knows
    <3>3. \A x \in table'[s] : x.id = o.id => x.made = o.event \/ x.mixed
      BY <2>4, <3>1 DEF Knows
    <3> QED
      BY <3>1, <3>2, <3>3 DEF Knows
  <2>7. \A r \in hit : j.mixed \/ r.mixed \/ r.made = j.event
    <3>1. PICK k \in DOMAIN hand[c].list :
            /\ Own(hand[c].list[k], s) /\ j.event = hand[c].list[k].event
            /\ j.mixed = hand[c].list[k].mixed /\ j.id = hand[c].list[k].id
      <4>1. hand[c].at + i \in DOMAIN hand[c].list
        <5>1. PICK m \in Nat : m = Len(hand[c].list) /\ DOMAIN hand[c].list = 1..m
          BY <1>0, HandTypes
        <5>2. PICK n \in Nat : n = Len(p.events) /\ DOMAIN p.events = 1..n
          BY <1>0, PostTypes
        <5>3. PICK at \in Nat : at = hand[c].at /\ at + n <= m
          BY <1>0, <5>1, <5>2, HandTypes DEF Carries
        <5>4. i \in 1..n
          BY <1>3, <5>2
        <5>5. at + i \in 1..m
          BY <5>3, <5>4
        <5> QED
          BY <5>1, <5>3, <5>5
      <4>2. PICK k \in DOMAIN hand[c].list : k = hand[c].at + i
        BY <4>1
      <4> QED
        BY <1>0, <1>1, <1>3, <2>0, <4>2 DEF Carries
    <3>2. PICK o : o = hand[c].list[k]
      OBVIOUS
    <3>3. CASE ~o.mixed
      <4>1. Knows(o, s)
        BY <2>6, <3>1, <3>2, <3>3
      <4> QED
        BY <1>4, <1>8, <2>0, <3>1, <3>2, <4>1 DEF Knows
    <3> QED
      BY <3>1, <3>2, <3>3
  <2>8. \A x \in table'[s] : x.event # x.made => x.mixed
    <3>1. ASSUME NEW x \in table'[s], x.event # x.made PROVE x.mixed
      <4>1. PICK r \in table[s] :
              /\ x.made = r.made /\ (r.mixed => x.mixed) /\ x = IF r \in hit THEN f(r) ELSE r
        BY <2>4
      <4>2. CASE r \in hit
        BY <1>4, <2>7, <3>1, <4>1, <4>2
      <4>3. CASE r \notin hit
        BY <2>1, <3>1, <4>1, <4>3 DEF KeptIn
      <4> QED
        BY <4>2, <4>3
    <3> QED
      BY <3>1
  <2> QED
    BY <1>2, <2>5, <2>6, <2>8, KeptParts
<1>14. /\ q.stage # "idle" /\ p.stage # "idle" /\ q.to = p.to
       /\ UNCHANGED <<setup, events, far, hand, copy>> /\ raced \subseteq raced'
  BY <1>0, <1>2, <1>6
<1>15. \A s \in Streams : s # q.to => table'[s] = table[s] /\ seq'[s] = seq[s]
  BY <1>6, <1>10
<1>16. \A s \in Streams : s = q.to /\ s \notin raced' => KeptIn(s)'
  BY <1>13
<1> QED
  BY <1>5, <1>6, <1>10, <1>12, <1>14, <1>15, <1>16, ServeStep, Zenon

-----------------------------------------------------------------------------
LEMMA InitInv == Init => Inv
<1> SUFFICES ASSUME Init PROVE Inv
  OBVIOUS
<1>1. PICK h \in Setups :
        /\ setup = h
        /\ events = [i \in 1..(Len(h.source) + Len(h.dest)) |->
                       LET t == (h.source \o h.dest)[i] IN [start |-> t[1], end |-> t[2]]]
        /\ table = [s \in Streams |->
                       IF s = Source THEN {Row(i, i) : i \in 1..Len(h.source)}
                       ELSE {Row(i, Len(h.source) + i) : i \in 1..Len(h.dest)}]
        /\ seq = [s \in Streams |-> IF s = Source THEN Len(h.source) ELSE Len(h.dest)]
  BY DEF Init
<1>2. /\ far \in BOOLEAN /\ hand = [c \in Clients |-> NoHand] /\ post = [c \in Clients |-> Idle]
      /\ DOMAIN copy = {"pc", "new", "start", "end", "open", "runs"} /\ raced = {}
  BY DEF Init
<1>3. PICK a \in Nat : a = Len(h.source)
  OBVIOUS
<1>4. PICK b \in Nat : b = Len(h.dest)
  OBVIOUS
<1>5. events \in Seq([start : Int, end : Int])
  <2>1. PICK all : all = h.source \o h.dest
    OBVIOUS
  <2>2. \A i \in 1..(a + b) : all[i] \in Int \X Int
    <3>1. h.source \in Seq(Int \X Int) /\ h.dest \in Seq(Int \X Int)
      OBVIOUS
    <3>2. \A i \in 1..(Len(h.source) + Len(h.dest)) : (h.source \o h.dest)[i] \in Int \X Int
      BY <3>1, Joined, Zenon
    <3> QED
      BY <1>3, <1>4, <2>1, <3>2, Zenon
  <2>3. \A i \in 1..(a + b) : [start |-> all[i][1], end |-> all[i][2]] \in [start : Int, end : Int]
    BY <2>2
  <2>4. events = [i \in 1..(a + b) |-> [start |-> all[i][1], end |-> all[i][2]]]
    BY <1>1, <1>3, <1>4, <2>1
  <2>5. a + b \in Nat
    OBVIOUS
  <2> QED
    BY <2>3, <2>4, <2>5
<1>6. seq = [s \in Streams |-> IF s = Source THEN a ELSE b]
  BY <1>1, <1>3, <1>4
<1>7. table = [s \in Streams |-> IF s = Source THEN {Row(i, i) : i \in 1..a}
                                 ELSE {Row(i, a + i) : i \in 1..b}]
  BY <1>1, <1>3, <1>4
<1>8. \A s \in Streams : \A r \in table[s] :
        \E i \in 1..seq[s] : \E e \in Nat :
           r = Row(i, e) /\ e = IF s = Source THEN i ELSE a + i
  <2>1. ASSUME NEW r \in table[Source] PROVE \E i \in 1..a : i \in Nat /\ r = Row(i, i)
    <3>1. PICK i \in 1..a : r = Row(i, i)
      BY <1>7
    <3> QED
      BY <3>1
  <2>2. ASSUME NEW r \in table[Dest] PROVE \E i \in 1..b : a + i \in Nat /\ r = Row(i, a + i)
    <3>1. PICK i \in 1..b : r = Row(i, a + i)
      BY <1>7
    <3> QED
      BY <3>1
  <2>3. seq[Source] = a /\ seq[Dest] = b
    BY <1>6
  <2> QED
    BY <2>1, <2>2, <2>3
<1>9. \A s \in Streams : seq[s] \in Nat
  BY <1>6
<1>10. \A i, e \in Nat : /\ Row(i, e) \in Rows /\ Row(i, e).id = i
                         /\ Row(i, e).event = e /\ Row(i, e).made = e
  BY DEF Row, Rows
<1>11. TypeOK
  <2>1. \A s \in Streams : table[s] \subseteq Rows
    BY <1>8, <1>9, <1>10
  <2>2. table \in [Streams -> SUBSET Rows]
    BY <1>7, <2>1
  <2>3. hand \in [Clients -> Hands] /\ post \in [Clients -> Posts]
    BY <1>2, NoHandTypes, IdleTypes
  <2>4. seq \in [Streams -> Nat]
    BY <1>6
  <2> QED
    BY <1>1, <1>2, <1>5, <2>2, <2>3, <2>4 DEF TypeOK
<1>12. \A c \in Clients : post[c] = Idle /\ hand[c] = NoHand
  BY <1>2
<1>13. Carrying /\ CopyQuiet /\ Identified
  BY <1>12, NoHandTypes, IdleTypes DEF Carrying, CopyQuiet, Identified
<1>14. ASSUME NEW s \in Streams PROVE KeptIn(s)
  <2>1. \A c \in Clients : Taken(c, s) = {} /\ Distinct(c, s)
    BY <1>12, IdleTypes DEF Taken, Distinct
  <2>2. ASSUME NEW r \in table[s] PROVE r.id \in 1..seq[s] /\ r.event = r.made
    <3>1. PICK i \in 1..seq[s] : \E e \in Nat : r = Row(i, e)
      BY <1>8
    <3>2. PICK e \in Nat : r = Row(i, e)
      BY <3>1
    <3>3. i \in Nat
      BY <1>9, <3>1
    <3>4. r.id = i /\ r.event = r.made
      BY <1>10, <3>2, <3>3
    <3> QED
      BY <3>1, <3>4
  <2>3. ASSUME NEW r \in table[s], NEW x \in table[s], r.id = x.id PROVE r = x
    <3>1. PICK i \in 1..seq[s], e \in Nat : r = Row(i, e) /\ e = IF s = Source THEN i ELSE a + i
      BY <1>8
    <3>2. PICK k \in 1..seq[s], d \in Nat : x = Row(k, d) /\ d = IF s = Source THEN k ELSE a + k
      BY <1>8
    <3>3. i \in Nat /\ k \in Nat
      BY <1>9
    <3>4. r.id = i /\ x.id = k
      BY <1>10, <3>1, <3>2, <3>3
    <3>5. i = k
      BY <2>3, <3>4
    <3> QED
      BY <3>1, <3>2, <3>5
  <2>4. IdsOnce(s)
    BY <1>9, <2>1, <2>2, <2>3 DEF IdsOnce
  <2> QED
    BY <1>12, <2>2, <2>4, NoHandTypes DEF KeptIn
<1> QED
  BY <1>11, <1>13, <1>14 DEF Inv

LEMMA NextInv == Inv /\ [Next]_vars => Inv'
<1> SUFFICES ASSUME Inv, [Next]_vars PROVE Inv'
  OBVIOUS
<1>1. ASSUME NEW c \in Clients, Serve(c) PROVE Inv'
  BY <1>1, ReserveInv, SetSequenceInv, InsertInv, UpdateInv, ReplyInv DEF Serve
<1>2. ASSUME NEW c \in Clients, Send(c) \/ Retry(c) \/ Abort(c) PROVE Inv'
  BY <1>2, SendInv, RetryInv, AbortInv
<1>3. ASSUME NEW action, NEW new \in BOOLEAN, NEW b, CopyStart(action, new, b[1], b[2]) PROVE Inv'
  BY <1>3, CopyStartInv
<1>4. CASE CopyRead \/ CopyNext \/ CopyFail
  BY <1>4, CopyReadInv, CopyNextInv, CopyFailInv
<1>5. ASSUME NEW s \in Streams, UserRead(s) \/ UserWrite(s) PROVE Inv'
  BY <1>5, UserReadInv, UserWriteInv
<1>6. ASSUME NEW s \in Streams, NEW t \in setup.new, UserNew(t, s) PROVE Inv'
  BY <1>6, UserNewInv
<1>7. ASSUME NEW s \in Streams, NEW b, UserRemove(s, b[1], b[2]) PROVE Inv'
  BY <1>7, UserRemoveInv
<1>8. CASE UNCHANGED vars
  BY <1>8, HandSound, CalmStep DEF vars, store, clients, history, Inv, TypeOK, CopyQuiet
<1> QED
  BY <1>1, <1>2, <1>3, <1>4, <1>5, <1>6, <1>7, <1>8 DEF Next

\* The inductive invariant: requests carry the events of the client's list, and in
\* a stream whose reservations never overlapped every id is used once and every
\* object a client holds, unless it is mixed, names the row of its own event.
THEOREM InvHolds == Spec => []Inv
  BY InitInv, NextInv, PTL DEF Spec

\* No write replaces another event than the one it is about, for any streams, any
\* block sizes and any number of copies, failures and operations of the user
\* (EventStore.upsert, Event.to_json, event_stream_write).
THEOREM EventsStay == Spec => []EventsKept
<1>1. Inv => EventsKept
  BY DEF Inv, KeptIn, EventsKept
<1> QED
  BY <1>1, InvHolds, PTL

-----------------------------------------------------------------------------
(* What a copy has read, and what it has stored *)

CopyList == hand["copy"].list

\* How far the events of the block are in the table of Dest.
Stored ==
    hand["copy"].at + (IF post["copy"].stage = "update" THEN Len(post["copy"].events) ELSE 0)

\* Rows, lists and windows are about events there are.
Known ==
    /\ \A s \in Streams : \A r \in table[s] : r.event \in DOMAIN events
    /\ \A c \in Clients : \A k \in DOMAIN hand[c].list : hand[c].list[k].event \in DOMAIN events
    /\ steady \subseteq DOMAIN events

\* A request has something to store, and all the copy stores is new to Dest.
Posted ==
    /\ \A c \in Clients : post[c].stage # "idle" => Len(post[c].events) > 0
    /\ post["copy"].stage # "idle" => post["copy"].olds = {}

\* A window without a start has no end either, unless it was given so.
Window ==
    /\ copy.start \in Int \cup {None} /\ copy.end \in Int \cup {None}
    /\ copy.start = None => copy.end = None \/ copy.open

\* The block that is written: objects of Source in the order they start.
Block ==
    copy.pc = "write" =>
        /\ hand["copy"].to = Dest /\ Len(CopyList) > 0
        /\ \A k \in DOMAIN CopyList : CopyList[k].node = Source /\ CopyList[k].stream = 1
        /\ \A i, k \in DOMAIN CopyList :
              i < k => events[CopyList[i].event].start <= events[CopyList[k].event].start

Laid == Known /\ Posted /\ Window /\ Block

\* The copy has still to come to e.
Waits(e) ==
    \/ copy.pc = "read" /\ (copy.start = None \/ events[e].start >= copy.start)
    \/ /\ copy.pc = "write"
       /\ \/ events[e].start >= After(CopyList)
          \/ \E k \in DOMAIN CopyList : k > Stored /\ CopyList[k].event = e

\* An event of the window is stored, was taken away by a user, or is still to come.
Complete ==
    copy.pc \in {"read", "write", "done"} /\ ~copy.open => \A e \in steady :
        /\ copy.end = None \/ events[e].start < copy.end
        /\ Alone(e) => e \in Contents(Dest) \cup gone \/ Waits(e)

-----------------------------------------------------------------------------

\* A step makes events and forgets none.
Lasting ==
    /\ \A e \in DOMAIN events : e \in DOMAIN events' /\ events'[e] = events[e]
    /\ \A e \in DOMAIN events : events[e].start \in Int

LEMMA EventTypes ==
    ASSUME TypeOK
    PROVE  /\ Len(events) \in Nat /\ DOMAIN events = 1..Len(events)
           /\ \A e \in DOMAIN events : events[e].start \in Int /\ events[e].end \in Int
<1>1. events \in Seq([start : Int, end : Int])
  BY DEF TypeOK
<1>2. Len(events) \in Nat /\ DOMAIN events = 1..Len(events)
  BY <1>1, ElementsOf
<1>3. \A e \in DOMAIN events : events[e] \in [start : Int, end : Int]
  BY <1>1, ElementsOf
<1> QED
  BY <1>2, <1>3

LEMMA SameEvents ==
    ASSUME TypeOK, events' = events
    PROVE  Lasting
  BY EventTypes DEF Lasting

LEMMA MoreEvents ==
    ASSUME TypeOK, NEW t \in setup.new, NEW s, UserNew(t, s)
    PROVE  Lasting /\ Len(events) + 1 \in DOMAIN events' /\ Len(events) + 1 \notin DOMAIN events
<1>1. PICK x \in [start : Int, end : Int] : events' = Append(events, x)
  <2>1. t \in Int \X Int
    BY DEF TypeOK
  <2>2. [start |-> t[1], end |-> t[2]] \in [start : Int, end : Int]
    BY <2>1
  <2> QED
    BY <2>2 DEF UserNew
<1>2. events \in Seq([start : Int, end : Int]) /\ Len(events) \in Nat
  BY DEF TypeOK
<1>3. /\ Len(events') = Len(events) + 1 /\ events' \in Seq([start : Int, end : Int])
      /\ \A i \in 1..Len(events) : events'[i] = events[i]
  BY <1>1, <1>2, AppendProperties
<1>4. DOMAIN events = 1..Len(events) /\ DOMAIN events' = 1..(Len(events) + 1)
  BY <1>2, <1>3
<1> QED
  BY <1>2, <1>3, <1>4, EventTypes DEF Lasting

\* The objects of a list keep what they are about.
SameList(c) ==
    /\ DOMAIN hand'[c].list = DOMAIN hand[c].list /\ Len(hand'[c].list) = Len(hand[c].list)
    /\ \A k \in DOMAIN hand[c].list :
          /\ hand'[c].list[k].event = hand[c].list[k].event
          /\ hand'[c].list[k].node = hand[c].list[k].node
          /\ hand'[c].list[k].stream = hand[c].list[k].stream

LEMMA LastIndex ==
    ASSUME TypeOK, Len(CopyList) > 0
    PROVE  Len(CopyList) \in DOMAIN CopyList
<1>1. Len(CopyList) \in Nat /\ DOMAIN CopyList = 1..Len(CopyList)
  BY HandTypes DEF CopyList
<1> QED
  BY <1>1

LEMMA BlockFrame ==
    ASSUME Known, Block, Lasting, SameList("copy"), hand'["copy"].to = hand["copy"].to,
           copy'.pc = "write" => copy.pc = "write"
    PROVE  Block'
<1> SUFFICES ASSUME copy'.pc = "write"
             PROVE  /\ hand'["copy"].to = Dest /\ Len(CopyList') > 0
                    /\ \A k \in DOMAIN CopyList' : CopyList'[k].node = Source /\ CopyList'[k].stream = 1
                    /\ \A i, k \in DOMAIN CopyList' :
                          i < k => events'[CopyList'[i].event].start <= events'[CopyList'[k].event].start
  BY DEF Block
<1>1. \A k \in DOMAIN CopyList : CopyList[k].event \in DOMAIN events
  BY DEF Known, CopyList
<1>2. \A k \in DOMAIN CopyList : events'[CopyList'[k].event] = events[CopyList[k].event]
  BY <1>1 DEF Lasting, SameList, CopyList
<1> QED
  BY <1>2 DEF SameList, Block, CopyList

\* Steps within the reading or the writing of a block.
LEMMA CompleteFrame ==
    ASSUME TypeOK, Known, Block, Complete, Lasting, SameList("copy"),
           UNCHANGED <<copy, steady>>,
           \A e \in Contents(Dest) \cup gone : e \in Contents(Dest)' \cup gone',
           \A k \in DOMAIN CopyList :
              k > Stored => k > Stored' \/ CopyList[k].event \in Contents(Dest)'
    PROVE  Complete'
<1> SUFFICES ASSUME copy.pc \in {"read", "write", "done"}, ~copy.open, NEW e \in steady
             PROVE  /\ copy.end = None \/ events'[e].start < copy.end
                    /\ Alone(e)' => e \in Contents(Dest)' \cup gone' \/ Waits(e)'
  BY DEF Complete
<1>1. e \in DOMAIN events /\ events'[e] = events[e]
  BY DEF Known, Lasting
<1>2. Alone(e)' => Alone(e)
  BY <1>1 DEF Alone, Lasting
<1>3. ASSUME Waits(e) PROVE e \in Contents(Dest)' \/ Waits(e)'
  <2>1. CASE copy.pc = "read"
    BY <1>1, <1>3, <2>1 DEF Waits
  <2>2. CASE copy.pc = "write" /\ events[e].start >= After(CopyList)
    <3>1. Len(CopyList) \in DOMAIN CopyList
      BY <2>2, LastIndex DEF Block
    <3>2. /\ Len(CopyList') = Len(CopyList)
          /\ CopyList'[Len(CopyList)].event = CopyList[Len(CopyList)].event
      BY <3>1 DEF SameList, CopyList
    <3>3. events'[CopyList[Len(CopyList)].event] = events[CopyList[Len(CopyList)].event]
      BY <3>1 DEF Known, Lasting, CopyList
    <3>4. After(CopyList)' = After(CopyList)
      BY <3>2, <3>3 DEF After
    <3> QED
      BY <1>1, <2>2, <3>4 DEF Waits
  <2>3. CASE copy.pc = "write" /\ \E k \in DOMAIN CopyList : k > Stored /\ CopyList[k].event = e
    <3>1. PICK k \in DOMAIN CopyList : k > Stored /\ CopyList[k].event = e
      BY <2>3
    <3>2. k \in DOMAIN CopyList' /\ CopyList'[k].event = e
      BY <3>1 DEF SameList, CopyList
    <3> QED
      BY <2>3, <3>1, <3>2 DEF Waits
  <2> QED
    BY <1>3, <2>1, <2>2, <2>3 DEF Waits
<1> QED
  BY <1>1, <1>2, <1>3 DEF Complete
-----------------------------------------------------------------------------
(* What the requests do *)

\* The objects of the copy are not of Dest.
LEMMA CopyForeign ==
    ASSUME TypeOK, NEW o, o.node = Source, o.stream = 1
    PROVE  ~Own(o, Dest)
  BY DEF TypeOK, Own, Node, StreamId

LEMMA OneFresh ==
    ASSUME NEW o, NEW s, NEW j, j = Belongs(ToJson(o, s), s)
    PROVE  j.fresh = (o.id = None)
<1>1. PICK x : x = ToJson(o, s)
  OBVIOUS
<1>2. x.fresh = (o.id = None) /\ DOMAIN x = {"id", "stream", "event", "mixed", "fresh"}
  BY <1>1 DEF ToJson
<1>3. j = x \/ j = [x EXCEPT !.id = None, !.stream = StreamId(s)]
  BY <1>1 DEF Belongs
<1>4. [x EXCEPT !.id = None, !.stream = StreamId(s)].fresh = x.fresh
  BY <1>2
<1> QED
  BY <1>2, <1>3, <1>4

\* A chunk is not empty, and says which of its objects have been stored before.
LEMMA ChunkMade ==
    ASSUME TypeOK, NEW c \in Clients, hand[c].at < Len(hand[c].list),
           NEW p, p = NextChunk(c)
    PROVE  /\ Len(p.events) > 0 /\ p.stage \in {"next", "update"}
           /\ p.olds = {i \in DOMAIN p.events : p.events[i].id # None}
           /\ (\E i \in DOMAIN p.events : p.events[i].id = None) => p.stage = "next"
           /\ \A i \in DOMAIN p.events :
                 p.events[i].fresh = (hand[c].list[hand[c].at + i].id = None)
<1> DEFINE h == hand[c]
<1>1. PICK m \in Nat : m = h.at
  BY HandTypes
<1>2. PICK n \in Nat : n = Len(h.list)
  BY HandTypes
<1>3. PICK t \in Nat : t = IF m + WriteBlock < n THEN m + WriteBlock ELSE n
  OBVIOUS
<1>4. m < t /\ t <= n
  BY <1>1, <1>2, <1>3
<1>5. PICK chunk : chunk = SubSeq(h.list, m + 1, t)
  OBVIOUS
<1>6. h.list \in Seq(Objects)
  BY HandTypes
<1>7. PICK l \in Seq(Objects) : l = h.list /\ Len(l) = n
  BY <1>2, <1>6
<1> HIDE DEF h
<1>8. /\ chunk \in Seq(Objects) /\ Len(chunk) = t - m
      /\ \A i \in 1..(t - m) : chunk[i] = l[m + i]
  BY <1>4, <1>5, <1>7, SliceOf
<1>9. DOMAIN chunk = 1..(t - m) /\ t - m \in Nat
  BY <1>4, <1>8
<1>10. PICK j : j = [i \in DOMAIN chunk |-> Belongs(ToJson(chunk[i], h.to), h.to)]
  OBVIOUS
<1>11. /\ p.events = j
       /\ p.olds = {i \in DOMAIN j : j[i].id # None}
       /\ p.stage = IF \E i \in DOMAIN j : j[i].id = None THEN "next" ELSE "update"
  BY <1>1, <1>2, <1>3, <1>5, <1>10 DEF NextChunk, h
<1>12. DOMAIN j = 1..(t - m)
  BY <1>9, <1>10
<1>13. Len(j) = t - m
  <2>1. PICK d \in Nat : d = t - m
    BY <1>9
  <2>2. DOMAIN j = 1..d
    BY <1>12, <2>1
  <2>3. j = [i \in 1..d |-> j[i]]
    BY <1>9, <1>10, <2>1
  <2>4. Len(j) = d
    BY <2>2, <2>3
  <2> QED
    BY <2>1, <2>4
<1>14. \A i \in DOMAIN j : j[i].fresh = (h.list[h.at + i].id = None)
  <2>1. ASSUME NEW i \in DOMAIN j PROVE j[i].fresh = (h.list[h.at + i].id = None)
    <3>1. chunk[i] = h.list[h.at + i]
      BY <1>1, <1>7, <1>8, <1>12
    <3>2. j[i] = Belongs(ToJson(chunk[i], h.to), h.to)
      BY <1>9, <1>10, <1>12
    <3> QED
      BY <3>1, <3>2, OneFresh
  <2> QED
    BY <2>1
<1> QED
  BY <1>4, <1>11, <1>13, <1>14 DEF h

\* The chunks of the copy are new to Dest.
LEMMA CopyChunk ==
    ASSUME Inv, Laid, copy.pc = "write", hand["copy"].at < Len(CopyList),
           post'["copy"] = NextChunk("copy"), hand'["copy"] = hand["copy"], far' = far
    PROVE  post'["copy"].olds = {} /\ post'["copy"].stage = "next" /\ Len(post'["copy"].events) > 0
<1>1. PICK p : p = NextChunk("copy")
  OBVIOUS
<1>2. /\ Len(p.events) > 0 /\ p.olds = {i \in DOMAIN p.events : p.events[i].id # None}
      /\ (\E i \in DOMAIN p.events : p.events[i].id = None) => p.stage = "next"
  BY <1>1, ChunkMade DEF Inv, CopyList
<1>3. Carries("copy")' /\ p \in Posts
  <2>1. hand["copy"].at <= Len(hand["copy"].list)
    BY HandTypes DEF Inv, CopyList
  <2> QED
    BY <1>1, <2>1, ChunkCarries DEF Inv
<1>4. /\ p.to = hand["copy"].to /\ hand["copy"].at + Len(p.events) <= Len(CopyList)
      /\ \A i \in DOMAIN p.events : i \in p.olds => Own(CopyList[hand["copy"].at + i], p.to)
  BY <1>1, <1>3, OwnSame DEF Carries, CopyList
<1>5. Len(p.events) \in Nat /\ DOMAIN p.events = 1..Len(p.events)
  <2>1. p.events \in Seq(Carried)
    BY <1>3 DEF Posts
  <2> QED
    BY <2>1, ElementsOf
<1>6. \A i \in DOMAIN p.events : hand["copy"].at + i \in DOMAIN CopyList
  <2>1. /\ hand["copy"].at \in Nat /\ Len(CopyList) \in Nat
        /\ DOMAIN CopyList = 1..Len(CopyList)
    BY HandTypes DEF Inv, CopyList
  <2> QED
    BY <1>4, <1>5, <2>1
<1>7. \A i \in DOMAIN p.events : i \notin p.olds
  BY <1>4, <1>6, CopyForeign DEF Laid, Block, Inv
<1>8. 1 \in DOMAIN p.events
  BY <1>2, <1>5
<1> QED
  BY <1>1, <1>2, <1>7, <1>8

\* Insert stores the events of the new objects, or nothing.
LEMMA InsertMade ==
    ASSUME Inv, NEW c \in Clients, Insert(c)
    PROVE  /\ post[c].stage = "insert" /\ post[c].to \in Streams
           /\ post'[c].to = post[c].to /\ post'[c].events = post[c].events /\ post'[c].olds = post[c].olds
           /\ \A d \in Clients : d # c => post'[d] = post[d]
           /\ \A s \in Streams : s # post[c].to => table'[s] = table[s]
           /\ \/ post'[c].stage = "error" /\ table' = table
              \/ /\ post'[c].stage = "update"
                 /\ \A i \in DOMAIN post[c].events \ post[c].olds : Valid(post[c].events[i].event)
                 /\ \A x \in table'[post[c].to] : x \in table[post[c].to] \/
                       /\ x.event = x.made
                       /\ \E i \in DOMAIN post[c].events \ post[c].olds :
                             x = Row(post[c].events[i].id, post[c].events[i].event)
                             /\ x.event = post[c].events[i].event
                 /\ table[post[c].to] \subseteq table'[post[c].to]
                 /\ \A i \in DOMAIN post[c].events \ post[c].olds :
                       \E x \in table'[post[c].to] : x.event = post[c].events[i].event
           /\ plain' = (plain /\ IF c = "copy" THEN copy.new
                                 ELSE \A i \in DOMAIN post[c].events \ post[c].olds : post[c].events[i].fresh)
           /\ UNCHANGED <<setup, events, far, seq, hand, copy, steady, gone>>
<1> DEFINE p == post[c]
           new == DOMAIN p.events \ p.olds
           ok == \A i \in new : Valid(p.events[i].event)
           rows == {Row(p.events[i].id, p.events[i].event) : i \in new}
           q == [p EXCEPT !.stage = IF ok THEN "update" ELSE "error"]
<1>0. TypeOK /\ p \in Posts /\ p.to \in Streams /\ p.stage = "insert"
  BY PostTypes DEF Inv, Insert
<1>1. /\ table' = IF ok THEN [table EXCEPT ![p.to] = @ \cup rows] ELSE table
      /\ UNCHANGED <<setup, events, far, seq, hand, copy, steady, gone>>
  BY DEF Insert
<1>2. plain' = (plain /\ IF c = "copy" THEN copy.new ELSE \A i \in new : p.events[i].fresh)
  BY DEF Insert
<1>3. post' = [post EXCEPT ![c] = q]
  <2>1. post' = [post EXCEPT ![c].stage = IF ok THEN "update" ELSE "error"]
    BY DEF Insert
  <2> HIDE DEF ok
  <2> QED
    BY <2>1
<1>4. \A x \in rows : /\ x.event = x.made
                      /\ \E i \in new : x = Row(p.events[i].id, p.events[i].event)
                                        /\ x.event = p.events[i].event
  BY DEF Row
<1>5. ASSUME NEW i \in new PROVE \E x \in rows : x.event = p.events[i].event
  <2>1. Row(p.events[i].id, p.events[i].event) \in rows
    OBVIOUS
  <2>2. Row(p.events[i].id, p.events[i].event).event = p.events[i].event
    BY DEF Row
  <2> QED
    BY <2>1, <2>2
<1> HIDE DEF ok, rows, new, q
<1>6. /\ post'[c] = q /\ \A d \in Clients : d # c => post'[d] = post[d]
  BY <1>0, <1>3 DEF TypeOK
<1>7. /\ q.to = p.to /\ q.events = p.events /\ q.olds = p.olds
      /\ q.stage = IF ok THEN "update" ELSE "error"
  BY <1>0 DEF Posts, q
<1>8. CASE ok
  <2>1. /\ table'[p.to] = table[p.to] \cup rows
        /\ \A s \in Streams : s # p.to => table'[s] = table[s]
    BY <1>0, <1>1, <1>8 DEF TypeOK
  <2>2. \A i \in new : \E x \in table'[p.to] : x.event = p.events[i].event
    BY <1>5, <2>1
  <2> QED
    BY <1>0, <1>1, <1>2, <1>4, <1>6, <1>7, <1>8, <2>1, <2>2 DEF ok, new
<1>9. CASE ~ok
  <2>1. table' = table
    BY <1>1, <1>9
  <2> QED
    BY <1>0, <1>1, <1>2, <1>6, <1>7, <1>9, <2>1 DEF new
<1> QED
  BY <1>8, <1>9

\* Update replaces the event of the rows with one id.
LEMMA UpdateMade ==
    ASSUME Inv, NEW c \in Clients, Update(c)
    PROVE  /\ post[c].stage = "update" /\ post[c].olds # {} /\ post[c].to \in Streams
           /\ post'[c].to = post[c].to /\ post'[c].events = post[c].events
           /\ post'[c].stage = post[c].stage
           /\ \A d \in Clients : d # c => post'[d] = post[d]
           /\ \A s \in Streams : s # post[c].to => table'[s] = table[s]
           /\ UNCHANGED <<setup, events, far, seq, hand, copy, steady>>
           /\ \E i \in DOMAIN post[c].events :
                 LET e == post[c].events[i].event
                     hit == {r \in table[post[c].to] : r.id = post[c].events[i].id}
                 IN  /\ plain' => plain /\ \A r \in hit : r.made = e
                     /\ \A r \in table[post[c].to] \ hit : r \in table'[post[c].to]
                     /\ \A r \in hit : \E x \in table'[post[c].to] : x.event = e
                     /\ \A x \in table'[post[c].to] : x \in table[post[c].to] \ hit \/
                           \E r \in hit : /\ x.event = e /\ x.made = r.made
                                          /\ x = [r EXCEPT !.event = e,
                                                    !.mixed = @ \/ post[c].events[i].mixed]
                     /\ c = "user" /\ post[c].to = Dest =>
                           gone' = gone \cup Lost(hit, e)
                     /\ gone \subseteq gone'
<1> DEFINE p == post[c]
           least == CHOOSE n \in p.olds : \A k \in p.olds : n <= k
<1>0. TypeOK /\ p \in Posts /\ p.to \in Streams /\ p.stage = "update" /\ p.olds # {} /\ Carries(c)
  BY PostTypes DEF Inv, Carrying, Update
<1>1. PICK i \in p.olds : i = least
  <2>1. p.olds \in SUBSET Nat
    BY <1>0, PostTypes
  <2>2. \E n \in p.olds : \A k \in p.olds : n <= k
    BY <1>0, <2>1, LeastIndex
  <2> QED
    BY <2>2
<1>2. i \in DOMAIN p.events
  BY <1>0, <1>1 DEF Carries
<1> DEFINE j == p.events[i]
           t == p.to
           hit == {r \in table[t] : r.id = j.id}
           f(r) == [r EXCEPT !.event = j.event, !.mixed = @ \/ j.mixed]
           rows == {f(r) : r \in hit}
           q == [p EXCEPT !.olds = @ \ {i}]
<1>3. /\ table' = [table EXCEPT ![t] = (@ \ hit) \cup rows]
      /\ post' = [post EXCEPT ![c].olds = @ \ {i}]
      /\ UNCHANGED <<setup, events, far, seq, hand, copy, steady>>
      /\ plain' = (plain /\ \A r \in hit : r.made = j.event)
      /\ gone' = IF c = "user" /\ t = Dest THEN gone \cup Lost(hit, j.event) ELSE gone
  <2>1. table' = [table EXCEPT ![t] = (@ \ hit) \cup rows]
    <3>1. rows = Written(hit, j)
      BY DEF Written
    <3> HIDE DEF rows
    <3> QED
      BY <1>1, <3>1 DEF Update
  <2>4. post' = [post EXCEPT ![c].olds = @ \ {i}]
    BY <1>1 DEF Update
  <2>5. UNCHANGED <<setup, events, far, seq, hand, copy, steady>>
    BY DEF Update
  <2>2. plain' = (plain /\ \A r \in hit : r.made = j.event)
    BY <1>1 DEF Update
  <2>3. gone' = IF c = "user" /\ t = Dest THEN gone \cup Lost(hit, j.event) ELSE gone
    BY <1>1 DEF Update
  <2> QED
    BY <2>1, <2>2, <2>3, <2>4, <2>5
<1>4. /\ post'[c] = q /\ \A d \in Clients : d # c => post'[d] = post[d]
      /\ q.to = p.to /\ q.events = p.events /\ q.stage = p.stage
  BY <1>0, <1>3 DEF TypeOK, Posts
<1>5. table'[t] = (table[t] \ hit) \cup rows /\ \A s \in Streams : s # t => table'[s] = table[s]
  BY <1>0, <1>3 DEF TypeOK
<1>6. \A r \in hit : f(r).event = j.event /\ f(r).made = r.made
  <2>1. \A r \in hit : r \in Rows
    BY <1>0, RowTypes
  <2> HIDE DEF hit, j
  <2> QED
    BY <2>1 DEF Rows
<1> HIDE DEF f, j, hit, q
<1>7. /\ \A r \in table[t] \ hit : r \in table'[t]
      /\ \A r \in hit : \E x \in table'[t] : x.event = j.event
      /\ \A x \in table'[t] : x \in table[t] \ hit \/
            \E r \in hit : x.event = j.event /\ x.made = r.made /\ x = f(r)
  BY <1>5, <1>6
<1>8. gone \subseteq gone' /\ (c = "user" /\ t = Dest => gone' = gone \cup Lost(hit, j.event))
  BY <1>3
<1>9. plain' => plain /\ \A r \in hit : r.made = j.event
  BY <1>3
<1> QED
  BY <1>0, <1>2, <1>3, <1>4, <1>5, <1>7, <1>8, <1>9 DEF f, j, hit

\* A reply changes ids, and only those of the chunk.
LEMMA ReplyMade ==
    ASSUME Inv, NEW c \in Clients, Reply(c)
    PROVE  /\ post[c].stage = "update" /\ post'[c] = Idle /\ SameList(c)
           /\ hand'[c].to = hand[c].to /\ hand'[c].at = hand[c].at + Len(post[c].events)
           /\ \A k \in DOMAIN hand[c].list :
                 hand'[c].list[k].id = None =>
                    hand[c].list[k].id = None /\ ~(k - hand[c].at \in DOMAIN post[c].events)
           /\ \A d \in Clients : d # c => hand'[d] = hand[d] /\ post'[d] = post[d]
           /\ UNCHANGED <<store, copy, history>>
<1> DEFINE p == post[c]
           h == hand[c]
           ids == [i \in DOMAIN p.events |-> p.events[i].id]
<1>0. TypeOK
  BY DEF Inv
<1>1. PICK n \in Nat : n = Len(p.events) /\ DOMAIN p.events = 1..n
  BY <1>0, PostTypes
<1>2. p.stage = "update" /\ Carries(c)
  BY DEF Inv, Carrying, Reply
<1>3. ids \in [1..n -> Nat]
  <2>1. \A i \in 1..n : p.events[i].id \in Nat
    BY <1>0, <1>1, <1>2, PostTypes DEF Carries, Ids
  <2> QED
    BY <1>1, <2>1
<1>4. PICK rx : rx = h.rx \o ids
  OBVIOUS
<1>5. h.rx \in Seq(Nat)
  BY <1>0, HandTypes
<1> HIDE DEF ids
<1>6. \A i \in 1..n : rx[i] \in Nat
  BY <1>3, <1>4, <1>5, Received
<1>7. PICK m \in Nat : m = Len(h.list) /\ DOMAIN h.list = 1..m
  BY <1>0, HandTypes
<1> DEFINE object(k) ==
             [h.list[k] EXCEPT !.id = rx[k - h.at],
                !.mixed = \/ @ \/ rx[k - h.at] # p.events[k - h.at].id
                          \/ h.list[k].node # Node(p.to) \/ h.list[k].stream # StreamId(p.to)]
           list == [k \in DOMAIN h.list |->
                      IF k - h.at \in DOMAIN p.events THEN object(k) ELSE h.list[k]]
<1>8. /\ hand' = [hand EXCEPT ![c] = [list |-> list, at |-> h.at + Len(p.events), rx |-> rx, to |-> h.to]]
      /\ post' = [post EXCEPT ![c] = Idle]
      /\ UNCHANGED <<store, copy, history>>
  BY <1>4 DEF Reply, ids
<1>9. ASSUME NEW k \in 1..m
      PROVE  /\ list[k].event = h.list[k].event /\ list[k].node = h.list[k].node
             /\ list[k].stream = h.list[k].stream
             /\ list[k].id = None => h.list[k].id = None /\ ~(k - h.at \in DOMAIN p.events)
  <2>1. h.list[k] \in Objects
    BY <1>0, <1>7, HandTypes
  <2>2. CASE k - h.at \notin DOMAIN p.events
    BY <1>7, <2>2
  <2>3. CASE k - h.at \in DOMAIN p.events
    <3>1. rx[k - h.at] \in Nat
      BY <1>1, <1>6, <2>3
    <3>2. PICK o \in Objects : o = h.list[k]
      BY <2>1
    <3>3. PICK x \in Nat : x = rx[k - h.at]
      BY <3>1
    <3>4. PICK v : v = (\/ o.mixed \/ rx[k - h.at] # p.events[k - h.at].id
                        \/ h.list[k].node # Node(p.to) \/ h.list[k].stream # StreamId(p.to))
      OBVIOUS
    <3>5. list[k] = [o EXCEPT !.id = x, !.mixed = v]
      BY <1>7, <2>3, <3>2, <3>3, <3>4
    <3>6. PICK y : y = list[k]
      OBVIOUS
    <3> HIDE DEF list
    <3>7. y.event = o.event /\ y.node = o.node /\ y.stream = o.stream /\ y.id = x
      BY <3>5, <3>6 DEF Objects
    <3>8. x # None
      BY <3>3
    <3> QED
      BY <3>2, <3>6, <3>7, <3>8
  <2> QED
    BY <2>2, <2>3
<1>10. DOMAIN list = 1..m
  BY <1>7
<1>11. Len(list) = m
  <2>1. list = [k \in 1..m |-> list[k]]
    BY <1>7
  <2> HIDE DEF list
  <2> QED
    BY <2>1
<1> HIDE DEF list
<1>12. /\ hand'[c].list = list /\ hand'[c].at = h.at + Len(p.events) /\ hand'[c].to = h.to
       /\ \A d \in Clients : d # c => hand'[d] = hand[d] /\ post'[d] = post[d]
       /\ post'[c] = Idle
  BY <1>0, <1>8 DEF TypeOK
<1>13. SameList(c)
  BY <1>7, <1>9, <1>10, <1>11, <1>12 DEF SameList
<1> QED
  BY <1>2, <1>7, <1>8, <1>9, <1>12, <1>13

-----------------------------------------------------------------------------
(* The steps keep what is laid out and what is complete *)

\* Rows and the list of the user are about events there are.
KnownNext ==
    /\ \A s \in Streams : \A r \in table'[s] : r.event \in DOMAIN events'
    /\ \A k \in DOMAIN hand'["user"].list : hand'["user"].list[k].event \in DOMAIN events'

LEMMA KnownFrame ==
    ASSUME Known, Lasting, SameList("copy"), KnownNext, steady' \subseteq steady
    PROVE  Known'
<1>1. \A k \in DOMAIN hand'["copy"].list : hand'["copy"].list[k].event \in DOMAIN events'
  BY DEF Known, Lasting, SameList
<1> QED
  BY <1>1 DEF Known, Lasting, KnownNext

\* Steps of a request, and of the user.
LEMMA StepKeeps ==
    ASSUME Inv, Laid, Complete, Lasting, SameList("copy"), hand'["copy"].to = hand["copy"].to,
           UNCHANGED <<copy, steady>>, KnownNext, Posted',
           \A e \in Contents(Dest) \cup gone : e \in Contents(Dest)' \cup gone',
           \A k \in DOMAIN CopyList :
              k > Stored => k > Stored' \/ CopyList[k].event \in Contents(Dest)'
    PROVE  Laid' /\ Complete'
<1>1. Known'
  BY KnownFrame DEF Laid
<1>2. Window'
  BY DEF Laid, Window
<1>3. Block'
  BY BlockFrame DEF Laid
<1>4. Complete'
  BY CompleteFrame DEF Laid, Inv
<1> QED
  BY <1>1, <1>2, <1>3, <1>4 DEF Laid

LEMMA SameLists ==
    ASSUME NEW c, hand'[c] = hand[c]
    PROVE  SameList(c) /\ hand'[c].to = hand[c].to
  BY DEF SameList

LEMMA SameKnown ==
    ASSUME Known, Lasting, table' = table, hand'["user"] = hand["user"]
    PROVE  KnownNext
  BY DEF Known, Lasting, KnownNext

LEMMA ReserveMade ==
    ASSUME Inv, NEW c \in Clients, Reserve(c)
    PROVE  /\ post[c].stage = "next" /\ post'[c].stage = "set"
           /\ post'[c].to = post[c].to /\ post'[c].events = post[c].events /\ post'[c].olds = post[c].olds
           /\ \A d \in Clients : d # c => post'[d] = post[d]
           /\ UNCHANGED <<setup, events, far, table, hand, copy, ops, faults, history>>
<1>1. post[c] \in Posts /\ post \in [Clients -> Posts]
  BY PostTypes DEF Inv, TypeOK
<1>2. post' = [post EXCEPT ![c].stage = "set", ![c].base = seq[post[c].to] + 1]
  BY DEF Reserve
<1> QED
  BY <1>1, <1>2 DEF Reserve, Posts

LEMMA SetSequenceMade ==
    ASSUME Inv, NEW c \in Clients, SetSequence(c)
    PROVE  /\ post[c].stage = "set" /\ post'[c].stage = "insert"
           /\ post'[c].to = post[c].to /\ post'[c].olds = post[c].olds
           /\ Len(post'[c].events) = Len(post[c].events)
           /\ DOMAIN post'[c].events = DOMAIN post[c].events
           /\ \A i \in DOMAIN post[c].events : post'[c].events[i].fresh = post[c].events[i].fresh
           /\ \A d \in Clients : d # c => post'[d] = post[d]
           /\ UNCHANGED <<setup, events, far, table, hand, copy, ops, faults, steady, gone, plain>>
<1> DEFINE p == post[c]
           id(i) == p.base + Cardinality({k \in News(p) : k < i})
           ids == [i \in DOMAIN p.events |->
                     IF i \in News(p) THEN [p.events[i] EXCEPT !.id = id(i)] ELSE p.events[i]]
           q == [p EXCEPT !.stage = "insert", !.events = ids]
<1>1. p \in Posts /\ post \in [Clients -> Posts]
  BY PostTypes DEF Inv, TypeOK
<1>2. /\ p.stage = "set"
      /\ post' = [post EXCEPT ![c].stage = "insert", ![c].events = ids]
      /\ UNCHANGED <<setup, events, far, table, hand, copy, ops, faults, steady, gone, plain>>
  BY DEF SetSequence
<1>3. PICK n \in Nat : n = Len(p.events) /\ DOMAIN p.events = 1..n
  BY PostTypes DEF Inv
<1>4. \A i \in DOMAIN p.events : ids[i].fresh = p.events[i].fresh
  <2>1. ASSUME NEW i \in DOMAIN p.events PROVE ids[i].fresh = p.events[i].fresh
    <3>1. p.events[i] \in Carried
      BY PostTypes DEF Inv
    <3> HIDE DEF id, p
    <3> QED
      BY <3>1 DEF Carried
  <2> QED
    BY <2>1
<1>5. DOMAIN ids = 1..n /\ Len(ids) = n
  <2>1. DOMAIN ids = 1..n
    BY <1>3
  <2>2. ids = [i \in 1..n |-> ids[i]]
    BY <1>3
  <2> HIDE DEF ids
  <2> QED
    BY <2>1, <2>2
<1> HIDE DEF ids
<1>6. post'[c] = q /\ \A d \in Clients : d # c => post'[d] = post[d]
  <2>1. post' = [post EXCEPT ![c].stage = "insert", ![c].events = ids]
    BY <1>2
  <2>2. DOMAIN post = Clients
    BY <1>1
  <2> QED
    BY <2>1, <2>2
<1>7. q.stage = "insert" /\ q.events = ids /\ q.to = p.to /\ q.olds = p.olds
  BY <1>1 DEF Posts
<1> HIDE DEF q
<1>8. /\ post'[c].stage = "insert" /\ post'[c].to = p.to /\ post'[c].olds = p.olds
      /\ Len(post'[c].events) = Len(p.events) /\ DOMAIN post'[c].events = DOMAIN p.events
  BY <1>3, <1>5, <1>6, <1>7
<1>9. \A i \in DOMAIN p.events : post'[c].events[i].fresh = p.events[i].fresh
  BY <1>4, <1>6, <1>7
<1> QED
  BY <1>2, <1>6, <1>8, <1>9, Zenon

\* A request of one client is no matter of the other.
LEMMA PostedFrame ==
    ASSUME Posted, NEW c \in Clients,
           \A d \in Clients : d # c => post'[d] = post[d],
           post'[c].stage # "idle" =>
              /\ Len(post'[c].events) > 0
              /\ c = "copy" => post'[c].olds = {}
    PROVE  Posted'
  BY DEF Posted

\* How far a copy has come does not change with what the user does.
LEMMA SameStored ==
    ASSUME NEW c \in Clients, c # "copy", hand'["copy"] = hand["copy"],
           \A d \in Clients : d # c => post'[d] = post[d]
    PROVE  Stored' = Stored
  BY DEF Stored

LEMMA StoredTypes ==
    ASSUME Inv
    PROVE  /\ Stored \in Nat /\ DOMAIN CopyList = 1..Len(CopyList) /\ Len(CopyList) \in Nat
           /\ hand["copy"].at \in Nat /\ hand["copy"].at <= Stored
<1>1. hand["copy"].at \in Nat /\ Len(post["copy"].events) \in Nat
  BY HandTypes, PostTypes DEF Inv
<1>2. DOMAIN CopyList = 1..Len(CopyList) /\ Len(CopyList) \in Nat
  BY HandTypes DEF Inv, CopyList
<1> QED
  BY <1>1, <1>2 DEF Stored

LEMMA ReserveKeeps ==
    ASSUME Inv, Laid, Complete, NEW c \in Clients, Reserve(c)
    PROVE  Laid' /\ Complete'
<1>1. /\ post[c].stage = "next" /\ post'[c].stage = "set"
      /\ post'[c].events = post[c].events /\ post'[c].olds = post[c].olds
      /\ \A d \in Clients : d # c => post'[d] = post[d]
      /\ UNCHANGED <<events, table, hand, copy, steady, gone>>
  BY ReserveMade DEF history
<1>2. Lasting
  BY <1>1, SameEvents DEF Inv
<1>3. SameList("copy") /\ hand'["copy"].to = hand["copy"].to
  BY <1>1, SameLists
<1>4. KnownNext
  BY <1>1, <1>2, SameKnown DEF Laid
<1>5. Posted'
  BY <1>1, PostedFrame DEF Laid, Posted
<1>6. Stored' = Stored
  BY <1>1 DEF Stored
<1>7. Contents(Dest)' = Contents(Dest)
  BY <1>1 DEF Contents
<1> QED
  BY <1>1, <1>2, <1>3, <1>4, <1>5, <1>6, <1>7, StepKeeps

LEMMA SetSequenceKeeps ==
    ASSUME Inv, Laid, Complete, NEW c \in Clients, SetSequence(c)
    PROVE  Laid' /\ Complete'
<1>1. /\ post[c].stage = "set" /\ post'[c].stage = "insert"
      /\ Len(post'[c].events) = Len(post[c].events) /\ post'[c].olds = post[c].olds
      /\ \A d \in Clients : d # c => post'[d] = post[d]
      /\ UNCHANGED <<events, table, hand, copy, steady, gone>>
  BY SetSequenceMade
<1>2. Lasting
  BY <1>1, SameEvents DEF Inv
<1>3. SameList("copy") /\ hand'["copy"].to = hand["copy"].to
  BY <1>1, SameLists
<1>4. KnownNext
  BY <1>1, <1>2, SameKnown DEF Laid
<1>5. Posted'
  BY <1>1, PostedFrame DEF Laid, Posted
<1>6. Stored' = Stored
  BY <1>1 DEF Stored
<1>7. Contents(Dest)' = Contents(Dest)
  BY <1>1 DEF Contents
<1> QED
  BY <1>1, <1>2, <1>3, <1>4, <1>5, <1>6, <1>7, StepKeeps

\* What a request carries is there.
LEMMA CarriedKnown ==
    ASSUME Inv, Known, NEW c \in Clients, post[c].stage # "idle", NEW i \in DOMAIN post[c].events
    PROVE  /\ hand[c].at + i \in DOMAIN hand[c].list
           /\ post[c].events[i].event = hand[c].list[hand[c].at + i].event
           /\ post[c].events[i].event \in DOMAIN events
<1>1. Carries(c)
  BY DEF Inv, Carrying
<1>2. PICK n \in Nat : n = Len(post[c].events) /\ DOMAIN post[c].events = 1..n
  BY PostTypes DEF Inv
<1>3. PICK m \in Nat : m = Len(hand[c].list) /\ DOMAIN hand[c].list = 1..m
  BY HandTypes DEF Inv
<1>4. PICK a \in Nat : a = hand[c].at /\ a + n <= m
  BY <1>1, <1>2, <1>3, HandTypes DEF Inv, Carries
<1>5. i \in 1..n
  BY <1>2
<1>6. a + i \in 1..m
  BY <1>4, <1>5
<1>7. hand[c].at + i \in DOMAIN hand[c].list
  BY <1>3, <1>4, <1>6
<1> QED
  BY <1>1, <1>7 DEF Carries, Known

LEMMA InsertKeeps ==
    ASSUME Inv, Laid, Complete, NEW c \in Clients, Insert(c)
    PROVE  Laid' /\ Complete'
<1> DEFINE p == post[c]
           new == DOMAIN p.events \ p.olds
<1>1. /\ p.stage = "insert" /\ p.to \in Streams
      /\ post'[c].events = p.events /\ post'[c].olds = p.olds
      /\ \A d \in Clients : d # c => post'[d] = post[d]
      /\ \A s \in Streams : s # p.to => table'[s] = table[s]
      /\ UNCHANGED <<events, hand, copy, steady, gone>>
  BY InsertMade
<1>2. \/ post'[c].stage = "error" /\ table' = table
      \/ /\ post'[c].stage = "update" /\ table[p.to] \subseteq table'[p.to]
         /\ \A x \in table'[p.to] : x \in table[p.to] \/ \E i \in new : x.event = p.events[i].event
         /\ \A i \in new : \E x \in table'[p.to] : x.event = p.events[i].event
  <2>1. \/ post'[c].stage = "error" /\ table' = table
        \/ /\ post'[c].stage = "update"
           /\ \A x \in table'[p.to] : x \in table[p.to] \/
                 /\ x.event = x.made
                 /\ \E i \in new : x = Row(p.events[i].id, p.events[i].event) /\ x.event = p.events[i].event
           /\ table[p.to] \subseteq table'[p.to]
           /\ \A i \in new : \E x \in table'[p.to] : x.event = p.events[i].event
    BY InsertMade, Zenon
  <2> HIDE DEF new, p
  <2>2. CASE post'[c].stage = "error" /\ table' = table
    BY <2>2, Zenon
  <2>3. ASSUME \A x \in table'[p.to] : x \in table[p.to] \/
                  /\ x.event = x.made
                  /\ \E i \in new : x = Row(p.events[i].id, p.events[i].event) /\ x.event = p.events[i].event
        PROVE  \A x \in table'[p.to] : x \in table[p.to] \/ \E i \in new : x.event = p.events[i].event
    BY <2>3, Zenon
  <2> QED
    BY <2>1, <2>2, <2>3, Zenon
<1>3. Lasting
  BY <1>1, SameEvents DEF Inv
<1>4. SameList("copy") /\ hand'["copy"].to = hand["copy"].to
  BY <1>1, SameLists
<1>5. \A i \in DOMAIN p.events : p.events[i].event \in DOMAIN events
  BY <1>1, CarriedKnown DEF Laid
<1>6. KnownNext
  <2>1. \A s \in Streams : \A r \in table'[s] : r.event \in DOMAIN events
    BY <1>1, <1>2, <1>5 DEF Laid, Known
  <2> QED
    BY <1>1, <2>1 DEF Laid, Known, KnownNext
<1>7. Posted'
  BY <1>1, PostedFrame DEF Laid, Posted
<1>8. \A e \in Contents(Dest) : e \in Contents(Dest)'
  BY <1>1, <1>2 DEF Contents
<1>9. ASSUME NEW k \in DOMAIN CopyList, k > Stored
      PROVE  k > Stored' \/ CopyList[k].event \in Contents(Dest)'
  <2>1. CASE c # "copy"
    BY <1>1, <1>9, <2>1, SameStored
  <2>2. CASE c = "copy" /\ post'[c].stage = "error"
    <3>1. Stored' = Stored
      BY <1>1, <2>2 DEF Stored
    <3> QED
      BY <1>9, <3>1
  <2>3. CASE c = "copy" /\ post'[c].stage = "update"
    <3>1. PICK n \in Nat : n = Len(p.events) /\ DOMAIN p.events = 1..n
      BY PostTypes DEF Inv
    <3>2. PICK a \in Nat : a = hand["copy"].at
      BY HandTypes DEF Inv
    <3>3. Stored = a /\ Stored' = a + n
      BY <1>1, <2>3, <3>1, <3>2 DEF Stored
    <3>4. k \in Nat
      BY StoredTypes
    <3>5. CASE k > a + n
      BY <3>3, <3>5
    <3>6. CASE ~(k > a + n)
      <4>1. PICK i \in 1..n : a + i = k
        <5>1. k - a \in 1..n /\ a + (k - a) = k
          BY <1>9, <3>3, <3>4, <3>6
        <5> QED
          BY <5>1
      <4>2. i \in new
        BY <1>1, <2>3, <3>1, <4>1 DEF Laid, Posted
      <4>3. p.events[i].event = CopyList[k].event
        BY <1>1, <2>3, <3>1, <3>2, <4>1, CarriedKnown DEF Laid, CopyList
      <4>4. p.to = Dest
        <5>1. copy.pc = "write" /\ Carries(c)
          BY <1>1, <2>3, AtBounded DEF Inv, Carrying
        <5> QED
          BY <2>3, <5>1 DEF Carries, Laid, Block
      <4> QED
        BY <1>2, <2>3, <4>2, <4>3, <4>4 DEF Contents
    <3> QED
      BY <3>5, <3>6
  <2> QED
    BY <1>2, <2>1, <2>2, <2>3
<1> QED
  BY <1>1, <1>3, <1>4, <1>6, <1>7, <1>8, <1>9, StepKeeps

LEMMA UpdateKeeps ==
    ASSUME Inv, Laid, Complete, NEW c \in Clients, Update(c)
    PROVE  Laid' /\ Complete'
<1> DEFINE p == post[c]
           e(i) == p.events[i].event
           hit(i) == {r \in table[p.to] : r.id = p.events[i].id}
<1>1. /\ p.stage = "update" /\ p.olds # {} /\ p.to \in Streams
      /\ post'[c].events = p.events /\ post'[c].stage = p.stage
      /\ \A d \in Clients : d # c => post'[d] = post[d]
      /\ \A s \in Streams : s # p.to => table'[s] = table[s]
      /\ UNCHANGED <<events, hand, copy, steady>>
  BY UpdateMade
<1>2. PICK i \in DOMAIN p.events :
        /\ \A r \in table[p.to] \ hit(i) : r \in table'[p.to]
        /\ \A r \in hit(i) : \E x \in table'[p.to] : x.event = e(i)
        /\ \A x \in table'[p.to] : x \in table[p.to] \/ x.event = e(i)
        /\ c = "user" /\ p.to = Dest => gone' = gone \cup Lost(hit(i), e(i))
        /\ gone \subseteq gone'
  <2>1. PICK i \in DOMAIN p.events :
          /\ plain' => plain /\ \A r \in hit(i) : r.made = e(i)
          /\ \A r \in table[p.to] \ hit(i) : r \in table'[p.to]
          /\ \A r \in hit(i) : \E x \in table'[p.to] : x.event = e(i)
          /\ \A x \in table'[p.to] : x \in table[p.to] \ hit(i) \/
                \E r \in hit(i) : /\ x.event = e(i) /\ x.made = r.made
                                  /\ x = [r EXCEPT !.event = e(i), !.mixed = @ \/ p.events[i].mixed]
          /\ c = "user" /\ p.to = Dest => gone' = gone \cup Lost(hit(i), e(i))
          /\ gone \subseteq gone'
    BY UpdateMade, Zenon
  <2>2. ASSUME NEW x \in table'[p.to] PROVE x \in table[p.to] \/ x.event = e(i)
    BY <2>1, Zenon
  <2> HIDE DEF hit, e, p
  <2> QED
    BY <2>1, <2>2, Zenon
<1>3. c = "user"
  BY <1>1 DEF Laid, Posted
<1>4. Lasting
  BY <1>1, SameEvents DEF Inv
<1>5. SameList("copy") /\ hand'["copy"].to = hand["copy"].to
  BY <1>1, SameLists
<1>6. e(i) \in DOMAIN events
  BY <1>1, CarriedKnown DEF Laid
<1> HIDE DEF hit, e
<1>7. KnownNext
  <2>1. \A s \in Streams : \A r \in table'[s] : r.event \in DOMAIN events
    BY <1>1, <1>2, <1>6 DEF Laid, Known
  <2> QED
    BY <1>1, <2>1 DEF Laid, Known, KnownNext
<1>8. Posted'
  BY <1>1, <1>3, PostedFrame DEF Laid, Posted
<1>9. ASSUME NEW x \in Contents(Dest) PROVE x \in Contents(Dest)' \cup gone'
  <2>1. PICK r \in table[Dest] : r.event = x
    BY DEF Contents
  <2>2. CASE p.to # Dest
    BY <1>1, <2>1, <2>2 DEF Contents
  <2>3. CASE p.to = Dest /\ r \notin hit(i)
    BY <1>2, <2>1, <2>3 DEF Contents
  <2>4. CASE p.to = Dest /\ r \in hit(i)
    <3>1. x # e(i) => x \in Lost(hit(i), e(i))
      BY <2>1, <2>4 DEF Lost
    <3>2. x = e(i) => x \in Contents(Dest)'
      BY <1>2, <2>4 DEF Contents
    <3> QED
      BY <1>2, <1>3, <2>4, <3>1, <3>2
  <2> QED
    BY <2>2, <2>3, <2>4
<1>10. Stored' = Stored
  BY <1>1, <1>3, SameStored
<1> QED
  BY <1>1, <1>2, <1>4, <1>5, <1>7, <1>8, <1>9, <1>10, StepKeeps

LEMMA ReplyKeeps ==
    ASSUME Inv, Laid, Complete, NEW c \in Clients, Reply(c)
    PROVE  Laid' /\ Complete'
<1>1. /\ post[c].stage = "update" /\ post'[c] = Idle /\ SameList(c)
      /\ hand'[c].to = hand[c].to /\ hand'[c].at = hand[c].at + Len(post[c].events)
      /\ \A d \in Clients : d # c => hand'[d] = hand[d] /\ post'[d] = post[d]
      /\ UNCHANGED <<events, table, copy, steady, gone>>
  BY ReplyMade DEF store, history
<1>2. Lasting
  BY <1>1, SameEvents DEF Inv
<1>3. SameList("copy") /\ hand'["copy"].to = hand["copy"].to
  BY <1>1, SameLists
<1>4. KnownNext
  <2>1. SameList("user")
    BY <1>1, SameLists
  <2> QED
    BY <1>1, <2>1 DEF Laid, Known, KnownNext, SameList
<1>5. Posted'
  BY <1>1, IdleTypes, PostedFrame DEF Laid
<1>6. Stored' = Stored
  <2>1. CASE c = "copy"
    <3>1. Stored' = hand'["copy"].at /\ hand'["copy"].at = Stored
      <4>1. hand'["copy"].at \in Nat
        BY <1>1, <2>1, HandTypes, PostTypes DEF Inv
      <4> QED
        BY <1>1, <2>1, <4>1, IdleTypes DEF Stored
    <3> QED
      BY <3>1
  <2>2. CASE c # "copy"
    BY <1>1, <2>2, SameStored
  <2> QED
    BY <2>1, <2>2
<1>7. Contents(Dest)' = Contents(Dest)
  BY <1>1 DEF Contents
<1> QED
  BY <1>1, <1>2, <1>3, <1>4, <1>5, <1>6, <1>7, StepKeeps

\* Send, and a request that is sent again.
LEMMA ChunkKeeps ==
    ASSUME Inv, Laid, Complete, NEW c \in Clients, hand[c].at < Len(hand[c].list),
           c = "copy" => copy.pc = "write",
           post' = [post EXCEPT ![c] = NextChunk(c)],
           UNCHANGED <<store, hand, copy, steady, gone>>
    PROVE  Laid' /\ Complete'
<1>1. /\ post'[c] = NextChunk(c) /\ \A d \in Clients : d # c => post'[d] = post[d]
      /\ UNCHANGED <<events, far, table, hand, copy, steady, gone>>
  BY DEF Inv, TypeOK, store
<1>2. Len(post'[c].events) > 0
  BY <1>1, ChunkMade DEF Inv
<1>3. c = "copy" => post'[c].olds = {} /\ post'[c].stage = "next"
  BY <1>1, CopyChunk DEF CopyList
<1>4. Lasting
  BY <1>1, SameEvents DEF Inv
<1>5. SameList("copy") /\ hand'["copy"].to = hand["copy"].to
  BY <1>1, SameLists
<1>6. KnownNext
  BY <1>1, <1>4, SameKnown DEF Laid
<1>7. Posted'
  BY <1>1, <1>2, <1>3, PostedFrame DEF Laid
<1>8. Contents(Dest)' = Contents(Dest)
  BY <1>1 DEF Contents
<1>9. ASSUME NEW k \in DOMAIN CopyList, k > Stored PROVE k > Stored'
  <2>1. CASE c # "copy"
    BY <1>1, <1>9, <2>1, SameStored
  <2>2. CASE c = "copy"
    <3>1. Stored' = hand["copy"].at
      <4>1. hand["copy"].at \in Nat
        BY StoredTypes
      <4> QED
        BY <1>1, <1>3, <2>2, <4>1 DEF Stored
    <3> QED
      BY <1>9, <3>1, StoredTypes
  <2> QED
    BY <2>1, <2>2
<1> QED
  BY <1>1, <1>4, <1>5, <1>6, <1>7, <1>8, <1>9, StepKeeps

LEMMA SendKeeps ==
    ASSUME Inv, Laid, Complete, NEW c \in Clients, Send(c) \/ Retry(c)
    PROVE  Laid' /\ Complete'
<1>1. CASE Send(c)
  <2>1. c = "copy" => copy.pc = "write"
    <3>1. hand[c].at \in Nat /\ Len(hand[c].list) \in Nat
      BY HandTypes DEF Inv
    <3>2. ~(hand[c].at >= Len(hand[c].list))
      BY <1>1, <3>1 DEF Send
    <3> QED
      BY <3>2 DEF Inv, CopyQuiet
  <2> QED
    BY <1>1, <2>1, ChunkKeeps DEF Send, history
<1>2. CASE Retry(c)
  <2>1. c = "copy" => copy.pc = "write"
    BY <1>2, AtBounded DEF Retry
  <2>2. hand[c].at < Len(hand[c].list)
    <3>1. hand[c].at \in Nat /\ Len(hand[c].list) \in Nat /\ Len(post[c].events) \in Nat
      BY HandTypes, PostTypes DEF Inv
    <3>2. Len(post[c].events) > 0 /\ hand[c].at + Len(post[c].events) <= Len(hand[c].list)
      BY <1>2 DEF Retry, Laid, Posted, Inv, Carrying, Carries
    <3> QED
      BY <3>1, <3>2
  <2> QED
    BY <1>2, <2>1, <2>2, ChunkKeeps DEF Retry
<1> QED
  BY <1>1, <1>2

LEMMA AbortKeeps ==
    ASSUME Inv, Laid, Complete, NEW c \in Clients, Abort(c)
    PROVE  Laid' /\ Complete'
<1>1. /\ post' = [post EXCEPT ![c] = Idle] /\ hand' = [hand EXCEPT ![c].at = Len(hand[c].list)]
      /\ copy' = IF c = "copy" THEN [copy EXCEPT !.pc = "failed"] ELSE copy
      /\ UNCHANGED <<events, table, steady, gone>>
  BY DEF Abort, store
<1>2. /\ post'[c] = Idle /\ \A d \in Clients : d # c => post'[d] = post[d] /\ hand'[d] = hand[d]
      /\ hand'[c].list = hand[c].list /\ hand'[c].to = hand[c].to
  BY <1>1 DEF Inv, TypeOK, Hands
<1>3. Lasting
  BY <1>1, SameEvents DEF Inv
<1>4. SameList("copy") /\ hand'["copy"].to = hand["copy"].to
  BY <1>2 DEF SameList
<1>5. KnownNext
  <2>1. hand'["user"].list = hand["user"].list
    BY <1>2
  <2> QED
    BY <1>1, <2>1 DEF Laid, Known, KnownNext
<1>6. Posted'
  BY <1>2, IdleTypes, PostedFrame DEF Laid
<1>7. Contents(Dest)' = Contents(Dest)
  BY <1>1 DEF Contents
<1>8. CASE c # "copy"
  <2>1. Stored' = Stored
    BY <1>2, <1>8, SameStored
  <2> QED
    BY <1>1, <1>3, <1>4, <1>5, <1>6, <1>7, <1>8, <2>1, StepKeeps
<1>9. CASE c = "copy"
  <2>1. /\ copy'.pc = "failed" /\ copy'.start = copy.start /\ copy'.end = copy.end
        /\ copy'.open = copy.open
    BY <1>1, <1>9 DEF Inv, TypeOK
  <2>2. Complete' /\ Block' /\ Window'
    BY <2>1 DEF Complete, Block, Laid, Window
  <2>3. Known'
    BY <1>1, <1>3, <1>4, <1>5, KnownFrame DEF Laid
  <2> QED
    BY <1>6, <2>2, <2>3 DEF Laid
<1> QED
  BY <1>8, <1>9

-----------------------------------------------------------------------------
(* The program of the user *)

\* Steps of the user that send and remove nothing.
LEMMA UserKeeps ==
    ASSUME Inv, Laid, Complete, Lasting, hand'["copy"] = hand["copy"],
           UNCHANGED <<table, post, copy, steady, gone>>,
           \A k \in DOMAIN hand'["user"].list : hand'["user"].list[k].event \in DOMAIN events'
    PROVE  Laid' /\ Complete'
<1>1. SameList("copy") /\ hand'["copy"].to = hand["copy"].to
  BY SameLists
<1>2. KnownNext
  BY DEF Laid, Known, Lasting, KnownNext
<1>3. Posted' /\ Stored' = Stored /\ Contents(Dest)' = Contents(Dest)
  BY DEF Laid, Posted, Stored, Contents
<1> QED
  BY <1>1, <1>2, <1>3, StepKeeps

LEMMA UserNewKeeps ==
    ASSUME Inv, Laid, Complete, NEW s \in Streams, NEW t \in setup.new, UserNew(t, s)
    PROVE  Laid' /\ Complete'
<1>1. Lasting /\ Len(events) + 1 \in DOMAIN events'
  BY MoreEvents DEF Inv
<1>2. PICK o : o = NewObject(Len(events) + 1)
  OBVIOUS
<1>3. o.event = Len(events) + 1
  BY <1>2 DEF NewObject
<1>4. hand'["user"].list = <<o>> /\ hand'["copy"] = hand["copy"]
  BY <1>2 DEF UserNew, Inv, TypeOK
<1>5. DOMAIN <<o>> = {1} /\ <<o>>[1] = o
  OBVIOUS
<1>6. \A k \in DOMAIN hand'["user"].list : hand'["user"].list[k].event \in DOMAIN events'
  BY <1>1, <1>3, <1>4, <1>5
<1> QED
  BY <1>1, <1>4, <1>6, UserKeeps DEF UserNew, history

LEMMA UserReadKeeps ==
    ASSUME Inv, Laid, Complete, NEW s \in Streams, UserRead(s)
    PROVE  Laid' /\ Complete'
<1>1. PICK b \in ReadEvents(s, None, None) :
        hand' = [hand EXCEPT !["user"] =
                   [list |-> [i \in DOMAIN b |-> FromJson(b[i], s)],
                    at |-> Len(b), rx |-> <<>>, to |-> s]]
  BY DEF UserRead
<1>2. UNCHANGED <<events, table, post, copy, steady, gone>>
  BY DEF UserRead, store, history
<1>3. PICK list : list = [i \in DOMAIN b |-> FromJson(b[i], s)]
  OBVIOUS
<1>4. hand'["user"].list = list /\ hand'["copy"] = hand["copy"]
  BY <1>1, <1>3 DEF Inv, TypeOK
<1>5. \A i \in DOMAIN b : b[i] \in table[s]
  BY ReadTypes DEF Inv
<1>6. \A i \in DOMAIN list : list[i].event \in DOMAIN events
  BY <1>3, <1>5 DEF FromJson, Laid, Known
<1>7. Lasting
  BY <1>2, SameEvents DEF Inv
<1> QED
  BY <1>2, <1>4, <1>6, <1>7, UserKeeps

LEMMA UserWriteKeeps ==
    ASSUME Inv, Laid, Complete, NEW s \in Streams, UserWrite(s)
    PROVE  Laid' /\ Complete'
<1>1. hand'["user"].list = hand["user"].list /\ hand'["copy"] = hand["copy"]
  BY DEF UserWrite, Inv, TypeOK, Hands
<1>2. UNCHANGED <<events, table, post, copy, steady, gone>>
  BY DEF UserWrite, store, history
<1>3. Lasting
  BY <1>2, SameEvents DEF Inv
<1>4. \A k \in DOMAIN hand'["user"].list : hand'["user"].list[k].event \in DOMAIN events'
  BY <1>1, <1>2 DEF Laid, Known
<1> QED
  BY <1>1, <1>2, <1>3, <1>4, UserKeeps

LEMMA UserRemoveKeeps ==
    ASSUME Inv, Laid, Complete, NEW s \in Streams, NEW start, NEW end, UserRemove(s, start, end)
    PROVE  Laid' /\ Complete'
<1>1. /\ table' = RemoveEvents(s, start, end)
      /\ gone' = IF s = Dest THEN gone \cup {r.event : r \in table[s] \ Kept(s, start, end)} ELSE gone
      /\ UNCHANGED <<events, hand, post, copy, steady>>
  BY DEF UserRemove, clients
<1>2. \A x \in Streams : table'[x] \subseteq table[x]
  BY <1>1, Removed DEF Inv
<1>3. table'[Dest] = IF s = Dest THEN Kept(s, start, end) ELSE table[Dest]
  BY <1>1 DEF RemoveEvents, Inv, TypeOK
<1>4. \A e \in Contents(Dest) \cup gone : e \in Contents(Dest)' \cup gone'
  <2>1. \A r \in table[Dest] : r \in table'[Dest] \/ r.event \in gone'
    <3>1. CASE s = Dest
      BY <1>1, <1>3, <3>1
    <3>2. CASE s # Dest
      BY <1>3, <3>2
    <3> QED
      BY <3>1, <3>2
  <2>2. gone \subseteq gone'
    BY <1>1
  <2> QED
    BY <2>1, <2>2 DEF Contents
<1>5. Lasting
  BY <1>1, SameEvents DEF Inv
<1>6. SameList("copy") /\ hand'["copy"].to = hand["copy"].to
  BY <1>1, SameLists
<1>7. KnownNext
  BY <1>1, <1>2 DEF Laid, Known, KnownNext
<1>8. Posted' /\ Stored' = Stored
  BY <1>1 DEF Laid, Posted, Stored
<1> QED
  BY <1>1, <1>4, <1>5, <1>6, <1>7, <1>8, StepKeeps

-----------------------------------------------------------------------------
(* The copy command *)

\* A read returns rows of the window in the order they start, and leaves out only
\* rows that come after them, unless the window has an end and no start.
LEMMA ReadMade ==
    ASSUME TypeOK, NEW s \in Streams, NEW start, NEW end, NEW b \in ReadEvents(s, start, end)
    PROVE  /\ \A i, k \in DOMAIN b :
                 i < k => b[i] # b[k] /\ ~(events[b[k].event].start < events[b[i].event].start)
           /\ \A i \in DOMAIN b : b[i] \in table[s] /\ InBounds(b[i].event, start, end, FALSE)
           /\ \A r \in table[s] : InBounds(r.event, start, end, FALSE) =>
                 \/ \E i \in DOMAIN b : b[i] = r
                 \/ /\ Len(b) = ReadBlock
                    /\ ~(start = None /\ end # None) =>
                          \A i \in DOMAIN b : events[r.event].start >= events[b[i].event].start
<1> DEFINE rows == {r \in table[s] : InBounds(r.event, start, end, FALSE)}
           cut == {r \in rows : \A i \in DOMAIN b : b[i] # r}
           t(r) == events[r.event].start
<1>1. /\ \A i, k \in DOMAIN b : i < k => b[i] # b[k] /\ ~Before(b[k], b[i])
      /\ cut # {} => Len(b) = ReadBlock
      /\ \A i \in DOMAIN b, r \in cut :
            IF start = None /\ end # None THEN t(r) <= t(b[i]) ELSE t(r) >= t(b[i])
  BY DEF ReadEvents
<1>2. \A i \in DOMAIN b : b[i] \in rows
  <2>1. PICK n \in 0..ReadBlock : b \in [1..n -> rows]
    BY DEF ReadEvents
  <2> QED
    BY <2>1
<1>3. \A r \in rows : r \in cut \/ \E i \in DOMAIN b : b[i] = r
  OBVIOUS
<1>4. \A r \in rows :
        \/ \E i \in DOMAIN b : b[i] = r
        \/ /\ Len(b) = ReadBlock
           /\ ~(start = None /\ end # None) => \A i \in DOMAIN b : t(r) >= t(b[i])
  <2> HIDE DEF cut, rows, t
  <2> QED
    BY <1>1, <1>3
<1> QED
  BY <1>1, <1>2, <1>4 DEF Before

LEMMA CopyFailKeeps ==
    ASSUME Inv, Laid, copy' = [copy EXCEPT !.pc = "failed"], hand' = hand,
           UNCHANGED <<events, table, post>>, steady' \subseteq steady
    PROVE  Laid' /\ Complete'
<1>1. /\ copy'.pc = "failed" /\ copy'.start = copy.start /\ copy'.end = copy.end
      /\ copy'.open = copy.open
  BY DEF Inv, TypeOK
<1>2. Complete' /\ Block' /\ Window' /\ Posted'
  BY <1>1 DEF Complete, Block, Laid, Window, Posted
<1>3. Known'
  BY DEF Laid, Known
<1> QED
  BY <1>2, <1>3 DEF Laid

LEMMA CopyReadKeeps ==
    ASSUME Inv, Laid, Complete, CopyRead
    PROVE  Laid' /\ Complete'
<1>0. /\ copy.pc = "read" /\ steady' = steady \cap Contents(Source)
      /\ UNCHANGED <<events, far, table, post, gone>>
  BY DEF CopyRead, store
<1>1. CASE copy' = [copy EXCEPT !.pc = "failed"] /\ hand' = hand
  BY <1>0, <1>1, CopyFailKeeps
<1>2. ASSUME NEW b \in ReadEvents(Source, copy.start, copy.end),
             copy' = [copy EXCEPT !.pc = IF b = <<>> THEN NoMore ELSE "write"],
             hand' = [hand EXCEPT !["copy"] =
                        [list |-> [i \in DOMAIN b |-> FromJson(b[i], Source)],
                         at |-> 0, rx |-> <<>>, to |-> Dest]]
      PROVE  Laid' /\ Complete'
  <2>0. TypeOK
    BY DEF Inv
  <2>1. PICK list : list = [i \in DOMAIN b |-> FromJson(b[i], Source)]
    OBVIOUS
  <2>2. /\ CopyList' = list /\ hand'["copy"].at = 0 /\ hand'["copy"].to = Dest
        /\ hand'["user"] = hand["user"]
    BY <1>2, <2>1 DEF Inv, TypeOK, CopyList
  <2>3. /\ copy'.pc = (IF b = <<>> THEN "done" ELSE "write")
        /\ copy'.start = copy.start /\ copy'.end = copy.end /\ copy'.open = copy.open
    BY <1>2 DEF Inv, TypeOK, NoMore
  <2>4. PICK n \in Nat : n = Len(b) /\ DOMAIN b = 1..n
    BY ReadTypes DEF Inv
  <2>5. Len(list) = n /\ DOMAIN list = 1..n
    BY <2>1, <2>4, ReadList
  <2>6. b = <<>> <=> n = 0
    BY <2>4, ReadTypes DEF Inv
  <2>7. \A i \in 1..n : /\ list[i].event = b[i].event /\ list[i].node = Source /\ list[i].stream = 1
                        /\ b[i] \in table[Source] /\ b[i].event \in DOMAIN events
    <3>1. \A i \in 1..n : b[i] \in table[Source]
      BY <2>4, ReadTypes DEF Inv
    <3> QED
      BY <2>1, <2>4, <3>1 DEF FromJson, Node, StreamId, Laid, Known
  <2>8. post["copy"].stage = "idle"
    BY <1>0 DEF Inv, CopyQuiet
  <2>9. Stored' = 0
    BY <1>0, <2>2, <2>8 DEF Stored
  <2>10. \A i \in 1..n : events[b[i].event].start \in Int
    BY <2>7, EventTypes DEF Inv
  <2>11. Known'
    <3>1. \A k \in DOMAIN hand'["copy"].list : hand'["copy"].list[k].event \in DOMAIN events
      BY <2>2, <2>5, <2>7 DEF CopyList
    <3> QED
      BY <1>0, <2>2, <3>1 DEF Laid, Known
  <2>12. Posted' /\ Window'
    BY <1>0, <2>3 DEF Laid, Posted, Window
  <2>13. Block'
    <3>1. \A i, k \in 1..n : i < k => events[b[i].event].start <= events[b[k].event].start
      <4>1. \A i, k \in DOMAIN b :
              i < k => ~(events[b[k].event].start < events[b[i].event].start)
        BY <2>0, ReadMade
      <4> QED
        BY <2>4, <2>10, <4>1
    <3>2. copy'.pc = "write" => n > 0
      BY <2>3, <2>6
    <3> QED
      BY <1>0, <2>2, <2>5, <2>7, <3>1, <3>2 DEF Block
  <2>14. ASSUME NEW e \in steady', ~copy.open, Alone(e), e \notin Contents(Dest) \cup gone
         PROVE  Waits(e)'
    <3>1. e \in DOMAIN events /\ e \in Contents(Source) /\ e \in steady
      BY <1>0, <2>14 DEF Laid, Known
    <3>2. InBounds(e, copy.start, copy.end, FALSE)
      BY <1>0, <2>14, <3>1 DEF Complete, Waits, InBounds
    <3>3. PICK r \in table[Source] : r.event = e
      BY <3>1 DEF Contents
    <3>4. ~(copy.start = None /\ copy.end # None)
      BY <2>14 DEF Laid, Window
    <3>5. \/ \E i \in DOMAIN b : b[i] = r
          \/ /\ Len(b) = ReadBlock
             /\ \A i \in DOMAIN b : events[r.event].start >= events[b[i].event].start
      <4>1. InBounds(r.event, copy.start, copy.end, FALSE)
        BY <3>2, <3>3
      <4>2. \A x \in table[Source] : InBounds(x.event, copy.start, copy.end, FALSE) =>
               \/ \E i \in DOMAIN b : b[i] = x
               \/ /\ Len(b) = ReadBlock
                  /\ ~(copy.start = None /\ copy.end # None) =>
                        \A i \in DOMAIN b : events[x.event].start >= events[b[i].event].start
        BY <2>0, ReadMade
      <4> QED
        BY <3>4, <4>1, <4>2
    <3>6. n > 0
      BY <2>4, <3>5
    <3>7. copy'.pc = "write"
      BY <2>3, <2>6, <3>6
    <3>8. ASSUME NEW k \in 1..n, b[k].event = e PROVE Waits(e)'
      <4>1. k \in DOMAIN CopyList' /\ k > Stored' /\ CopyList'[k].event = e
        BY <2>2, <2>5, <2>7, <2>9, <3>8
      <4> QED
        BY <3>7, <4>1 DEF Waits
    <3>9. CASE \A i \in 1..n : b[i].event # e
      <4>1. n \in 1..n
        BY <3>6
      <4>2. events[e].start >= events[b[n].event].start
        BY <2>4, <3>3, <3>5, <3>9, <4>1
      <4>3. events[e].start # events[b[n].event].start
        BY <2>7, <2>14, <3>9, <4>1 DEF Alone
      <4>4. events[e].start >= events[b[n].event].start + 1
        BY <2>10, <3>1, <4>1, <4>2, <4>3, EventTypes DEF Inv
      <4>5. After(CopyList)' = events[b[n].event].start + 1
        BY <1>0, <2>2, <2>5, <2>7, <4>1 DEF After
      <4> QED
        BY <1>0, <3>7, <4>4, <4>5 DEF Waits
    <3> QED
      BY <3>8, <3>9
  <2>15. Complete'
    <3>1. Contents(Dest)' = Contents(Dest) /\ \A e : Alone(e)' <=> Alone(e)
      BY <1>0 DEF Contents, Alone
    <3>2. \A e \in steady' : ~copy.open => copy.end = None \/ events[e].start < copy.end
      BY <1>0 DEF Complete
    <3> QED
      BY <1>0, <2>3, <2>14, <3>1, <3>2 DEF Complete
  <2> QED
    BY <2>11, <2>12, <2>13, <2>15 DEF Laid
<1> QED
  BY <1>1, <1>2 DEF CopyRead

LEMMA CopyNextKeeps ==
    ASSUME Inv, Laid, Complete, CopyNext
    PROVE  Laid' /\ Complete'
<1>1. /\ copy.pc = "write" /\ post["copy"] = Idle /\ hand["copy"].at = Len(CopyList)
      /\ copy' = [copy EXCEPT !.start = After(CopyList),
                     !.pc = IF copy.end # None /\ After(CopyList) >= copy.end THEN "done" ELSE "read"]
      /\ UNCHANGED <<events, far, table, hand, post, steady, gone>>
  BY DEF CopyNext, store, history, CopyList
<1>2. After(CopyList) \in Int
  <2>1. Len(CopyList) \in DOMAIN CopyList
    BY <1>1, LastIndex DEF Laid, Block, Inv
  <2>2. events[CopyList[Len(CopyList)].event].start \in Int
    BY <2>1, EventTypes DEF Laid, Known, CopyList, Inv
  <2> QED
    BY <2>2 DEF After
<1>3. /\ copy'.start = After(CopyList) /\ copy'.end = copy.end /\ copy'.open = copy.open
      /\ copy'.pc = IF copy.end # None /\ After(CopyList) >= copy.end THEN "done" ELSE "read"
  BY <1>1 DEF Inv, TypeOK
<1>4. Known' /\ Posted'
  BY <1>1 DEF Laid, Known, Posted
<1>5. Window'
  <2>1. After(CopyList) # None
    BY <1>2
  <2> QED
    BY <1>2, <1>3, <2>1 DEF Laid, Window
<1>6. Block'
  BY <1>3 DEF Block
<1>7. ASSUME NEW e \in steady, ~copy.open, Alone(e), e \notin Contents(Dest) \cup gone
      PROVE  copy'.pc = "read" /\ events[e].start >= After(CopyList)
  <2>1. Stored = Len(CopyList) /\ Len(CopyList) \in Nat /\ DOMAIN CopyList = 1..Len(CopyList)
    BY <1>1, IdleTypes, StoredTypes DEF Stored
  <2>2. events[e].start >= After(CopyList)
    BY <1>1, <1>7, <2>1 DEF Complete, Waits
  <2>3. copy.end = None \/ events[e].start < copy.end
    BY <1>1, <1>7 DEF Complete
  <2>4. events[e].start \in Int /\ copy.end \in Int \cup {None}
    BY EventTypes DEF Laid, Known, Window, Inv
  <2> QED
    BY <1>2, <1>3, <2>2, <2>3, <2>4
<1>8. Complete'
  <2>1. Contents(Dest)' = Contents(Dest) /\ \A e : Alone(e)' <=> Alone(e)
    BY <1>1 DEF Contents, Alone
  <2>2. \A e \in steady : ~copy.open => copy.end = None \/ events[e].start < copy.end
    BY <1>1 DEF Complete
  <2>3. \A e : copy'.pc = "read" /\ events[e].start >= After(CopyList) => Waits(e)'
    BY <1>1, <1>3 DEF Waits
  <2> QED
    BY <1>1, <1>3, <1>7, <2>1, <2>2, <2>3 DEF Complete
<1> QED
  BY <1>4, <1>5, <1>6, <1>8 DEF Laid

\* One of finitely many events ends last.
LEMMA EndsLast ==
    ASSUME NEW n \in Nat, NEW S \in SUBSET (1..n), NEW f \in [1..n -> Int], S # {}
    PROVE  \E m \in S : \A k \in S : f[k] <= f[m]
<1> DEFINE P(i) == \A k \in S : k > i \/ \E m \in S : m <= i /\ \A x \in S : x > i \/ f[x] <= f[m]
           T == {i \in 0..n : ~P(i)}
<1>1. \A k \in S : k \in Nat /\ k <= n /\ k > 0 /\ f[k] \in Int
  OBVIOUS
<1>2. T = {}
  <2>1. SUFFICES ASSUME T # {} PROVE FALSE
    OBVIOUS
  <2>2. PICK i \in T : \A k \in T : i <= k
    <3>1. T \in SUBSET Nat
      OBVIOUS
    <3> HIDE DEF T
    <3> QED
      BY <2>1, <3>1, LeastIndex
  <2>3. i \in 0..n /\ ~P(i)
    OBVIOUS
  <2>0. i \in Nat
    BY <2>3
  <2>4. P(0)
    BY <1>1
  <2>5. i # 0
    BY <2>3, <2>4
  <2>6. i - 1 \in 0..n /\ ~(i <= i - 1)
    BY <2>3, <2>5
  <2>7. P(i - 1)
    BY <2>2, <2>6
  <2>8. CASE i \notin S
    <3>1. \A k \in S : k > i <=> k > i - 1
      <4>1. ASSUME NEW k \in S PROVE k > i <=> k > i - 1
        <5>1. k # i /\ k \in Nat
          BY <1>1, <2>8
        <5> HIDE DEF P, T
        <5> QED
          BY <2>0, <5>1
      <4> QED
        BY <4>1
    <3>2. \A k \in S : k <= i - 1 => k <= i
      BY <1>1, <2>3
    <3> QED
      BY <2>3, <2>7, <3>1, <3>2
  <2>9. CASE i \in S
    <3>1. \A k \in S : k > i - 1 => k = i \/ k > i
      BY <1>1, <2>3
    <3>2. PICK m \in S : m <= i /\ \A x \in S : x > i \/ f[x] <= f[m]
      <4>1. CASE \E m \in S : m <= i - 1 /\ \A x \in S : x > i - 1 \/ f[x] <= f[m]
        <5>1. PICK m \in S : m <= i - 1 /\ \A x \in S : x > i - 1 \/ f[x] <= f[m]
          BY <4>1
        <5>2. CASE f[i] <= f[m]
          <6>1. m <= i /\ \A x \in S : x > i \/ f[x] <= f[m]
            BY <1>1, <2>3, <3>1, <5>1, <5>2
          <6> QED
            BY <6>1
        <5>3. CASE f[m] < f[i]
          <6>1. i <= i /\ \A x \in S : x > i \/ f[x] <= f[i]
            <7>1. i <= i
              BY <2>0
            <7>2. ASSUME NEW x \in S PROVE x > i \/ f[x] <= f[i]
              <8>1. x > i - 1 \/ f[x] <= f[m]
                BY <5>1
              <8>2. f[x] <= f[m] => f[x] <= f[i]
                BY <1>1, <2>9, <5>3
              <8>3. f[i] <= f[i]
                BY <1>1, <2>9
              <8> QED
                BY <3>1, <8>1, <8>2, <8>3
            <7> QED
              BY <7>1, <7>2
          <6> QED
            BY <2>9, <6>1
        <5> QED
          BY <1>1, <2>9, <5>2, <5>3
      <4>2. CASE \A k \in S : k > i - 1
        <5>1. i <= i /\ \A x \in S : x > i \/ f[x] <= f[i]
          BY <1>1, <2>3, <2>9, <3>1, <4>2
        <5> QED
          BY <2>9, <5>1
      <4> QED
        BY <2>7, <4>1, <4>2
    <3> QED
      BY <2>3, <3>2
  <2> QED
    BY <2>8, <2>9
<1>3. P(n)
  <2>1. n \in 0..n
    OBVIOUS
  <2> HIDE DEF P
  <2> QED
    BY <1>2, <2>1
<1>4. \A k \in S : ~(k > n)
  BY <1>1
<1>5. PICK k \in S : TRUE
  OBVIOUS
<1>6. PICK m \in S : \A x \in S : x > n \/ f[x] <= f[m]
  BY <1>3, <1>4, <1>5
<1> QED
  BY <1>4, <1>6

\* The end of the event of s that ends last.
LEMMA LastEndMade ==
    ASSUME Inv, Known, NEW s \in Streams
    PROVE  /\ table[s] = {} => LastEnd(s) = None
           /\ table[s] # {} => LastEnd(s) \in Int /\ \A e \in Contents(s) : events[e].end <= LastEnd(s)
<1>1. CASE table[s] = {}
  BY <1>1 DEF LastEnd
<1>2. CASE table[s] # {}
  <2>1. PICK n \in Nat : n = Len(events) /\ DOMAIN events = 1..n
    BY EventTypes DEF Inv
  <2>2. Contents(s) \in SUBSET (1..n) /\ Contents(s) # {}
    BY <1>2, <2>1 DEF Contents, Known
  <2> DEFINE f == [e \in 1..n |-> events[e].end]
  <2>3. f \in [1..n -> Int]
    BY <2>1, EventTypes DEF Inv
  <2>4. \E m \in Contents(s) : \A e \in Contents(s) : f[e] <= f[m]
    <3> HIDE DEF f
    <3> QED
      BY <2>2, <2>3, EndsLast
  <2>5. PICK m \in Contents(s) : \A e \in Contents(s) : events[e].end <= events[m].end
    BY <2>2, <2>4
  <2> DEFINE ends == {events[e].end : e \in Contents(s)}
  <2>6. events[m].end \in ends /\ \A t \in ends : t \in Int
    BY <2>1, <2>2, EventTypes DEF Inv
  <2>7. \E t \in ends : \A e \in Contents(s) : events[e].end <= t
    BY <2>5, <2>6
  <2>8. LastEnd(s) = CHOOSE t \in ends : \A e \in Contents(s) : events[e].end <= t
    BY <1>2 DEF LastEnd
  <2> HIDE DEF ends
  <2>9. LastEnd(s) \in ends /\ \A e \in Contents(s) : events[e].end <= LastEnd(s)
    BY <2>7, <2>8
  <2> QED
    BY <1>2, <2>6, <2>9
<1> QED
  BY <1>1, <1>2

\* What a copy begins with.
LEMMA CopyStartMade ==
    ASSUME Inv, Known, NEW action, NEW new \in BOOLEAN, NEW b \in setup.bounds,
           CopyStart(action, new, b[1], b[2])
    PROVE  \E from \in Int \cup {None} :
              /\ from = IF new THEN LastEnd(Dest) ELSE b[1]
              /\ copy'.pc = "read" /\ copy'.new = new /\ copy'.start = from /\ copy'.end = b[2]
              /\ b[2] \in Int \cup {None}
              /\ copy'.open = (from = None /\ b[2] # None)
              /\ steady' = {e \in Contents(Source) : InBounds(e, from, b[2], FALSE)}
              /\ copy.pc # "write" /\ copy.pc # "read"
              /\ hand'["copy"] = NoHand /\ hand'["user"] = hand["user"]
              /\ \A s \in Streams : table'[s] \subseteq table[s]
              /\ new => table' = table
              /\ UNCHANGED <<setup, events, far, post, plain>>
<1>1. PICK from : from = IF new THEN LastEnd(Dest) ELSE b[1]
  OBVIOUS
<1>2. b[1] \in Int \cup {None} /\ b[2] \in Int \cup {None}
  BY BoundsTypes DEF Inv, TypeOK
<1>3. from \in Int \cup {None}
  BY <1>1, <1>2, LastEndMade
<1>4. /\ copy' = [pc |-> "read", new |-> new, start |-> from, end |-> b[2],
                  open |-> from = None /\ b[2] # None, runs |-> copy.runs + 1]
      /\ steady' = {e \in Contents(Source) : InBounds(e, from, b[2], FALSE)}
      /\ copy.pc \in {"off", "done", "failed"}
      /\ hand' = [hand EXCEPT !["copy"] = NoHand]
      /\ UNCHANGED <<setup, events, far, post, plain>>
  BY <1>1 DEF CopyStart
<1>5. \A s \in Streams : table'[s] \subseteq table[s]
  <2>1. CASE table' = table
    BY <2>1
  <2>2. CASE table' = RemoveEvents(Dest, b[1], b[2])
    BY <2>2, Removed DEF Inv
  <2> QED
    BY <2>1, <2>2 DEF CopyStart
<1>6. new => table' = table
  BY DEF CopyStart
<1>7. hand'["copy"] = NoHand /\ hand'["user"] = hand["user"]
  BY <1>4 DEF Inv, TypeOK
<1> QED
  BY <1>1, <1>2, <1>3, <1>4, <1>5, <1>6, <1>7

LEMMA CopyStartKeeps ==
    ASSUME Inv, Laid, Complete, NEW action, NEW new \in BOOLEAN, NEW b \in setup.bounds,
           CopyStart(action, new, b[1], b[2])
    PROVE  Laid' /\ Complete'
<1>1. PICK from \in Int \cup {None} :
        /\ copy'.pc = "read" /\ copy'.start = from /\ copy'.end = b[2]
        /\ b[2] \in Int \cup {None}
        /\ copy'.open = (from = None /\ b[2] # None)
        /\ steady' = {e \in Contents(Source) : InBounds(e, from, b[2], FALSE)}
        /\ hand'["copy"] = NoHand /\ hand'["user"] = hand["user"]
        /\ \A s \in Streams : table'[s] \subseteq table[s]
        /\ UNCHANGED <<events, post>>
  BY CopyStartMade DEF Laid
<1>2. steady' \subseteq DOMAIN events
  BY <1>1 DEF Laid, Known, Contents
<1>3. Known'
  <2>1. \A k \in DOMAIN hand'["copy"].list : FALSE
    BY <1>1, NoHandTypes
  <2> QED
    BY <1>1, <1>2, <2>1 DEF Laid, Known
<1>4. Posted' /\ Block' /\ Window'
  BY <1>1 DEF Laid, Posted, Block, Window
<1>5. Complete'
  <2>1. \A e \in steady' : /\ from = None \/ events[e].start >= from
                           /\ b[2] = None \/ events[e].start < b[2]
    BY <1>1 DEF InBounds
  <2> QED
    BY <1>1, <2>1 DEF Complete, Waits
<1> QED
  BY <1>3, <1>4, <1>5 DEF Laid

LEMMA InitKeeps == Init => Laid /\ Complete
<1> SUFFICES ASSUME Init PROVE Laid /\ Complete
  OBVIOUS
<1>1. PICK h \in Setups :
         /\ events = [i \in 1..(Len(h.source) + Len(h.dest)) |->
                        LET t == (h.source \o h.dest)[i] IN [start |-> t[1], end |-> t[2]]]
         /\ table = [s \in Streams |->
                        IF s = Source THEN {Row(i, i) : i \in 1..Len(h.source)}
                        ELSE {Row(i, Len(h.source) + i) : i \in 1..Len(h.dest)}]
  BY DEF Init
<1>2. /\ hand = [c \in Clients |-> NoHand] /\ post = [c \in Clients |-> Idle]
      /\ copy = [pc |-> "off", new |-> FALSE, start |-> None, end |-> None,
                 open |-> FALSE, runs |-> 0]
      /\ steady = {}
  BY DEF Init
<1>3. PICK a \in Nat : a = Len(h.source)
  OBVIOUS
<1>4. PICK c \in Nat : c = Len(h.dest)
  OBVIOUS
<1>5. DOMAIN events = 1..(a + c)
  BY <1>1, <1>3, <1>4
<1>6. \A s \in Streams : \A r \in table[s] : r.event \in DOMAIN events
  <2>1. ASSUME NEW r \in table[Source] PROVE r.event \in 1..(a + c)
    <3>1. PICK i \in 1..a : r = Row(i, i)
      BY <1>1, <1>3
    <3> QED
      BY <3>1 DEF Row
  <2>2. ASSUME NEW r \in table[Dest] PROVE r.event \in 1..(a + c)
    <3>1. PICK i \in 1..c : r = Row(i, a + i)
      BY <1>1, <1>3, <1>4
    <3> QED
      BY <3>1 DEF Row
  <2> QED
    BY <1>5, <2>1, <2>2
<1>7. \A d \in Clients : post[d].stage = "idle" /\ hand[d].list = <<>>
  BY <1>2, IdleTypes, NoHandTypes
<1>8. Known
  BY <1>2, <1>6, <1>7 DEF Known
<1>9. Posted
  BY <1>7 DEF Posted
<1> QED
  BY <1>2, <1>8, <1>9 DEF Laid, Window, Block, Complete

LEMMA NextKeeps == Inv /\ Laid /\ Complete /\ [Next]_vars => Laid' /\ Complete'
<1> SUFFICES ASSUME Inv, Laid, Complete, [Next]_vars PROVE Laid' /\ Complete'
  OBVIOUS
<1>1. ASSUME NEW c \in Clients, Serve(c) PROVE Laid' /\ Complete'
  BY <1>1, ReserveKeeps, SetSequenceKeeps, InsertKeeps, UpdateKeeps, ReplyKeeps DEF Serve
<1>2. ASSUME NEW c \in Clients, Send(c) \/ Retry(c) \/ Abort(c) PROVE Laid' /\ Complete'
  BY <1>2, SendKeeps, AbortKeeps
<1>3. ASSUME NEW action, NEW new \in BOOLEAN, NEW b \in setup.bounds,
             CopyStart(action, new, b[1], b[2])
      PROVE  Laid' /\ Complete'
  BY <1>3, CopyStartKeeps
<1>4. CASE CopyRead
  BY <1>4, CopyReadKeeps
<1>5. CASE CopyNext
  BY <1>5, CopyNextKeeps
<1>6. CASE CopyFail
  BY <1>6, CopyFailKeeps DEF CopyFail, store, history
<1>7. ASSUME NEW s \in Streams, UserRead(s) \/ UserWrite(s) PROVE Laid' /\ Complete'
  BY <1>7, UserReadKeeps, UserWriteKeeps
<1>8. ASSUME NEW s \in Streams, NEW t \in setup.new, UserNew(t, s) PROVE Laid' /\ Complete'
  BY <1>8, UserNewKeeps
<1>9. ASSUME NEW s \in Streams, NEW b, UserRemove(s, b[1], b[2]) PROVE Laid' /\ Complete'
  BY <1>9, UserRemoveKeeps
<1>10. CASE UNCHANGED vars
  <2>1. UNCHANGED <<events, table, hand, post, copy, steady, gone>>
    BY <1>10 DEF vars, store, clients, history
  <2>2. Lasting
    BY <2>1, SameEvents DEF Inv
  <2>3. \A k \in DOMAIN hand'["user"].list : hand'["user"].list[k].event \in DOMAIN events'
    BY <2>1 DEF Laid, Known
  <2> QED
    BY <2>1, <2>2, <2>3, UserKeeps
<1> QED
  BY <1>1, <1>2, <1>3, <1>4, <1>5, <1>6, <1>7, <1>8, <1>9, <1>10 DEF Next

\* A copy that ends well has stored every event of its window, whatever a user
\* writes and removes meanwhile and however the events are cut into blocks (copy.py:_run,
\* event_stream_read, event_stream_write).
THEOREM CopiesComplete == Spec => []CopyComplete
<1>1. Complete => CopyComplete
  BY DEF Complete, CopyComplete, Waits
<1>2. Init => Inv /\ Laid /\ Complete
  BY InitInv, InitKeeps
<1>3. Inv /\ Laid /\ Complete /\ [Next]_vars => (Inv /\ Laid /\ Complete)'
  BY NextInv, NextKeeps
<1> QED
  BY <1>1, <1>2, <1>3, PTL DEF Spec

-----------------------------------------------------------------------------
(* What a copy of new events has to know *)

UserList == hand["user"].list
Both == Contents(Source) \cap Contents(Dest)

\* A row is about the event it was made for, and no other row is.
Unique ==
    \A s \in Streams : \A r, x \in table[s] :
       r.event = r.made /\ (r.event = x.event => r = x)

BothValid == \A e \in Both : Valid(e)

\* No table holds e, and the copy has not read it.
Apart(e) ==
    /\ \A s \in Streams : e \notin Contents(s)
    /\ \A i \in DOMAIN CopyList : CopyList[i].event # e

\* An object without an id is alone in its list, and its event is stored nowhere
\* until the request that stores it.
Fresh ==
    \A k \in DOMAIN UserList : UserList[k].id = None =>
       /\ Len(UserList) = 1
       /\ post["user"].stage # "update" => Apart(UserList[k].event)

\* A request says which of its objects have no id.
Linked ==
    post["user"].stage # "idle" =>
       \A i \in DOMAIN post["user"].events :
          post["user"].events[i].fresh = (UserList[hand["user"].at + i].id = None)

\* A copy of new events has come past the events that are in both tables.
Behind ==
    copy.new /\ copy.pc \in {"read", "write"} => \A e \in Both :
       \/ copy.start # None /\ events[e].start < copy.start
       \/ copy.pc = "write" /\ \E k \in DOMAIN CopyList : k <= Stored /\ CopyList[k].event = e

\* It stores each event once, and none that is there.
Ahead ==
    copy.pc = "write" =>
       /\ \A k \in DOMAIN CopyList : copy.start = None \/ events[CopyList[k].event].start >= copy.start
       /\ copy.new =>
             /\ \A k \in DOMAIN CopyList : k > Stored => CopyList[k].event \notin Contents(Dest)
             /\ \A i, k \in DOMAIN CopyList : CopyList[i].event = CopyList[k].event => i = k

Once == Unique /\ BothValid /\ Fresh /\ Linked /\ Behind /\ Ahead

LEMMA SmallerContents ==
    ASSUME \A s \in Streams : table'[s] \subseteq table[s]
    PROVE  /\ \A s \in Streams : \A e \in Contents(s)' : e \in Contents(s)
           /\ \A e \in Both' : e \in Both
  BY DEF Contents, Both

\* Steps that store nothing and leave the copy where it is, or end it.
LEMMA TablesOnce ==
    ASSUME Known, Once, Lasting, SameList("copy"), Stored' = Stored,
           \A s \in Streams : table'[s] \subseteq table[s],
           copy' = copy \/ copy'.pc \notin {"read", "write"}
    PROVE  Unique' /\ BothValid' /\ Behind' /\ Ahead'
<1>1. /\ \A s \in Streams : \A e \in Contents(s)' : e \in Contents(s)
      /\ \A e \in Both' : e \in Both
  BY SmallerContents
<1>2. \A e \in Both : e \in DOMAIN events /\ events'[e] = events[e]
  BY DEF Both, Contents, Known, Lasting
<1>3. /\ DOMAIN CopyList' = DOMAIN CopyList
      /\ \A k \in DOMAIN CopyList :
            /\ CopyList'[k].event = CopyList[k].event
            /\ events'[CopyList[k].event] = events[CopyList[k].event]
  BY DEF CopyList, SameList, Known, Lasting
<1>4. Unique'
  BY DEF Once, Unique
<1>5. BothValid'
  BY <1>1, <1>2 DEF Once, BothValid, Valid
<1>6. Behind'
  <2>1. CASE copy' = copy
    BY <1>1, <1>2, <1>3, <2>1 DEF Once, Behind
  <2>2. CASE copy'.pc \notin {"read", "write"}
    BY <2>2 DEF Behind
  <2> QED
    BY <2>1, <2>2
<1>7. Ahead'
  <2>1. CASE copy' = copy
    BY <1>1, <1>3, <2>1 DEF Once, Ahead
  <2>2. CASE copy'.pc \notin {"read", "write"}
    BY <2>2 DEF Ahead
  <2> QED
    BY <2>1, <2>2
<1> QED
  BY <1>4, <1>5, <1>6, <1>7

\* The objects of the user, while the tables do not grow.
LEMMA FreshFrame ==
    ASSUME Fresh, DOMAIN UserList' = DOMAIN UserList, Len(UserList') = Len(UserList),
           \A k \in DOMAIN UserList :
              /\ UserList'[k].event = UserList[k].event
              /\ UserList'[k].id = None => UserList[k].id = None,
           \A s \in Streams : \A e \in Contents(s)' : e \in Contents(s),
           \A i \in DOMAIN CopyList' : \E k \in DOMAIN CopyList : CopyList'[i].event = CopyList[k].event,
           \A k \in DOMAIN UserList' :
              UserList'[k].id = None /\ post'["user"].stage # "update" => post["user"].stage # "update"
    PROVE  Fresh'
<1> SUFFICES ASSUME NEW k \in DOMAIN UserList', UserList'[k].id = None
             PROVE  /\ Len(UserList') = 1
                    /\ post'["user"].stage # "update" => Apart(UserList[k].event)'
  BY DEF Fresh
<1>1. UserList[k].id = None /\ Len(UserList') = 1
  BY DEF Fresh
<1>2. ASSUME post'["user"].stage # "update" PROVE Apart(UserList[k].event)'
  <2>1. Apart(UserList[k].event)
    BY <1>1, <1>2 DEF Fresh
  <2>2. PICK e : e = UserList[k].event /\ e = UserList'[k].event
    OBVIOUS
  <2>3. /\ \A s \in Streams : e \notin Contents(s)'
        /\ \A i \in DOMAIN CopyList' : CopyList'[i].event # e
    BY <2>1, <2>2 DEF Apart
  <2> QED
    BY <2>2, <2>3 DEF Apart
<1> QED
  BY <1>1, <1>2

LEMMA SameUser ==
    ASSUME Fresh, Linked, hand'["user"] = hand["user"], post'["user"] = post["user"],
           \A s \in Streams : \A e \in Contents(s)' : e \in Contents(s),
           \A i \in DOMAIN CopyList' : \E k \in DOMAIN CopyList : CopyList'[i].event = CopyList[k].event
    PROVE  Fresh' /\ Linked'
<1>1. UserList' = UserList
  BY DEF UserList
<1>2. Fresh'
  BY <1>1, FreshFrame
<1> QED
  BY <1>1, <1>2 DEF Linked

LEMMA SameCopy ==
    ASSUME SameList("copy")
    PROVE  \A i \in DOMAIN CopyList' : \E k \in DOMAIN CopyList : CopyList'[i].event = CopyList[k].event
  BY DEF SameList, CopyList

\* The ids are reserved: rows and lists stay as they are.
LEMMA IdsOnceKept ==
    ASSUME Inv, Laid, Once, NEW c \in Clients, Reserve(c) \/ SetSequence(c)
    PROVE  Once'
<1>1. /\ post[c].stage \in {"next", "set"} /\ post'[c].stage \in {"set", "insert"}
      /\ DOMAIN post'[c].events = DOMAIN post[c].events
      /\ \A i \in DOMAIN post[c].events : post'[c].events[i].fresh = post[c].events[i].fresh
      /\ \A d \in Clients : d # c => post'[d] = post[d]
      /\ UNCHANGED <<events, table, hand, copy>>
  BY ReserveMade, SetSequenceMade
<1>2. Lasting
  BY <1>1, SameEvents DEF Inv
<1>3. SameList("copy")
  BY <1>1, SameLists
<1>4. Stored' = Stored
  BY <1>1 DEF Stored
<1>5. Unique' /\ BothValid' /\ Behind' /\ Ahead'
  BY <1>1, <1>2, <1>3, <1>4, TablesOnce DEF Laid
<1>6. Fresh'
  <2>1. UserList' = UserList /\ \A s \in Streams : Contents(s)' = Contents(s)
    BY <1>1 DEF UserList, Contents
  <2>2. post'["user"].stage # "update" => post["user"].stage # "update"
    BY <1>1
  <2> QED
    BY <1>3, <2>1, <2>2, FreshFrame, SameCopy DEF Once
<1>7. Linked'
  <2>1. UserList' = UserList /\ hand' = hand /\ Linked
    BY <1>1 DEF UserList, Once
  <2>2. CASE c = "copy"
    BY <1>1, <2>1, <2>2 DEF Linked
  <2>3. CASE c = "user"
    <3>1. ASSUME NEW i \in DOMAIN post'["user"].events
          PROVE  post'["user"].events[i].fresh = (UserList[hand["user"].at + i].id = None)
      <4>1. post["user"].stage # "idle" /\ i \in DOMAIN post["user"].events
        BY <1>1, <2>3, <3>1
      <4>2. post["user"].events[i].fresh = (UserList[hand["user"].at + i].id = None)
        BY <2>1, <4>1 DEF Linked
      <4>3. post'["user"].events[i].fresh = post["user"].events[i].fresh
        BY <1>1, <2>3, <4>1
      <4> QED
        BY <4>2, <4>3
    <3> QED
      BY <2>1, <3>1 DEF Linked
  <2> QED
    BY <2>2, <2>3
<1> QED
  BY <1>5, <1>6, <1>7 DEF Once

LEMMA ReplyOnce ==
    ASSUME Inv, Laid, Once, NEW c \in Clients, Reply(c)
    PROVE  Once'
<1>1. /\ post[c].stage = "update" /\ post'[c] = Idle /\ SameList(c)
      /\ hand'[c].at = hand[c].at + Len(post[c].events)
      /\ \A k \in DOMAIN hand[c].list :
            hand'[c].list[k].id = None =>
               hand[c].list[k].id = None /\ ~(k - hand[c].at \in DOMAIN post[c].events)
      /\ \A d \in Clients : d # c => hand'[d] = hand[d] /\ post'[d] = post[d]
      /\ UNCHANGED <<events, table, copy>>
  BY ReplyMade DEF store
<1>2. Lasting
  BY <1>1, SameEvents DEF Inv
<1>3. SameList("copy")
  BY <1>1, SameLists
<1>4. Stored' = Stored
  <2>1. CASE c = "copy"
    <3>1. PICK a \in Nat : a = hand["copy"].at
      BY HandTypes DEF Inv
    <3>2. PICK n \in Nat : n = Len(post["copy"].events)
      BY PostTypes DEF Inv
    <3>3. hand'["copy"].at = a + n
      BY <1>1, <2>1, <3>1, <3>2
    <3> QED
      BY <1>1, <2>1, <3>1, <3>2, <3>3, IdleTypes DEF Stored
  <2>2. CASE c # "copy"
    BY <1>1, <2>2, SameStored
  <2> QED
    BY <2>1, <2>2
<1>5. Unique' /\ BothValid' /\ Behind' /\ Ahead'
  BY <1>1, <1>2, <1>3, <1>4, TablesOnce DEF Laid
<1>6. \A s \in Streams : Contents(s)' = Contents(s)
  BY <1>1 DEF Contents
<1>7. CASE c = "copy"
  <2>1. Fresh' /\ Linked'
    BY <1>1, <1>3, <1>6, <1>7, SameUser, SameCopy DEF Once
  <2> QED
    BY <1>5, <2>1 DEF Once
<1>8. CASE c = "user"
  <2>1. /\ DOMAIN UserList' = DOMAIN UserList /\ Len(UserList') = Len(UserList)
        /\ \A k \in DOMAIN UserList :
              /\ UserList'[k].event = UserList[k].event
              /\ UserList'[k].id = None => UserList[k].id = None
    BY <1>1, <1>8 DEF UserList, SameList
  <2>2. ASSUME NEW k \in DOMAIN UserList, UserList'[k].id = None PROVE FALSE
    <3>1. UserList[k].id = None /\ ~(k - hand["user"].at \in DOMAIN post["user"].events)
      BY <1>1, <1>8, <2>2 DEF UserList
    <3>2. Len(UserList) = 1
      BY <3>1 DEF Once, Fresh
    <3>3. PICK n \in Nat : n = Len(post["user"].events) /\ DOMAIN post["user"].events = 1..n
      BY PostTypes DEF Inv
    <3>4. n > 0
      BY <1>1, <1>8, <3>3 DEF Laid, Posted
    <3>5. PICK a \in Nat : a = hand["user"].at
      BY HandTypes DEF Inv
    <3>6. a + n <= 1
      BY <1>1, <1>8, <3>2, <3>3, <3>5 DEF Inv, Carrying, Carries, UserList
    <3>7. k = 1
      <4>1. DOMAIN UserList = 1..Len(UserList)
        BY HandTypes DEF Inv, UserList
      <4> QED
        BY <3>2, <4>1
    <3>8. k - a \in 1..n
      BY <3>4, <3>6, <3>7
    <3> QED
      BY <3>1, <3>3, <3>5, <3>8
  <2>3. Fresh'
    BY <2>1, <2>2 DEF Fresh
  <2>4. Linked'
    BY <1>1, <1>8, IdleTypes DEF Linked
  <2> QED
    BY <1>5, <2>3, <2>4 DEF Once
<1> QED
  BY <1>7, <1>8

LEMMA SendOnce ==
    ASSUME Inv, Laid, Once, NEW c \in Clients, Send(c)
    PROVE  Once'
<1>1. /\ post'[c] = NextChunk(c) /\ \A d \in Clients : d # c => post'[d] = post[d]
      /\ post[c].stage = "idle" /\ hand[c].at < Len(hand[c].list)
      /\ UNCHANGED <<events, far, table, hand, copy>>
  BY DEF Send, store, Inv, TypeOK
<1>2. Lasting
  BY <1>1, SameEvents DEF Inv
<1>3. SameList("copy")
  BY <1>1, SameLists
<1>4. Stored' = Stored
  <2>1. CASE c = "copy"
    <3>1. copy.pc = "write"
      <4>1. hand[c].at \in Nat /\ Len(hand[c].list) \in Nat
        BY HandTypes DEF Inv
      <4>2. ~(hand[c].at >= Len(hand[c].list))
        BY <1>1, <4>1
      <4> QED
        BY <2>1, <4>2 DEF Inv, CopyQuiet
    <3>2. post'["copy"].stage = "next"
      BY <1>1, <2>1, <3>1, CopyChunk DEF CopyList
    <3> QED
      BY <1>1, <2>1, <3>2 DEF Stored
  <2>2. CASE c # "copy"
    BY <1>1, <2>2, SameStored
  <2> QED
    BY <2>1, <2>2
<1>5. Unique' /\ BothValid' /\ Behind' /\ Ahead'
  BY <1>1, <1>2, <1>3, <1>4, TablesOnce DEF Laid
<1>6. \A s \in Streams : Contents(s)' = Contents(s)
  BY <1>1 DEF Contents
<1>7. CASE c = "copy"
  <2>1. Fresh' /\ Linked'
    BY <1>1, <1>3, <1>6, <1>7, SameUser, SameCopy DEF Once
  <2> QED
    BY <1>5, <2>1 DEF Once
<1>8. CASE c = "user"
  <2>1. Fresh'
    <3>1. UserList' = UserList /\ post["user"].stage # "update"
      BY <1>1, <1>8 DEF UserList
    <3> QED
      BY <1>3, <1>6, <3>1, FreshFrame, SameCopy DEF Once
  <2>2. PICK p : p = NextChunk("user")
    OBVIOUS
  <2>3. \A i \in DOMAIN p.events : p.events[i].fresh = (hand["user"].list[hand["user"].at + i].id = None)
    BY <1>1, <1>8, <2>2, ChunkMade DEF Inv
  <2>4. Linked'
    BY <1>1, <1>8, <2>2, <2>3 DEF Linked, UserList
  <2> QED
    BY <1>5, <2>1, <2>4 DEF Once
<1> QED
  BY <1>7, <1>8

\* Steps of the user that send nothing.
LEMMA UserOnce ==
    ASSUME Inv, Laid, Once, Lasting, hand'["copy"] = hand["copy"],
           UNCHANGED <<post, copy>>, post["user"] = Idle,
           \A s \in Streams : table'[s] \subseteq table[s],
           Fresh'
    PROVE  Once'
<1>1. SameList("copy") /\ Stored' = Stored
  BY SameLists DEF Stored
<1>2. Unique' /\ BothValid' /\ Behind' /\ Ahead'
  BY <1>1, TablesOnce DEF Laid
<1>3. Linked'
  BY IdleTypes DEF Linked
<1> QED
  BY <1>2, <1>3 DEF Once

LEMMA UserNewOnce ==
    ASSUME Inv, Laid, Once, NEW s \in Streams, NEW t \in setup.new, UserNew(t, s)
    PROVE  Once'
<1>1. Lasting /\ Len(events) + 1 \notin DOMAIN events
  BY MoreEvents DEF Inv
<1>2. PICK o : o = NewObject(Len(events) + 1)
  OBVIOUS
<1>3. o.event = Len(events) + 1
  BY <1>2 DEF NewObject
<1>4. UserList' = <<o>> /\ hand'["copy"] = hand["copy"]
  BY <1>2 DEF UserNew, Inv, TypeOK, UserList
<1>5. DOMAIN <<o>> = {1} /\ <<o>>[1] = o /\ Len(<<o>>) = 1
  OBVIOUS
<1>6. /\ table' = table /\ UNCHANGED <<post, copy>> /\ post["user"] = Idle
  BY DEF UserNew, UserFree
<1>7. \A x \in Streams : o.event \notin Contents(x)'
  BY <1>1, <1>3, <1>6 DEF Contents, Laid, Known
<1>8. \A i \in DOMAIN CopyList' : CopyList'[i].event # o.event
  BY <1>1, <1>3, <1>4 DEF Laid, Known, CopyList
<1>9. Fresh'
  <2>1. \A k \in DOMAIN UserList' : Len(UserList') = 1 /\ UserList'[k] = o
    BY <1>4, <1>5
  <2>2. ASSUME NEW k \in DOMAIN UserList' PROVE Apart(UserList[k].event)'
    BY <1>7, <1>8, <2>1 DEF Apart
  <2> QED
    BY <2>1, <2>2 DEF Fresh
<1> QED
  BY <1>1, <1>4, <1>6, <1>9, UserOnce

LEMMA UserReadOnce ==
    ASSUME Inv, Laid, Once, NEW s \in Streams, UserRead(s)
    PROVE  Once'
<1>1. PICK b \in ReadEvents(s, None, None) :
        hand' = [hand EXCEPT !["user"] =
                   [list |-> [i \in DOMAIN b |-> FromJson(b[i], s)],
                    at |-> Len(b), rx |-> <<>>, to |-> s]]
  BY DEF UserRead
<1>2. UNCHANGED <<events, table, post, copy>> /\ post["user"] = Idle
  BY DEF UserRead, store, UserFree
<1>3. PICK list : list = [i \in DOMAIN b |-> FromJson(b[i], s)]
  OBVIOUS
<1>4. UserList' = list /\ hand'["copy"] = hand["copy"]
  BY <1>1, <1>3 DEF Inv, TypeOK, UserList
<1>5. ASSUME NEW i \in DOMAIN list PROVE list[i].id # None
  <2>1. b[i] \in table[s] /\ list[i] = FromJson(b[i], s)
    BY <1>3, <1>5, ReadTypes DEF Inv
  <2>2. b[i].id \in Nat
    BY <2>1, RowTypes DEF Inv
  <2> QED
    BY <2>1, <2>2 DEF FromJson
<1>6. Fresh'
  BY <1>4, <1>5 DEF Fresh
<1>7. Lasting
  BY <1>2, SameEvents DEF Inv
<1> QED
  BY <1>2, <1>4, <1>6, <1>7, UserOnce

LEMMA UserWriteOnce ==
    ASSUME Inv, Laid, Once, NEW s \in Streams, UserWrite(s)
    PROVE  Once'
<1>1. UserList' = UserList /\ hand'["copy"] = hand["copy"]
  BY DEF UserWrite, Inv, TypeOK, Hands, UserList
<1>2. UNCHANGED <<events, table, post, copy>> /\ post["user"] = Idle
  BY DEF UserWrite, store, UserFree
<1>3. Lasting
  BY <1>2, SameEvents DEF Inv
<1>4. Fresh'
  <2>1. SameList("copy") /\ \A x \in Streams : Contents(x)' = Contents(x)
    BY <1>1, <1>2, SameLists DEF Contents
  <2> QED
    BY <1>1, <1>2, <2>1, FreshFrame, SameCopy DEF Once
<1> QED
  BY <1>1, <1>2, <1>3, <1>4, UserOnce

LEMMA UserRemoveOnce ==
    ASSUME Inv, Laid, Once, NEW s \in Streams, NEW start, NEW end, UserRemove(s, start, end)
    PROVE  Once'
<1>1. /\ table' = RemoveEvents(s, start, end) /\ post["user"] = Idle
      /\ UNCHANGED <<events, hand, post, copy>>
  BY DEF UserRemove, clients, UserFree
<1>2. \A x \in Streams : table'[x] \subseteq table[x]
  BY <1>1, Removed DEF Inv
<1>3. Lasting
  BY <1>1, SameEvents DEF Inv
<1>4. Fresh'
  <2>1. SameList("copy") /\ \A x \in Streams : \A e \in Contents(x)' : e \in Contents(x)
    BY <1>1, <1>2, SameLists, SmallerContents
  <2>2. UserList' = UserList
    BY <1>1 DEF UserList
  <2> QED
    BY <1>1, <2>1, <2>2, FreshFrame, SameCopy DEF Once
<1> QED
  BY <1>1, <1>2, <1>3, <1>4, UserOnce

\* Rows of events that the table does not hold.
LEMMA GrowUnique ==
    ASSUME Unique, NEW t \in Streams, NEW N,
           \A s \in Streams : s # t => table'[s] = table[s],
           \A x \in table'[t] : x \in table[t] \/ (x \in N /\ x.event = x.made),
           \A x \in N : x.event \notin Contents(t),
           \A x, y \in N : x.event = y.event => x = y
    PROVE  Unique'
<1>1. ASSUME NEW x \in table'[t], NEW y \in table'[t]
      PROVE  x.event = x.made /\ (x.event = y.event => x = y)
  <2>1. x.event = x.made
    BY DEF Unique
  <2>2. CASE x \in table[t] /\ y \in table[t]
    BY <2>1, <2>2 DEF Unique
  <2>3. CASE x \in N /\ y \in N
    BY <2>1, <2>3
  <2>4. CASE (x \in table[t] /\ y \in N) \/ (x \in N /\ y \in table[t])
    BY <2>1, <2>4 DEF Contents
  <2>5. (x \in table[t] \/ x \in N) /\ (y \in table[t] \/ y \in N)
    OBVIOUS
  <2> QED
    BY <2>2, <2>3, <2>4, <2>5
<1> QED
  BY <1>1 DEF Unique

LEMMA InsertOnceError ==
    ASSUME Inv, Laid, Once, NEW c \in Clients, Insert(c), post'[c].stage = "error", table' = table
    PROVE  Once'
<1>1. /\ post[c].stage = "insert" /\ post'[c].events = post[c].events
      /\ \A d \in Clients : d # c => post'[d] = post[d]
      /\ UNCHANGED <<events, hand, copy>>
  BY InsertMade
<1>2. Lasting
  BY <1>1, SameEvents DEF Inv
<1>3. SameList("copy")
  BY <1>1, SameLists
<1>4. Stored' = Stored
  BY <1>1 DEF Stored
<1>5. Unique' /\ BothValid' /\ Behind' /\ Ahead'
  BY <1>1, <1>2, <1>3, <1>4, TablesOnce DEF Laid
<1>6. UserList' = UserList /\ \A s \in Streams : Contents(s)' = Contents(s)
  BY <1>1 DEF UserList, Contents
<1>7. Fresh'
  <2>1. post'["user"].stage # "update" => post["user"].stage # "update"
    BY <1>1
  <2> QED
    BY <1>3, <1>6, <2>1, FreshFrame, SameCopy DEF Once
<1>8. Linked'
  <2>1. post'["user"].stage # "idle" => post["user"].stage # "idle"
    BY <1>1
  <2>2. post'["user"].events = post["user"].events /\ hand' = hand
    BY <1>1
  <2> QED
    BY <1>6, <2>1, <2>2 DEF Once, Linked
<1> QED
  BY <1>5, <1>7, <1>8 DEF Once

\* The copy stores the events of a chunk.
LEMMA CopyInsertOnce ==
    ASSUME Inv, Laid, Once, Insert("copy"), plain', post'["copy"].stage = "update"
    PROVE  Once'
<1> DEFINE p == post["copy"]
<1>1. /\ p.stage = "insert" /\ post'["copy"].events = p.events /\ copy.new
      /\ post'["user"] = post["user"]
      /\ \A s \in Streams : s # p.to => table'[s] = table[s]
      /\ UNCHANGED <<events, hand, copy>>
  BY InsertMade
<1>2. /\ p.olds = {} /\ p.to = Dest /\ copy.pc = "write"
  <2>1. p.olds = {}
    BY <1>1 DEF Laid, Posted
  <2>2. copy.pc = "write" /\ Carries("copy")
    BY <1>1, AtBounded DEF Inv, Carrying
  <2> QED
    BY <2>1, <2>2 DEF Carries, Laid, Block
<1>3. PICK n \in Nat : n = Len(p.events) /\ DOMAIN p.events = 1..n
  BY PostTypes DEF Inv
<1>4. PICK a \in Nat : a = hand["copy"].at
  BY HandTypes DEF Inv
<1>5. Stored = a /\ Stored' = a + n
  BY <1>1, <1>3, <1>4 DEF Stored
<1>6. \A i \in 1..n : a + i \in DOMAIN CopyList /\ p.events[i].event = CopyList[a + i].event
  BY <1>1, <1>3, <1>4, CarriedKnown DEF Laid, CopyList
<1>7. /\ \A k \in DOMAIN CopyList : k > a => CopyList[k].event \notin Contents(Dest)
      /\ \A i, k \in DOMAIN CopyList : CopyList[i].event = CopyList[k].event => i = k
  BY <1>1, <1>2, <1>5 DEF Once, Ahead
<1>8. DOMAIN p.events \ p.olds = 1..n
  BY <1>2, <1>3
<1>9. /\ \A i \in 1..n : Valid(p.events[i].event)
      /\ \A x \in table'[Dest] : x \in table[Dest] \/
            /\ x.event = x.made
            /\ \E i \in 1..n : x = Row(p.events[i].id, p.events[i].event) /\ x.event = p.events[i].event
  <2>1. ~(post'["copy"].stage = "error")
    OBVIOUS
  <2>2. /\ \A i \in DOMAIN p.events \ p.olds : Valid(p.events[i].event)
        /\ \A x \in table'[p.to] : x \in table[p.to] \/
              /\ x.event = x.made
              /\ \E i \in DOMAIN p.events \ p.olds :
                    x = Row(p.events[i].id, p.events[i].event) /\ x.event = p.events[i].event
    BY <2>1, InsertMade
  <2> QED
    BY <1>2, <1>8, <2>2
<1> HIDE DEF p
<1> DEFINE N == {x \in table'[Dest] :
                   \E i \in 1..n : x = Row(p.events[i].id, p.events[i].event) /\ x.event = p.events[i].event}
<1>10. ASSUME NEW x \in N
       PROVE  \E i \in 1..n : /\ x = Row(p.events[i].id, p.events[i].event)
                              /\ x.event = CopyList[a + i].event /\ a + i \in DOMAIN CopyList
                              /\ a + i > a /\ a + i <= a + n /\ Valid(x.event)
  <2>1. PICK i \in 1..n : x = Row(p.events[i].id, p.events[i].event) /\ x.event = p.events[i].event
    BY <1>10
  <2>2. a + i > a /\ a + i <= a + n
    OBVIOUS
  <2> QED
    BY <1>6, <1>9, <2>1, <2>2
<1>11. \A x \in table'[Dest] : x \in table[Dest] \/ (x \in N /\ x.event = x.made)
  BY <1>9
<1> HIDE DEF N
<1>12. \A x \in N : x.event \notin Contents(Dest)
  BY <1>7, <1>10
<1>13. ASSUME NEW x \in N, NEW y \in N, x.event = y.event PROVE x = y
  <2>1. PICK i \in 1..n : /\ x = Row(p.events[i].id, p.events[i].event)
                          /\ x.event = CopyList[a + i].event /\ a + i \in DOMAIN CopyList
    BY <1>10
  <2>2. PICK k \in 1..n : /\ y = Row(p.events[k].id, p.events[k].event)
                          /\ y.event = CopyList[a + k].event /\ a + k \in DOMAIN CopyList
    BY <1>10
  <2>3. a + i = a + k
    BY <1>7, <1>13, <2>1, <2>2
  <2>4. i = k
    BY <2>3
  <2> QED
    BY <2>1, <2>2, <2>4
<1>14. Unique'
  <2>1. Unique /\ Dest \in Streams /\ \A s \in Streams : s # Dest => table'[s] = table[s]
    BY <1>1, <1>2 DEF Once, Streams
  <2>2. \A x, y \in N : x.event = y.event => x = y
    BY <1>13
  <2> QED
    BY <1>11, <1>12, <2>1, <2>2, GrowUnique
<1>15. \A e \in Contents(Dest)' : e \in Contents(Dest) \/ \E x \in N : x.event = e
  BY <1>11 DEF Contents
<1>16. Contents(Source)' = Contents(Source) /\ table'[Source] = table[Source]
  BY <1>1, <1>2 DEF Contents
<1>17. BothValid'
  <2>1. ASSUME NEW e \in Both' PROVE Valid(e)
    BY <1>10, <1>15, <1>16 DEF Both, Once, BothValid
  <2> QED
    BY <1>1, <2>1 DEF BothValid, Valid
<1>18. CopyList' = CopyList /\ UserList' = UserList
  BY <1>1 DEF CopyList, UserList
<1>19. Behind'
  <2>1. ASSUME NEW e \in Both'
        PROVE  \/ copy.start # None /\ events[e].start < copy.start
               \/ \E k \in DOMAIN CopyList : k <= a + n /\ CopyList[k].event = e
    <3>1. CASE e \in Contents(Dest)
      <4>1. \/ copy.start # None /\ events[e].start < copy.start
            \/ \E k \in DOMAIN CopyList : k <= a /\ CopyList[k].event = e
        BY <1>1, <1>2, <1>5, <1>16, <2>1, <3>1 DEF Both, Once, Behind
      <4>2. \A k \in DOMAIN CopyList : k <= a => k <= a + n
        <5>1. \A k \in DOMAIN CopyList : k \in Nat
          BY StoredTypes
        <5> QED
          BY <5>1
      <4> QED
        BY <4>1, <4>2
    <3>2. CASE \E x \in N : x.event = e
      BY <1>10, <3>2
    <3> QED
      BY <1>15, <2>1, <3>1, <3>2 DEF Both
  <2> QED
    BY <1>1, <1>2, <1>5, <1>18, <2>1 DEF Behind
<1>20. Ahead'
  <2>1. ASSUME NEW k \in DOMAIN CopyList, k > a + n PROVE CopyList[k].event \notin Contents(Dest)'
    <3>1. k \in Nat
      BY StoredTypes
    <3>2. k > a
      BY <2>1, <3>1
    <3>3. ASSUME NEW x \in N, x.event = CopyList[k].event PROVE FALSE
      <4>1. PICK i \in 1..n : /\ x.event = CopyList[a + i].event /\ a + i \in DOMAIN CopyList
                              /\ a + i <= a + n
        BY <1>10
      <4>2. a + i = k
        BY <1>7, <3>3, <4>1
      <4> QED
        BY <2>1, <3>1, <4>1, <4>2
    <3> QED
      BY <1>7, <1>15, <3>2, <3>3
  <2> QED
    BY <1>1, <1>2, <1>5, <1>7, <1>18, <2>1 DEF Ahead, Once
<1>21. Fresh'
  <2>1. ASSUME NEW k \in DOMAIN UserList, UserList[k].id = None, post["user"].stage # "update"
        PROVE  Apart(UserList[k].event)'
    <3>1. PICK e : e = UserList[k].event
      OBVIOUS
    <3>2. Apart(e)
      BY <2>1, <3>1 DEF Once, Fresh
    <3>3. \A s \in Streams : e \notin Contents(s)'
      BY <1>10, <1>15, <1>16, <3>2 DEF Apart
    <3> QED
      BY <1>18, <3>1, <3>2, <3>3 DEF Apart
  <2> QED
    BY <1>1, <1>18, <2>1 DEF Once, Fresh
<1>22. Linked'
  BY <1>1, <1>18 DEF Once, Linked
<1> QED
  BY <1>14, <1>17, <1>19, <1>20, <1>21, <1>22 DEF Once

\* The user stores a new event.
LEMMA UserInsertOnce ==
    ASSUME Inv, Laid, Once, Insert("user"), plain', post'["user"].stage = "update"
    PROVE  Once'
<1> DEFINE p == post["user"]
           new == DOMAIN p.events \ p.olds
<1>1. /\ p.stage = "insert" /\ post'["user"].events = p.events /\ p.to \in Streams
      /\ post'["copy"] = post["copy"]
      /\ \A s \in Streams : s # p.to => table'[s] = table[s]
      /\ UNCHANGED <<events, hand, copy>>
  BY InsertMade
<1>2. \A i \in new : p.events[i].fresh
  BY InsertMade
<1>3. \A x \in table'[p.to] : x \in table[p.to] \/
         /\ x.event = x.made
         /\ \E i \in new : x = Row(p.events[i].id, p.events[i].event) /\ x.event = p.events[i].event
  <2>1. ~(post'["user"].stage = "error")
    OBVIOUS
  <2> QED
    BY <2>1, InsertMade
<1>4. ASSUME NEW i \in new
      PROVE  Apart(p.events[i].event) /\ hand["user"].at + i = 1
  <2>1. /\ hand["user"].at + i \in DOMAIN UserList
        /\ p.events[i].event = UserList[hand["user"].at + i].event
    BY <1>1, CarriedKnown DEF Laid, UserList
  <2>2. UserList[hand["user"].at + i].id = None
    <3>1. p.events[i].fresh = (UserList[hand["user"].at + i].id = None)
      BY <1>1 DEF Once, Linked
    <3> QED
      BY <1>2, <3>1
  <2>3. Len(UserList) = 1 /\ Apart(p.events[i].event)
    BY <1>1, <2>1, <2>2 DEF Once, Fresh
  <2>4. DOMAIN UserList = 1..Len(UserList)
    BY HandTypes DEF Inv, UserList
  <2> QED
    BY <2>1, <2>3, <2>4
<1>5. \A i, k \in new : i = k
  <2>1. hand["user"].at \in Nat /\ \A i \in new : i \in Nat
    BY HandTypes, PostTypes DEF Inv
  <2> HIDE DEF new
  <2> QED
    BY <1>4, <2>1
<1> DEFINE N == {x \in table'[p.to] :
                   \E i \in new : x = Row(p.events[i].id, p.events[i].event) /\ x.event = p.events[i].event}
<1>6. /\ \A x \in table'[p.to] : x \in table[p.to] \/ (x \in N /\ x.event = x.made)
      /\ \A x \in N : \E i \in new : x = Row(p.events[i].id, p.events[i].event) /\ x.event = p.events[i].event
  BY <1>3
<1> HIDE DEF N, new
<1>7. \A x \in N : Apart(x.event)
  BY <1>4, <1>6
<1>8. \A x, y \in N : x = y
  BY <1>5, <1>6
<1>9. Unique'
  <2>1. \A x \in N : x.event \notin Contents(p.to)
    BY <1>1, <1>7 DEF Apart
  <2>2. PICK t \in Streams : t = p.to
    BY <1>1
  <2>3. Unique /\ \A s \in Streams : s # t => table'[s] = table[s]
    BY <1>1, <2>2 DEF Once
  <2>4. \A x \in table'[t] : x \in table[t] \/ (x \in N /\ x.event = x.made)
    BY <1>6, <2>2
  <2>5. \A x \in N : x.event \notin Contents(t)
    BY <2>1, <2>2
  <2>6. \A x, y \in N : x.event = y.event => x = y
    BY <1>8
  <2> QED
    BY <2>3, <2>4, <2>5, <2>6, GrowUnique
<1>10. \A s \in Streams : \A e \in Contents(s)' : e \in Contents(s) \/ Apart(e)
  BY <1>1, <1>6, <1>7 DEF Contents
<1>11. \A e \in Both' : e \in Both
  <2>1. ASSUME NEW e \in Both' PROVE ~Apart(e)
    <3>1. CASE p.to = Source
      BY <1>1, <2>1, <3>1 DEF Both, Contents, Apart
    <3>2. CASE p.to = Dest
      BY <1>1, <2>1, <3>2 DEF Both, Contents, Apart
    <3> QED
      BY <1>1, <3>1, <3>2
  <2> QED
    BY <1>10, <2>1 DEF Both
<1>12. CopyList' = CopyList /\ UserList' = UserList /\ Stored' = Stored
  BY <1>1 DEF CopyList, UserList, Stored
<1>13. BothValid'
  BY <1>1, <1>11 DEF Once, BothValid, Valid
<1>14. Behind'
  BY <1>1, <1>11, <1>12 DEF Once, Behind
<1>15. Ahead'
  <2>1. \A k \in DOMAIN CopyList : ~Apart(CopyList[k].event)
    BY DEF Apart
  <2>2. \A k \in DOMAIN CopyList :
           CopyList[k].event \notin Contents(Dest) => CopyList[k].event \notin Contents(Dest)'
    BY <1>10, <2>1
  <2> QED
    BY <1>1, <1>12, <2>2 DEF Once, Ahead
<1>16. Fresh'
  BY <1>12 DEF Once, Fresh
<1>17. Linked'
  BY <1>1, <1>12 DEF Once, Linked
<1> QED
  BY <1>9, <1>13, <1>14, <1>15, <1>16, <1>17 DEF Once

LEMMA InsertOnce ==
    ASSUME Inv, Laid, Once, NEW c \in Clients, Insert(c), plain'
    PROVE  Once'
<1>1. \/ post'[c].stage = "error" /\ table' = table
      \/ post'[c].stage = "update"
  BY InsertMade
<1> QED
  BY <1>1, InsertOnceError, CopyInsertOnce, UserInsertOnce

\* An update that names the row of its own event changes no event.
LEMMA UpdateOnce ==
    ASSUME Inv, Laid, Once, NEW c \in Clients, Update(c), plain'
    PROVE  Once'
<1> DEFINE p == post[c]
           e(i) == p.events[i].event
           hit(i) == {r \in table[p.to] : r.id = p.events[i].id}
           f(r, i) == [r EXCEPT !.event = e(i), !.mixed = @ \/ p.events[i].mixed]
<1>1. /\ p.stage = "update" /\ p.to \in Streams /\ p.olds # {}
      /\ post'[c].events = p.events /\ post'[c].stage = p.stage
      /\ \A d \in Clients : d # c => post'[d] = post[d]
      /\ \A s \in Streams : s # p.to => table'[s] = table[s]
      /\ UNCHANGED <<events, hand, copy>>
  BY UpdateMade
<1>2. PICK i \in DOMAIN p.events :
        /\ \A r \in hit(i) : r.made = e(i)
        /\ \A r \in table[p.to] \ hit(i) : r \in table'[p.to]
        /\ \A x \in table'[p.to] : x \in table[p.to] \ hit(i) \/
              \E r \in hit(i) : x.event = e(i) /\ x.made = r.made /\ x = f(r, i)
  BY UpdateMade
<1>3. hit(i) \subseteq table[p.to]
  OBVIOUS
<1> HIDE DEF hit, e, f
<1>4. \A r \in hit(i) : r \in table[p.to] /\ r.event = e(i)
  BY <1>1, <1>2, <1>3 DEF Once, Unique
<1>5. \A r, x \in hit(i) : r = x
  BY <1>1, <1>4 DEF Once, Unique
<1>6. ASSUME NEW x \in table'[p.to], NEW y \in table'[p.to]
      PROVE  x.event = x.made /\ (x.event = y.event => x = y)
  <2>1. CASE x \in table[p.to] \ hit(i) /\ y \in table[p.to] \ hit(i)
    BY <1>1, <2>1 DEF Once, Unique
  <2>2. CASE x \in table[p.to] \ hit(i) /\ y \notin table[p.to] \ hit(i)
    <3>1. PICK r \in hit(i) : y.event = e(i)
      BY <1>2, <1>6, <2>2
    <3>2. x.event # e(i)
      BY <1>1, <1>4, <2>2, <3>1 DEF Once, Unique
    <3> QED
      BY <1>1, <2>2, <3>1, <3>2 DEF Once, Unique
  <2>3. CASE x \notin table[p.to] \ hit(i)
    <3>1. PICK r \in hit(i) : x.event = e(i) /\ x.made = r.made /\ x = f(r, i)
      BY <1>2, <1>6, <2>3
    <3>2. x.event = x.made
      BY <1>2, <3>1
    <3>3. CASE y \in table[p.to] \ hit(i)
      <4>1. y.event # e(i)
        BY <1>1, <1>4, <3>1, <3>3 DEF Once, Unique
      <4> QED
        BY <3>1, <3>2, <4>1
    <3>4. CASE y \notin table[p.to] \ hit(i)
      <4>1. PICK z \in hit(i) : y = f(z, i)
        BY <1>2, <1>6, <3>4
      <4>2. z = r
        BY <1>5
      <4> QED
        BY <3>1, <3>2, <4>1, <4>2
    <3> QED
      BY <3>3, <3>4
  <2> QED
    BY <2>1, <2>2, <2>3
<1>7. Unique'
  BY <1>1, <1>6 DEF Once, Unique
<1>8. \A s \in Streams : \A x \in Contents(s)' : x \in Contents(s)
  <2>1. \A x \in table'[p.to] : \E r \in table[p.to] : r.event = x.event
    BY <1>2, <1>4
  <2> QED
    BY <1>1, <2>1 DEF Contents
<1>9. \A x \in Both' : x \in Both
  BY <1>8 DEF Both
<1>10. CopyList' = CopyList /\ UserList' = UserList /\ Stored' = Stored
  BY <1>1 DEF CopyList, UserList, Stored
<1>11. BothValid'
  BY <1>1, <1>9 DEF Once, BothValid, Valid
<1>12. Behind'
  BY <1>1, <1>9, <1>10 DEF Once, Behind
<1>13. Ahead'
  BY <1>1, <1>8, <1>10 DEF Once, Ahead
<1>14. post'["user"].stage = post["user"].stage /\ post'["user"].events = post["user"].events
  BY <1>1
<1>15. Fresh'
  BY <1>8, <1>10, <1>14, FreshFrame DEF Once
<1>16. Linked'
  BY <1>1, <1>10, <1>14 DEF Once, Linked
<1> QED
  BY <1>7, <1>11, <1>12, <1>13, <1>15, <1>16 DEF Once

\* The copy ends without an answer; what it has stored stays.
LEMMA AbortOnce ==
    ASSUME Inv, Laid, Once, Abort("copy")
    PROVE  Once'
<1>1. /\ post' = [post EXCEPT !["copy"] = Idle]
      /\ hand' = [hand EXCEPT !["copy"].at = Len(hand["copy"].list)]
      /\ copy' = [copy EXCEPT !.pc = "failed"]
      /\ UNCHANGED <<events, table>>
  BY DEF Abort, store
<1>2. /\ post'["user"] = post["user"] /\ hand'["user"] = hand["user"]
      /\ CopyList' = CopyList /\ copy'.pc = "failed"
  BY <1>1 DEF Inv, TypeOK, Hands, CopyList
<1>3. \A s \in Streams : Contents(s)' = Contents(s)
  BY <1>1 DEF Contents
<1>4. Fresh' /\ Linked'
  BY <1>2, <1>3, SameUser DEF Once
<1>5. Unique' /\ BothValid'
  BY <1>1, <1>3 DEF Once, Unique, BothValid, Both, Valid
<1>6. Behind' /\ Ahead'
  BY <1>2 DEF Behind, Ahead
<1> QED
  BY <1>4, <1>5, <1>6 DEF Once

LEMMA CopyFailOnce ==
    ASSUME Inv, Once, copy' = [copy EXCEPT !.pc = "failed"], UNCHANGED <<events, table, hand, post>>
    PROVE  Once'
<1>1. copy'.pc = "failed"
  BY DEF Inv, TypeOK
<1>2. CopyList' = CopyList /\ \A s \in Streams : Contents(s)' = Contents(s)
  BY DEF CopyList, Contents
<1>3. Fresh' /\ Linked'
  BY <1>2, SameUser DEF Once
<1>4. Unique' /\ BothValid'
  BY <1>2 DEF Once, Unique, BothValid, Both, Valid
<1>5. Behind' /\ Ahead'
  BY <1>1 DEF Behind, Ahead
<1> QED
  BY <1>3, <1>4, <1>5 DEF Once

\* A new copy starts after the end of every event that is in both tables.
LEMMA CopyStartOnce ==
    ASSUME Inv, Laid, Once, NEW action, NEW new \in BOOLEAN, NEW b \in setup.bounds,
           CopyStart(action, new, b[1], b[2])
    PROVE  Once'
<1>1. PICK from \in Int \cup {None} :
        /\ from = IF new THEN LastEnd(Dest) ELSE b[1]
        /\ copy'.pc = "read" /\ copy'.new = new /\ copy'.start = from
        /\ hand'["copy"] = NoHand /\ hand'["user"] = hand["user"]
        /\ \A s \in Streams : table'[s] \subseteq table[s]
        /\ UNCHANGED <<events, post>>
  <2>1. Known
    BY DEF Laid
  <2>2. PICK x \in Int \cup {None} :
          /\ x = IF new THEN LastEnd(Dest) ELSE b[1]
          /\ copy'.pc = "read" /\ copy'.new = new /\ copy'.start = x /\ copy'.end = b[2]
          /\ b[2] \in Int \cup {None}
          /\ copy'.open = (x = None /\ b[2] # None)
          /\ steady' = {e \in Contents(Source) : InBounds(e, x, b[2], FALSE)}
          /\ copy.pc # "write" /\ copy.pc # "read"
          /\ hand'["copy"] = NoHand /\ hand'["user"] = hand["user"]
          /\ \A s \in Streams : table'[s] \subseteq table[s]
          /\ new => table' = table
          /\ UNCHANGED <<setup, events, far, post, plain>>
    BY <2>1, CopyStartMade, Zenon
  <2> QED
    BY <2>2
<1>2. /\ \A s \in Streams : \A e \in Contents(s)' : e \in Contents(s)
      /\ \A e \in Both' : e \in Both
  BY <1>1, SmallerContents
<1>3. Unique' /\ BothValid'
  BY <1>1, <1>2 DEF Once, Unique, BothValid, Valid
<1>4. \A i \in DOMAIN CopyList' : FALSE
  BY <1>1, NoHandTypes DEF CopyList
<1>5. Fresh' /\ Linked'
  BY <1>1, <1>2, <1>4, SameUser DEF Once
<1>6. ASSUME new, NEW e \in Both PROVE from # None /\ events[e].start < from
  <2>1. e \in Contents(Dest) /\ e \in DOMAIN events
    BY DEF Both, Contents, Laid, Known
  <2>2. from = LastEnd(Dest) /\ table[Dest] # {}
    BY <1>1, <1>6, <2>1 DEF Contents
  <2>3. from \in Int /\ events[e].end <= from
    BY <2>1, <2>2, LastEndMade DEF Laid
  <2>4. events[e].start < events[e].end
    BY DEF Once, BothValid, Valid
  <2>5. events[e].start \in Int /\ events[e].end \in Int
    BY <2>1, EventTypes DEF Inv
  <2>6. from # None
    BY <2>3
  <2> QED
    BY <2>3, <2>4, <2>5, <2>6
<1>7. Behind' /\ Ahead'
  BY <1>1, <1>2, <1>6 DEF Behind, Ahead
<1> QED
  BY <1>3, <1>5, <1>7 DEF Once

LEMMA CopyReadOnce ==
    ASSUME Inv, Laid, Once, CopyRead
    PROVE  Once'
<1>0. copy.pc = "read" /\ UNCHANGED <<events, far, table, post>>
  BY DEF CopyRead, store
<1>1. CASE copy' = [copy EXCEPT !.pc = "failed"] /\ hand' = hand
  BY <1>0, <1>1, CopyFailOnce
<1>2. ASSUME NEW b \in ReadEvents(Source, copy.start, copy.end),
             copy' = [copy EXCEPT !.pc = IF b = <<>> THEN NoMore ELSE "write"],
             hand' = [hand EXCEPT !["copy"] =
                        [list |-> [i \in DOMAIN b |-> FromJson(b[i], Source)],
                         at |-> 0, rx |-> <<>>, to |-> Dest]]
      PROVE  Once'
  <2>0. TypeOK
    BY DEF Inv
  <2>1. PICK list : list = [i \in DOMAIN b |-> FromJson(b[i], Source)]
    OBVIOUS
  <2>2. CopyList' = list /\ hand'["copy"].at = 0 /\ hand'["user"] = hand["user"]
    BY <1>2, <2>1 DEF Inv, TypeOK, CopyList
  <2>3. /\ copy'.pc \in {"done", "write"} /\ copy'.new = copy.new /\ copy'.start = copy.start
    BY <1>2 DEF Inv, TypeOK, NoMore
  <2>4. PICK n \in Nat : n = Len(b) /\ DOMAIN b = 1..n
    BY ReadTypes DEF Inv
  <2>5. DOMAIN list = 1..n /\ \A i \in 1..n : list[i].event = b[i].event
    BY <2>1, <2>4 DEF FromJson
  <2>6. /\ \A i, k \in 1..n : i < k => b[i] # b[k]
        /\ \A i \in 1..n : b[i] \in table[Source] /\ InBounds(b[i].event, copy.start, copy.end, FALSE)
    BY <2>0, <2>4, ReadMade
  <2>7. \A i \in 1..n : /\ copy.start = None \/ events[list[i].event].start >= copy.start
                        /\ list[i].event \in Contents(Source) /\ list[i].event \in DOMAIN events
    BY <2>5, <2>6 DEF InBounds, Contents, Laid, Known
  <2>8. \A i, k \in 1..n : list[i].event = list[k].event => i = k
    <3>1. ASSUME NEW i \in 1..n, NEW k \in 1..n, list[i].event = list[k].event PROVE i = k
      <4>1. b[i] = b[k]
        <5>1. b[i].event = b[k].event /\ b[i] \in table[Source] /\ b[k] \in table[Source]
          BY <2>5, <2>6, <3>1
        <5>2. \A r, x \in table[Source] : r.event = x.event => r = x
          BY DEF Once, Unique
        <5> QED
          BY <5>1, <5>2
      <4>2. i < k \/ k < i \/ i = k
        OBVIOUS
      <4> QED
        BY <2>6, <4>1, <4>2
    <3> QED
      BY <3>1
  <2>9. Stored' = 0
    <3>1. post["copy"].stage = "idle"
      BY <1>0 DEF Inv, CopyQuiet
    <3> QED
      BY <1>0, <2>2, <3>1 DEF Stored
  <2>10. ASSUME copy.new, NEW i \in 1..n PROVE list[i].event \notin Contents(Dest)
    <3>1. PICK e : e = list[i].event
      OBVIOUS
    <3>2. SUFFICES ASSUME e \in Contents(Dest) PROVE FALSE
      BY <3>1
    <3>3. e \in Both /\ e \in DOMAIN events /\ (copy.start = None \/ events[e].start >= copy.start)
      BY <2>7, <3>1, <3>2 DEF Both
    <3>4. copy.start # None /\ events[e].start < copy.start
      BY <1>0, <2>10, <3>3 DEF Once, Behind
    <3>5. copy.start \in Int /\ events[e].start \in Int
      BY <3>3, <3>4, EventTypes DEF Laid, Window, Inv
    <3> QED
      BY <3>3, <3>4, <3>5
  <2>11. /\ \A s \in Streams : Contents(s)' = Contents(s)
         /\ Both' = Both
    BY <1>0 DEF Contents, Both
  <2>12. Unique' /\ BothValid'
    BY <1>0, <2>11 DEF Once, Unique, BothValid, Valid
  <2>13. Behind'
    <3>1. copy.new => \A e \in Both : copy.start # None /\ events[e].start < copy.start
      BY <1>0 DEF Once, Behind
    <3> QED
      BY <1>0, <2>3, <2>11, <3>1 DEF Behind
  <2>14. Ahead'
    BY <1>0, <2>2, <2>3, <2>5, <2>7, <2>8, <2>10, <2>11 DEF Ahead
  <2>15. UserList' = UserList
    BY <2>2 DEF UserList
  <2>16. Fresh'
    <3>1. ASSUME NEW k \in DOMAIN UserList, UserList[k].id = None, post["user"].stage # "update"
          PROVE  Apart(UserList[k].event)'
      <4>1. PICK e : e = UserList[k].event
        OBVIOUS
      <4>2. Apart(e)
        BY <3>1, <4>1 DEF Once, Fresh
      <4>3. /\ \A s \in Streams : e \notin Contents(s)'
            /\ \A i \in DOMAIN CopyList' : CopyList'[i].event # e
        BY <2>2, <2>5, <2>7, <2>11, <4>2 DEF Apart
      <4> QED
        BY <2>15, <4>1, <4>3 DEF Apart
    <3> QED
      BY <1>0, <2>15, <3>1 DEF Once, Fresh
  <2>17. Linked'
    BY <1>0, <2>2, <2>15 DEF Once, Linked
  <2> QED
    BY <2>12, <2>13, <2>14, <2>16, <2>17 DEF Once
<1> QED
  BY <1>1, <1>2 DEF CopyRead

\* The next block begins after all that the copy has stored.
LEMMA CopyNextOnce ==
    ASSUME Inv, Laid, Once, CopyNext
    PROVE  Once'
<1>1. /\ copy.pc = "write"
      /\ copy' = [copy EXCEPT !.start = After(CopyList),
                     !.pc = IF copy.end # None /\ After(CopyList) >= copy.end THEN "done" ELSE "read"]
      /\ UNCHANGED <<events, far, table, hand, post>>
  BY DEF CopyNext, store, CopyList
<1>2. PICK last \in DOMAIN CopyList : last = Len(CopyList)
  BY <1>1, LastIndex DEF Laid, Block, Inv
<1>3. PICK t \in Int : t = events[CopyList[last].event].start
  BY <1>2, EventTypes DEF Laid, Known, CopyList, Inv
<1>4. After(CopyList) = t + 1
  BY <1>2, <1>3 DEF After
<1>5. copy'.start = t + 1 /\ copy'.new = copy.new /\ copy'.pc \in {"done", "read"}
  BY <1>1, <1>4 DEF Inv, TypeOK
<1>6. ASSUME NEW e \in Both, copy.new PROVE events[e].start < t + 1
  <2>1. e \in DOMAIN events /\ events[e].start \in Int
    BY EventTypes DEF Both, Contents, Laid, Known, Inv
  <2>2. CASE copy.start # None /\ events[e].start < copy.start
    <3>1. t >= copy.start /\ copy.start \in Int
      BY <1>1, <1>2, <1>3, <2>2 DEF Once, Ahead, Laid, Window
    <3> QED
      BY <2>1, <2>2, <3>1
  <2>3. CASE \E k \in DOMAIN CopyList : CopyList[k].event = e
    <3>1. PICK k \in DOMAIN CopyList : CopyList[k].event = e
      BY <2>3
    <3>2. k = last \/ k < last
      <4>1. DOMAIN CopyList = 1..Len(CopyList) /\ Len(CopyList) \in Nat
        BY StoredTypes
      <4> QED
        BY <1>2, <3>1, <4>1
    <3>3. events[e].start <= t
      BY <1>1, <1>3, <2>1, <3>1, <3>2 DEF Laid, Block
    <3> QED
      BY <2>1, <3>3
  <2> QED
    BY <1>1, <1>6, <2>2, <2>3 DEF Once, Behind
<1>7. CopyList' = CopyList /\ \A s \in Streams : Contents(s)' = Contents(s)
  BY <1>1 DEF CopyList, Contents
<1>8. Fresh' /\ Linked'
  BY <1>1, <1>7, SameUser DEF Once
<1>9. Both' = Both /\ Unique' /\ BothValid'
  BY <1>1, <1>7 DEF Once, Unique, BothValid, Both, Valid
<1>10. Behind' /\ Ahead'
  <2>1. t + 1 # None
    OBVIOUS
  <2> QED
    BY <1>1, <1>5, <1>6, <1>9, <2>1 DEF Behind, Ahead
<1> QED
  BY <1>8, <1>9, <1>10 DEF Once

LEMMA InitOnce == Init => Once
<1> SUFFICES ASSUME Init PROVE Once
  OBVIOUS
<1>1. PICK h \in Setups :
         table = [s \in Streams |->
                    IF s = Source THEN {Row(i, i) : i \in 1..Len(h.source)}
                    ELSE {Row(i, Len(h.source) + i) : i \in 1..Len(h.dest)}]
  BY DEF Init
<1>2. /\ hand = [c \in Clients |-> NoHand] /\ post = [c \in Clients |-> Idle]
      /\ copy = [pc |-> "off", new |-> FALSE, start |-> None, end |-> None,
                 open |-> FALSE, runs |-> 0]
  BY DEF Init
<1>3. PICK a \in Nat : a = Len(h.source)
  OBVIOUS
<1>4. PICK d \in Nat : d = Len(h.dest)
  OBVIOUS
<1>5. \A r \in table[Source] : \E i \in 1..a : r = Row(i, i) /\ r.event = i /\ r.made = i
  <2>1. \A i : Row(i, i).event = i /\ Row(i, i).made = i
    BY DEF Row
  <2>2. \A r \in table[Source] : \E i \in 1..a : r = Row(i, i)
    BY <1>1, <1>3
  <2>3. ASSUME NEW r \in table[Source]
        PROVE  \E i \in 1..a : r = Row(i, i) /\ r.event = i /\ r.made = i
    <3>1. PICK i \in 1..a : r = Row(i, i)
      BY <2>2
    <3>2. r.event = i /\ r.made = i
      BY <2>1, <3>1
    <3> QED
      BY <3>1, <3>2
  <2> QED
    BY <2>3
<1>6. \A r \in table[Dest] : \E i \in 1..d : r = Row(i, a + i) /\ r.event = a + i /\ r.made = a + i
  <2>1. \A i : Row(i, a + i).event = a + i /\ Row(i, a + i).made = a + i
    BY DEF Row
  <2>2. \A r \in table[Dest] : \E i \in 1..d : r = Row(i, a + i)
    BY <1>1, <1>3, <1>4
  <2> QED
    BY <2>1, <2>2
<1>7. Unique
  <2>1. ASSUME NEW r \in table[Source], NEW x \in table[Source]
        PROVE  r.event = r.made /\ (r.event = x.event => r = x)
    <3>1. PICK i \in 1..a : r = Row(i, i) /\ r.event = i /\ r.made = i
      BY <1>5
    <3>2. PICK k \in 1..a : x = Row(k, k) /\ x.event = k
      BY <1>5
    <3> QED
      BY <3>1, <3>2
  <2>2. ASSUME NEW r \in table[Dest], NEW x \in table[Dest]
        PROVE  r.event = r.made /\ (r.event = x.event => r = x)
    <3>1. PICK i \in 1..d : r = Row(i, a + i) /\ r.event = a + i /\ r.made = a + i
      BY <1>6
    <3>2. PICK k \in 1..d : x = Row(k, a + k) /\ x.event = a + k
      BY <1>6
    <3>3. a + i = a + k => i = k
      OBVIOUS
    <3> QED
      BY <3>1, <3>2, <3>3
  <2> QED
    BY <2>1, <2>2 DEF Unique
<1>8. Both = {}
  <2>1. \A r \in table[Source] : r.event \in 1..a
    BY <1>5
  <2>2. \A r \in table[Dest] : r.event \in Nat /\ r.event > a
    BY <1>6
  <2>3. \A r \in table[Source], x \in table[Dest] : r.event # x.event
    BY <2>1, <2>2
  <2> QED
    BY <2>3 DEF Both, Contents
<1>9. post["user"].stage = "idle" /\ hand["user"].list = <<>>
  BY <1>2, IdleTypes, NoHandTypes
<1>10. Fresh /\ Linked
  <2>1. DOMAIN UserList = {}
    BY <1>9 DEF UserList
  <2> QED
    BY <1>9, <2>1 DEF Fresh, Linked
<1> QED
  BY <1>2, <1>7, <1>8, <1>10 DEF Once, BothValid, Behind, Ahead

LEMMA SameOnce ==
    ASSUME Inv, Laid, Once, UNCHANGED vars
    PROVE  Once'
<1>1. UNCHANGED <<events, table, hand, post, copy>>
  BY DEF vars, store, clients
<1>2. CopyList' = CopyList /\ \A s \in Streams : Contents(s)' = Contents(s)
  BY <1>1 DEF CopyList, Contents
<1>3. Fresh' /\ Linked'
  BY <1>1, <1>2, SameUser DEF Once
<1>4. Lasting /\ SameList("copy") /\ Stored' = Stored
  BY <1>1, SameEvents, SameLists DEF Inv, Stored
<1>5. Unique' /\ BothValid' /\ Behind' /\ Ahead'
  BY <1>1, <1>4, TablesOnce DEF Laid
<1> QED
  BY <1>3, <1>5 DEF Once

\* Whatever is not plain never becomes plain again.
LEMMA StaysPlain ==
    ASSUME [Next]_vars, plain'
    PROVE  plain
<1>1. ASSUME NEW c \in Clients, Serve(c) PROVE plain
  BY <1>1 DEF Serve, Reserve, SetSequence, Insert, Update, Reply, history
<1>2. ASSUME NEW c \in Clients, Send(c) \/ Retry(c) \/ Abort(c) PROVE plain
  BY <1>2 DEF Send, Retry, Abort, history
<1>3. ASSUME NEW action, NEW new, NEW b, CopyStart(action, new, b[1], b[2]) PROVE plain
  BY <1>3 DEF CopyStart
<1>4. CASE CopyRead \/ CopyNext \/ CopyFail
  BY <1>4 DEF CopyRead, CopyNext, CopyFail, history
<1>5. ASSUME NEW s \in Streams, UserRead(s) \/ UserWrite(s) PROVE plain
  BY <1>5 DEF UserRead, UserWrite, history
<1>6. ASSUME NEW s \in Streams, NEW t, UserNew(t, s) PROVE plain
  BY <1>6 DEF UserNew, history
<1>7. ASSUME NEW s \in Streams, NEW b, UserRemove(s, b[1], b[2]) PROVE plain
  BY <1>7 DEF UserRemove
<1>8. CASE UNCHANGED vars
  BY <1>8 DEF vars, history
<1> QED
  BY <1>1, <1>2, <1>3, <1>4, <1>5, <1>6, <1>7, <1>8 DEF Next

LEMMA NextOnce == Inv /\ Laid /\ (plain => Once) /\ [Next]_vars => (plain => Once)'
<1> SUFFICES ASSUME Inv, Laid, plain => Once, [Next]_vars, plain' PROVE Once'
  OBVIOUS
<1>0. Once
  BY StaysPlain
<1>1. ASSUME NEW c \in Clients, Serve(c) PROVE Once'
  BY <1>0, <1>1, IdsOnceKept, InsertOnce, UpdateOnce, ReplyOnce DEF Serve
<1>2. ASSUME NEW c \in Clients, Send(c) PROVE Once'
  BY <1>0, <1>2, SendOnce
<1>3. ASSUME NEW c \in Clients, Retry(c) \/ Abort(c) PROVE Once'
  <2>1. CASE Retry(c)
    BY <2>1 DEF Retry
  <2>2. CASE Abort(c)
    <3>1. c = "copy"
      BY <2>2 DEF Abort
    <3> QED
      BY <1>0, <2>2, <3>1, AbortOnce
  <2> QED
    BY <1>3, <2>1, <2>2
<1>4. ASSUME NEW action, NEW new \in BOOLEAN, NEW b \in setup.bounds,
             CopyStart(action, new, b[1], b[2])
      PROVE  Once'
  BY <1>0, <1>4, CopyStartOnce
<1>5. CASE CopyRead \/ CopyNext
  BY <1>0, <1>5, CopyReadOnce, CopyNextOnce
<1>6. CASE CopyFail
  BY <1>0, <1>6, CopyFailOnce DEF CopyFail, store
<1>7. ASSUME NEW s \in Streams, UserRead(s) \/ UserWrite(s) PROVE Once'
  BY <1>0, <1>7, UserReadOnce, UserWriteOnce
<1>8. ASSUME NEW s \in Streams, NEW t \in setup.new, UserNew(t, s) PROVE Once'
  BY <1>0, <1>8, UserNewOnce
<1>9. ASSUME NEW s \in Streams, NEW b, UserRemove(s, b[1], b[2]) PROVE Once'
  BY <1>0, <1>9, UserRemoveOnce
<1>10. CASE UNCHANGED vars
  BY <1>0, <1>10, SameOnce
<1> QED
  BY <1>1, <1>2, <1>3, <1>4, <1>5, <1>6, <1>7, <1>8, <1>9, <1>10 DEF Next

\* However often copies of new events fail and are started again, none stores an
\* event twice, as long as nothing but these copies does: a new copy starts at the
\* end of the last event of the destination, which is after the start of all that
\* earlier copies have stored (copy.py:_run, EventStore.upsert).
THEOREM CopiedOnce == Spec => []NewOnce
<1>1. (plain => Once) => NewOnce
  BY DEF Once, Unique, NewOnce
<1>2. Init => Inv /\ Laid /\ Complete /\ (plain => Once)
  BY InitInv, InitKeeps, InitOnce
<1>3. Inv /\ Laid /\ Complete /\ (plain => Once) /\ [Next]_vars
        => (Inv /\ Laid /\ Complete /\ (plain => Once))'
  BY NextInv, NextKeeps, NextOnce
<1> QED
  BY <1>1, <1>2, <1>3, PTL DEF Spec

===============================================================================
