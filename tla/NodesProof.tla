------------------------------ MODULE NodesProof ------------------------------
(***************************************************************************)
(* Proofs about Nodes for every set of nodes, Lumen servers and users and  *)
(* any number of additions, faults and moves: no sequence of requests of   *)
(* the masters, of the users file and of "joule admin authorize" leaves a  *)
(* node that nobody of its own can open, and a grant that was reported     *)
(* works until it is taken back.                                           *)
(***************************************************************************)
EXTENDS Nodes, FunctionTheorems, FiniteSetTheorems, WellFoundedInduction,
        NaturalsInduction, TLAPS

USE NodesConstants DEF NoGrantor

Named == Nodes \cup Lumens \cup Users \cup {Pending} \cup {Url(m) : m \in Nodes}

MasterRows ==
    [id : Nat \ {0}, name : Named, type : {"user", "joule", "lumen"}, key : Nat \ {0}, by : Nat]

Ops ==
    [at : Nodes, to : Nodes \cup Lumens, ident : Named, key : Nat \ {0},
     side : {"post", "call", "save", "ok", "no"}, loc : Addresses \cup {0},
     waiting : BOOLEAN, solo : BOOLEAN]

TypeOK ==
    /\ masters \in [Nodes -> SUBSET MasterRows]
    /\ cli \in [Nodes -> SUBSET MasterRows]
    /\ loc \in [Nodes -> Addresses]
    /\ ops \subseteq Ops
    /\ made \in Nat

\* A row is a user's own, with a key the user has, or it was let in by a row that
\* is older and still there; ids are handed out in order.
Rooted(n) ==
    \A r \in masters[n] :
        /\ r.id <= made
        /\ r.by = NoGrantor => r.type = "user" /\ r.key \in held
        /\ r.by # NoGrantor => \E s \in masters[n] : s.id = r.by /\ s.id < r.id

Inv ==
    /\ TypeOK
    /\ \A n \in Nodes : Rooted(n)
    /\ \A n \in Nodes \ purged : masters[n] # {}
    /\ \A n \in Nodes : \A r \in cli[n] : r.by = NoGrantor /\ r.type = "user" /\ r.id <= made

-----------------------------------------------------------------------------
(* The least id of a table *)

LEMMA LeastId ==
  ASSUME NEW T \in SUBSET Nat, T # {}
  PROVE  \E n \in T : \A m \in T : n <= m
  <1> DEFINE R == {p \in Nat \X Nat : p[1] < p[2]}
  <1>1. IsWellFoundedOn(R, Nat)
    BY NatLessThanWellFounded DEF OpToRel
  <1>2. PICK n \in T : \A m \in T : <<m, n>> \notin R
    <2> HIDE DEF R
    <2> QED BY <1>1, WFMin
  <1>3. \A m \in T : ~(m < n)
    BY <1>2
  <1> QED BY <1>3

\* The oldest row of a table was let in by nobody.
LEMMA OldestIsOwn ==
  ASSUME TypeOK, NEW n \in Nodes, Rooted(n), masters[n] # {}
  PROVE  \E r \in masters[n] : r.type = "user" /\ r.by = NoGrantor /\ r.key \in held
  <1> DEFINE T == {r.id : r \in masters[n]}
  <1>1. \A r \in masters[n] : r.id \in Nat /\ r.by \in Nat
    BY DEF TypeOK, MasterRows
  <1>2. T \in SUBSET Nat /\ T # {}
    BY <1>1
  <1>3. PICK i \in T : \A j \in T : i <= j
    <2> HIDE DEF T
    <2> QED BY <1>2, LeastId
  <1>4. PICK r \in masters[n] : r.id = i
    BY <1>3
  <1>5. \A s \in masters[n] : ~(s.id < r.id)
    BY <1>1, <1>3, <1>4
  <1> QED BY <1>5 DEF Rooted

LEMMA InvNotLockedOut == Inv => NotLockedOut
  BY OldestIsOwn DEF Inv, NotLockedOut

-----------------------------------------------------------------------------
(* Installed nodes *)

LEMMA InjectionChosen ==
  ASSUME NEW S, NEW T, Injection(S, T) # {}
  PROVE  (CHOOSE f \in [S -> T] : IsInjective(f)) \in [S -> T]
  <1>1. \E f \in [S -> T] : IsInjective(f)
    BY DEF Injection
  <1> QED BY <1>1

LEMMA Installed ==
  /\ (CHOOSE f \in [Nodes -> 1 .. Cardinality(Nodes)] : IsInjective(f))
        \in [Nodes -> 1 .. Cardinality(Nodes)]
  /\ Cardinality(Nodes) \in Nat
  <1>1. Cardinality(Nodes) \in Nat /\ ExistsBijection(1 .. Cardinality(Nodes), Nodes)
    BY FS_CardinalityType
  <1>2. ExistsBijection(Nodes, 1 .. Cardinality(Nodes))
    BY <1>1, Fun_ExistsBijSymmetric
  <1>3. Injection(Nodes, 1 .. Cardinality(Nodes)) # {}
    BY <1>2 DEF ExistsBijection, Bijection
  <1> QED BY <1>1, <1>3, InjectionChosen

LEMMA PlacedInjective == Injection(Nodes, Addresses) # {}
  <1> DEFINE k == Cardinality(Nodes)
             m == Cardinality(Addresses)
  <1>1. k \in Nat /\ m \in Nat /\ k <= m
    BY FS_CardinalityType
  <1>2. PICK f \in Injection(Nodes, 1..k) : TRUE
    BY FS_CardinalityType, Fun_ExistsBijSymmetric DEF ExistsBijection, Bijection
  <1>3. PICK g \in Injection(1..m, Addresses) : TRUE
    BY FS_CardinalityType DEF ExistsBijection, Bijection
  <1> DEFINE h == [x \in Nodes |-> g[f[x]]]
  <1>4. /\ f \in [Nodes -> 1..k] /\ \A a, b \in Nodes : f[a] = f[b] => a = b
        /\ g \in [1..m -> Addresses] /\ \A a, b \in 1..m : g[a] = g[b] => a = b
    BY DEF Injection, IsInjective
  <1>5. \A x \in Nodes : f[x] \in 1..m
    <2> HIDE DEF k, m
    <2> QED BY <1>1, <1>4
  <1> HIDE DEF k, m
  <1>6. h \in [Nodes -> Addresses]
    BY <1>4, <1>5
  <1>7. \A a, b \in Nodes : h[a] = h[b] => a = b
    BY <1>4, <1>5
  <1>8. h \in Injection(Nodes, Addresses)
    BY <1>6, <1>7 DEF Injection, IsInjective
  <1> QED BY <1>8

LEMMA Placed == (CHOOSE f \in [Nodes -> Addresses] : IsInjective(f)) \in [Nodes -> Addresses]
  BY PlacedInjective, InjectionChosen

LEMMA PlacedApart ==
  LET f == CHOOSE f \in [Nodes -> Addresses] : IsInjective(f)
  IN  \A a, b \in Nodes : f[a] = f[b] => a = b
  <1>1. \E f \in [Nodes -> Addresses] : \A a, b \in Nodes : f[a] = f[b] => a = b
    BY PlacedInjective DEF Injection, IsInjective
  <1>2. \E f \in [Nodes -> Addresses] : IsInjective(f)
    BY PlacedInjective DEF Injection
  <1>3. IsInjective(CHOOSE f \in [Nodes -> Addresses] : IsInjective(f))
    BY <1>2
  <1> QED BY <1>3, Placed DEF IsInjective

LEMMA InvInit == Init => Inv
  <1> SUFFICES ASSUME Init PROVE Inv
    OBVIOUS
  <1> DEFINE first == CHOOSE f \in [Nodes -> 1 .. Cardinality(Nodes)] : IsInjective(f)
  <1>1. PICK u \in Users : masters = [n \in Nodes |->
           {[id |-> first[n], name |-> u, type |-> "user", key |-> first[n], by |-> 0]}]
    BY DEF Init
  <1>2. first \in [Nodes -> 1..made] /\ made \in Nat /\ held = 1..made
    BY Installed DEF Init
  <1> HIDE DEF first
  <1>3. \A n \in Nodes : first[n] \in 1..made /\ first[n] \in Nat \ {0}
    BY <1>2
  <1>4. masters \in [Nodes -> SUBSET MasterRows]
    <2> DEFINE own(n) ==
          [id |-> first[n], name |-> u, type |-> "user", key |-> first[n], by |-> 0]
    <2>1. ASSUME NEW n \in Nodes PROVE own(n) \in MasterRows
      BY <1>3 DEF MasterRows, Named
    <2>2. masters = [n \in Nodes |-> {own(n)}]
      BY <1>1
    <2> HIDE DEF own
    <2> QED BY <2>1, <2>2
  <1>5. \A n \in Nodes : Rooted(n) /\ masters[n] # {}
    <2> SUFFICES ASSUME NEW n \in Nodes PROVE Rooted(n) /\ masters[n] # {}
      OBVIOUS
    <2>1. /\ masters[n] # {}
          /\ \A r \in masters[n] : r.id = first[n] /\ r.key = first[n] /\ r.by = 0 /\ r.type = "user"
      <3> DEFINE own(x) ==
            [id |-> x, name |-> u, type |-> "user", key |-> x, by |-> 0]
      <3>1. masters[n] = {own(first[n])}
        BY <1>1
      <3>2. \A x : own(x).id = x /\ own(x).key = x /\ own(x).by = 0 /\ own(x).type = "user"
        OBVIOUS
      <3> HIDE DEF own
      <3> QED BY <3>1, <3>2
    <2>2. first[n] \in held /\ first[n] <= made
      BY <1>2, <1>3
    <2> QED BY <2>1, <2>2 DEF Rooted
  <1>6. loc \in [Nodes -> Addresses] /\ cli = [n \in Nodes |-> {}] /\ ops = {}
    BY Placed DEF Init
  <1> QED BY <1>2, <1>4, <1>5, <1>6 DEF Inv, TypeOK

-----------------------------------------------------------------------------
(* One table changes, or none *)

LEMMA TableChanged ==
  ASSUME Inv, NEW n \in Nodes, NEW T \in SUBSET MasterRows,
         masters' = [masters EXCEPT ![n] = T],
         made' \in Nat, made <= made', held \subseteq held', purged \subseteq purged',
         ops' \subseteq Ops, loc' = loc, cli' \in [Nodes -> SUBSET MasterRows],
         \A m \in Nodes : cli'[m] \subseteq cli[m],
         \A r \in T : /\ r.id <= made'
                      /\ r.by = 0 => r.type = "user" /\ r.key \in held'
                      /\ r.by # 0 => \E s \in T : s.id = r.by /\ s.id < r.id,
         n \notin purged' => T # {}
  PROVE  Inv'
  <1>1. masters'[n] = T /\ \A m \in Nodes \ {n} : masters'[m] = masters[m]
    BY DEF Inv, TypeOK
  <1>2. TypeOK'
    BY DEF Inv, TypeOK
  <1>3. made \in Nat /\ \A m \in Nodes : \A r \in masters[m] \cup cli[m] : r.id \in Nat
    BY DEF Inv, TypeOK, MasterRows
  <1>4. ASSUME NEW m \in Nodes PROVE Rooted(m)'
    <2>1. CASE m = n
      BY <1>1, <2>1 DEF Rooted
    <2>2. CASE m # n
      <3>1. masters'[m] = masters[m] /\ Rooted(m)
        BY <1>1, <2>2 DEF Inv
      <3>2. ASSUME NEW r \in masters'[m]
            PROVE /\ r.id <= made'
                  /\ r.by = NoGrantor => r.type = "user" /\ r.key \in held'
                  /\ r.by # NoGrantor => \E s \in masters'[m] : s.id = r.by /\ s.id < r.id
        <4>1. r.id <= made' 
          BY <1>3, <3>1, <3>2 DEF Rooted
        <4> QED BY <3>1, <3>2, <4>1 DEF Rooted
      <3> QED BY <3>2 DEF Rooted
    <2> QED BY <2>1, <2>2
  <1>5. \A m \in Nodes \ purged' : masters'[m] # {}
    BY <1>1 DEF Inv
  <1>6. \A m \in Nodes : \A r \in cli'[m] : r.by = NoGrantor /\ r.type = "user" /\ r.id <= made'
    BY <1>3 DEF Inv
  <1> QED BY <1>2, <1>4, <1>5, <1>6 DEF Inv

LEMMA TablesKept ==
  ASSUME Inv, UNCHANGED <<masters, made, purged>>, held \subseteq held',
         ops' \subseteq Ops, loc' \in [Nodes -> Addresses], UNCHANGED cli
  PROVE  Inv'
  BY DEF Inv, TypeOK, Rooted

-----------------------------------------------------------------------------
(* The requests of the masters *)

LEMMA OpFields ==
  ASSUME NEW o \in Ops
  PROVE  /\ o.at \in Nodes /\ o.to \in Nodes \cup Lumens /\ o.ident \in Named
         /\ o.key \in Nat \ {0} /\ o.side \in {"post", "call", "save", "ok", "no"}
         /\ o.loc \in Addresses \cup {0}
         /\ \A b \in BOOLEAN : [o EXCEPT !.waiting = b] \in Ops
         /\ \A x \in {"post", "call", "save", "ok", "no"} : [o EXCEPT !.side = x] \in Ops
         /\ \A x \in {"post", "call", "save", "ok", "no"}, a \in Addresses \cup {0} :
               [o EXCEPT !.side = x, !.loc = a] \in Ops
  BY DEF Ops

LEMMA SoloKept ==
  ASSUME NEW o \in Ops, NEW b PROVE [o EXCEPT !.solo = o.solo /\ b] \in Ops
  <1>1. (o.solo /\ b) \in BOOLEAN
    OBVIOUS
  <1> QED BY <1>1 DEF Ops

LEMMA MasterFields ==
  ASSUME Inv, NEW n \in Nodes, NEW r \in masters[n]
  PROVE  /\ r \in MasterRows /\ r.id \in Nat \ {0} /\ r.by \in Nat /\ r.key \in Nat \ {0}
         /\ r.id <= made /\ made \in Nat
         /\ r.by = 0 => r.type = "user" /\ r.key \in held
         /\ r.by # 0 => \E s \in masters[n] : s.id = r.by /\ s.id < r.id
  <1>1. r \in MasterRows /\ made \in Nat /\ Rooted(n)
    BY DEF Inv, TypeOK
  <1>2. r.id \in Nat \ {0} /\ r.by \in Nat /\ r.key \in Nat \ {0}
    BY <1>1 DEF MasterRows
  <1> QED BY <1>1, <1>2 DEF Rooted

LEMMA NewRow ==
  ASSUME Inv, NEW name \in Named, NEW type \in {"user", "joule", "lumen"}, NEW by \in Nat
  PROVE  /\ Row(name, type, by) \in MasterRows
         /\ Row(name, type, by).id = made + 1 /\ Row(name, type, by).key = made + 1
         /\ Row(name, type, by).type = type /\ Row(name, type, by).by = by
         /\ made + 1 \in Nat \ {0} /\ made <= made + 1
  <1>1. made \in Nat
    BY DEF Inv, TypeOK
  <1> QED BY <1>1 DEF Row, MasterRows

\* A row that is added refers to the one that let it in.
LEMMA RowAdded ==
  ASSUME Inv, NEW n \in Nodes, NEW row \in MasterRows, row.id = made + 1,
         \/ row.by = 0 /\ row.type = "user" /\ row.key \in held'
         \/ \E g \in masters[n] : row.by = g.id,
         masters' = [masters EXCEPT ![n] = @ \cup {row}],
         made' = made + 1, held \subseteq held', purged' = purged,
         ops' \subseteq Ops, loc' = loc, cli' = cli
  PROVE  Inv'
  <1> DEFINE T == masters[n] \cup {row}
  <1>1. made \in Nat /\ made' \in Nat /\ made <= made'
    BY DEF Inv, TypeOK
  <1>2. T \in SUBSET MasterRows /\ T # {} /\ masters' = [masters EXCEPT ![n] = T]
        /\ cli \in [Nodes -> SUBSET MasterRows]
    BY DEF Inv, TypeOK
  <1>3. ASSUME NEW r \in T
        PROVE  /\ r.id <= made'
               /\ r.by = 0 => r.type = "user" /\ r.key \in held'
               /\ r.by # 0 => \E s \in T : s.id = r.by /\ s.id < r.id
    <2>1. CASE r \in masters[n]
      <3>1. r.id <= made'
        BY <1>1, <2>1, MasterFields
      <3> QED BY <2>1, <3>1, MasterFields
    <2>2. CASE r = row
      <3>1. r.id <= made'
        BY <1>1, <2>2
      <3>2. \A g \in masters[n] : g.id < made + 1 /\ g.id # 0
        BY <1>1, MasterFields
      <3> QED BY <2>2, <3>1, <3>2
    <2> QED BY <2>1, <2>2
  <1> HIDE DEF T
  <1> QED BY <1>1, <1>2, <1>3, TableChanged

LEMMA AddUserInv ==
  ASSUME Inv, NEW n \in Nodes, NEW g \in masters[n], NEW u \in Users, AddUser(n, g, u)
  PROVE  Inv'
  <1>1. u \in Named /\ g.id \in Nat
    BY MasterFields DEF Named
  <1>2. /\ masters' = [masters EXCEPT ![n] = @ \cup {Row(u, "user", g.id)}]
        /\ made' = made + 1 /\ held \subseteq held' /\ UNCHANGED <<ops, cli, loc, purged>>
    BY DEF AddUser, history
  <1>3. ops' \subseteq Ops
    BY <1>2 DEF Inv, TypeOK
  <1> DEFINE row == Row(u, "user", g.id)
  <1>4. row \in MasterRows /\ row.id = made + 1 /\ row.by = g.id
    BY <1>1, NewRow
  <1>5. masters' = [masters EXCEPT ![n] = @ \cup {row}]
    BY <1>2
  <1> HIDE DEF row
  <1> QED BY <1>2, <1>3, <1>4, <1>5, RowAdded

LEMMA StartInv ==
  ASSUME Inv, NEW n \in Nodes, NEW g \in masters[n], NEW to \in Nodes \cup Lumens,
         NEW ident \in Named, Start(n, to, ident, g.id)
  PROVE  Inv'
  <1> DEFINE type == IF to \in Nodes THEN "joule" ELSE "lumen"
  <1>1. Pending \in Named /\ g.id \in Nat /\ type \in {"user", "joule", "lumen"}
    BY MasterFields DEF Named
  <1>2. /\ masters' = [masters EXCEPT ![n] = @ \cup {Row(Pending, type, g.id)}]
        /\ made' = made + 1 /\ held = held' /\ UNCHANGED <<cli, loc, purged>>
    BY DEF Start
  <1>3. ops' \subseteq Ops
    <2> DEFINE new == [at |-> n, to |-> to, ident |-> ident, key |-> made', side |-> "post", loc |-> 0,
             waiting |-> TRUE, solo |-> ~\E o \in ops : o.to = to /\ (o.at = n \/ o.loc = loc[n])]
    <2>1. new \in Ops
      BY <1>2, NewRow, <1>1 DEF Ops
    <2>2. ASSUME NEW o \in ops PROVE [o EXCEPT !.solo = @ /\ <<o.at, o.to>> # <<n, to>>] \in Ops
      BY SoloKept DEF Inv, TypeOK
    <2>3. ops' = {[o EXCEPT !.solo = @ /\ <<o.at, o.to>> # <<n, to>>] : o \in ops} \cup {new}
      BY DEF Start
    <2> HIDE DEF new
    <2> QED BY <2>1, <2>2, <2>3
  <1> DEFINE row == Row(Pending, type, g.id)
  <1>4. row \in MasterRows /\ row.id = made + 1 /\ row.by = g.id
    <2> HIDE DEF type
    <2> QED BY <1>1, NewRow
  <1>5. masters' = [masters EXCEPT ![n] = @ \cup {row}]
    BY <1>2
  <1> HIDE DEF row
  <1> QED BY <1>2, <1>3, <1>4, <1>5, RowAdded

LEMMA DeleteInv ==
  ASSUME Inv, NEW n \in Nodes, NEW g \in masters[n], NEW r \in masters[n], Delete(n, g, r)
  PROVE  Inv'
  <1> DEFINE T == masters[n] \ {r}
  <1>1. /\ r.key # g.key /\ ~Grants(n, r) /\ masters' = [masters EXCEPT ![n] = T]
        /\ UNCHANGED <<ops, cli, held, made, loc, purged>>
    BY DEF Delete
  <1>2. g \in T
    BY <1>1
  <1>3. \A x \in T : x.by # 0 => \E s \in T : s.id = x.by /\ s.id < x.id
    BY <1>1, MasterFields DEF Grants
  <1>4. \A x \in T : x.id <= made /\ (x.by = 0 => x.type = "user" /\ x.key \in held)
    BY MasterFields
  <1>5. /\ T \in SUBSET MasterRows /\ made \in Nat /\ ops \subseteq Ops
        /\ cli \in [Nodes -> SUBSET MasterRows]
    BY DEF Inv, TypeOK
  <1>6. made <= made
    BY <1>5
  <1> HIDE DEF T
  <1> QED BY <1>1, <1>2, <1>3, <1>4, <1>5, <1>6, TableChanged

\* The row that is settled keeps its id, its key and its grantor, and the rows it
\* replaces let nobody in.
LEMMA FinishInv ==
  ASSUME Inv, NEW o \in ops, NEW ok \in BOOLEAN, NEW rest \in SUBSET Ops, Finish(o, ok, rest)
  PROVE  Inv'
  <1> DEFINE n == o.at
             name == IF ok /\ o.to \in Nodes THEN o.to ELSE o.ident
             mine == {r \in masters[n] : r.key = o.key}
             old == {r \in masters[n] : r.name = name /\ \E my \in mine : r.type = my.type}
             fails == mine = {} \/ \E r \in old : Grants(n, r)
             my == CHOOSE r \in mine : TRUE
             new == [my EXCEPT !.name = name]
             T == {r \in masters[n] \ {my} : ~(r.type = my.type /\ r.name = name)} \cup {new}
  <1>1. /\ ops' \subseteq Ops /\ o \in Ops /\ cli \in [Nodes -> SUBSET MasterRows]
        /\ made \in Nat /\ made <= made /\ UNCHANGED <<loc, cli, held, made, purged>>
        /\ loc \in [Nodes -> Addresses]
    BY DEF Finish, Inv, TypeOK
  <1>2. n \in Nodes /\ name \in Named
    BY <1>1, OpFields DEF Named
  <1>3. CASE fails
    <2>1. masters' = masters
      BY <1>3 DEF Finish
    <2> QED BY <1>1, <2>1, TablesKept
  <1>4. CASE ~fails
    <2>1. masters' = [masters EXCEPT ![n] = T]
      BY <1>4 DEF Finish, Settle
    <2>2. my \in masters[n] /\ my \in mine
      BY <1>4
    <2>3. /\ my \in MasterRows
          /\ new \in MasterRows /\ new.id = my.id /\ new.by = my.by /\ new.type = my.type
          /\ new.key = my.key
      <3>1. my \in MasterRows
        BY <1>2, <2>2, MasterFields
      <3> HIDE DEF my, name
      <3> QED BY <1>2, <3>1 DEF MasterRows
    <2>4. \A r \in masters[n] : r.type = my.type /\ r.name = name => ~Grants(n, r)
      BY <1>4, <2>2
    <2>5. T \in SUBSET MasterRows /\ new \in T
      BY <1>2, <2>3, MasterFields
    <2> HIDE DEF name, mine, old, my, new, n
    <2>6. ASSUME NEW r \in masters[n], r.by # 0
          PROVE  \E s \in T : s.id = r.by /\ s.id < r.id
      <3>1. PICK s \in masters[n] : s.id = r.by /\ s.id < r.id
        BY <1>2, <2>6, MasterFields
      <3>2. Grants(n, s)
        BY <3>1 DEF Grants
      <3>3. CASE s = my
        BY <2>3, <2>5, <3>1, <3>3
      <3>4. CASE s # my
        BY <2>4, <3>1, <3>2, <3>4
      <3> QED BY <3>3, <3>4
    <2>7. ASSUME NEW r \in T
          PROVE  /\ r.id <= made
                 /\ r.by = 0 => r.type = "user" /\ r.key \in held
                 /\ r.by # 0 => \E s \in T : s.id = r.by /\ s.id < r.id
      <3>1. PICK x \in masters[n] : x.id = r.id /\ x.by = r.by /\ x.type = r.type /\ x.key = r.key
        BY <2>2, <2>3, <2>7
      <3>2. x.by # 0 => \E s \in T : s.id = x.by /\ s.id < x.id
        BY <2>6, <3>1
      <3> HIDE DEF T
      <3> QED BY <1>2, <3>1, <3>2, MasterFields
    <2> HIDE DEF T
    <2> QED BY <1>1, <1>2, <2>1, <2>5, <2>7, TableChanged
  <1> QED BY <1>3, <1>4

LEMMA RequestInv ==
  ASSUME Inv, NEW o \in ops, Request(o)
  PROVE  Inv'
  <1>1. /\ o \in Ops /\ ops \subseteq Ops /\ loc \in [Nodes -> Addresses]
        /\ \A p \in Ops : (ops \ {o}) \cup {p} \subseteq Ops
    BY DEF Inv, TypeOK
  <1>2. CASE Arrive(o)
    <2>1. loc[o.at] \in Addresses
      BY <1>1, OpFields
    <2>2. [o EXCEPT !.side = "call", !.loc = loc[o.at]] \in Ops
      BY <1>1, <2>1, OpFields
    <2>3. ops' \subseteq Ops /\ held \subseteq held' /\ UNCHANGED <<masters, made, purged, loc, cli>>
      BY <1>1, <1>2, <2>2 DEF Arrive, tables, history
    <2> QED BY <1>1, <2>3, TablesKept
  <1>3. CASE Callback(o)
    <2>1. \A b \in BOOLEAN : [o EXCEPT !.side = IF b THEN "save" ELSE "no"] \in Ops
      BY <1>1, OpFields
    <2>2. ops' \subseteq Ops /\ UNCHANGED <<held, masters, made, purged, loc, cli>>
      BY <1>1, <1>3, <2>1 DEF Callback, tables, history
    <2> QED BY <1>1, <2>2, TablesKept
  <1>4. CASE Save(o)
    <2>1. \A b \in BOOLEAN : [o EXCEPT !.side = IF b THEN "no" ELSE "ok"] \in Ops
      BY <1>1, OpFields
    <2>2. ops' \subseteq Ops /\ UNCHANGED <<held, masters, made, purged, loc, cli>>
      BY <1>1, <1>4, <2>1 DEF Save, history
    <2> QED BY <1>1, <2>2, TablesKept
  <1>5. CASE Answer(o)
    <2>1. (o.side = "ok") \in BOOLEAN /\ {} \in SUBSET Ops
      OBVIOUS
    <2> QED BY <1>5, <2>1, FinishInv DEF Answer
  <1>6. CASE Forget(o)
    <2>1. ops' \subseteq Ops /\ UNCHANGED <<held, masters, made, purged, loc, cli>>
      BY <1>1, <1>6 DEF Forget, tables, history
    <2> QED BY <1>1, <2>1, TablesKept
  <1>7. ASSUME NEW answer \in {"ok", "no"}, LumenAnswer(o, answer) PROVE Inv'
    <2>1. ops' \subseteq Ops /\ held \subseteq held' /\ UNCHANGED <<masters, made, purged, loc, cli>>
      BY <1>1, <1>7, OpFields DEF LumenAnswer, tables, history
    <2> QED BY <1>1, <2>1, TablesKept
  <1>8. CASE Fail(o)
    <2>1. {} \in SUBSET Ops /\ {[o EXCEPT !.waiting = FALSE]} \in SUBSET Ops
      BY <1>1, OpFields
    <2> QED BY <1>8, <2>1, FinishInv DEF Fail
  <1>9. CASE Retry(o)
    <2>1. [o EXCEPT !.waiting = FALSE] \in Ops /\ [o EXCEPT !.side = "post", !.loc = 0] \in Ops
      BY <1>1, OpFields
    <2>2. ops' \subseteq Ops /\ UNCHANGED <<held, masters, made, purged, loc, cli>>
      BY <1>1, <1>9, <2>1 DEF Retry, tables, history
    <2> QED BY <1>1, <2>2, TablesKept
  <1>10. CASE Abandon(o)
    <2>1. ops' \subseteq Ops /\ UNCHANGED <<held, masters, made, purged, loc, cli>>
      BY <1>1, <1>10 DEF Abandon, tables, history
    <2> QED BY <1>1, <2>1, TablesKept
  <1> QED BY <1>2, <1>3, <1>4, <1>5, <1>6, <1>7, <1>8, <1>9, <1>10 DEF Request

-----------------------------------------------------------------------------
(* The users file, the command line, restarts and moves *)

LEMMA FileAddOld ==
  ASSUME Inv, NEW n \in Nodes, NEW u
  PROVE  LET has == {r \in masters[n] : r.type = "user" /\ r.name = u}
         IN  (IF has = {} THEN has ELSE {CHOOSE r \in has : \A s \in has : r.id =< s.id}) \subseteq has
  <1> DEFINE has == {r \in masters[n] : r.type = "user" /\ r.name = u}
  <1>1. CASE has = {}
    BY <1>1
  <1>2. CASE has # {}
    <2> DEFINE ids == {r.id : r \in has}
    <2>1. ids \in SUBSET Nat /\ ids # {}
      BY <1>2, MasterFields
    <2>2. PICK i \in ids : \A j \in ids : i <= j
      <3> HIDE DEF ids
      <3> QED BY <2>1, LeastId
    <2>3. \E r \in has : \A s \in has : r.id =< s.id
      BY <2>2
    <2>4. (CHOOSE r \in has : \A s \in has : r.id =< s.id) \in has
      <3> HIDE DEF has
      <3> QED BY <2>3
    <2> QED BY <1>2, <2>4
  <1> QED BY <1>1, <1>2

LEMMA FileAddInv ==
  ASSUME Inv, NEW n \in Nodes, NEW u \in Users, FileAdd(n, u)
  PROVE  Inv'
  <1> DEFINE has == {r \in masters[n] : r.type = "user" /\ r.name = u}
             old == IF has = {} THEN has ELSE {CHOOSE r \in has : \A s \in has : r.id =< s.id}
             T == (masters[n] \ old) \cup {[r EXCEPT !.key = made + 1] : r \in old}
  <1>1. /\ made' = made + 1 /\ held' = held \cup {made + 1} /\ UNCHANGED <<loc, ops, cli, purged>>
        /\ masters' = [masters EXCEPT ![n] = (masters[n] \ old) \cup
               IF old = {} THEN {Row(u, "user", NoGrantor)} ELSE {[r EXCEPT !.key = made + 1] : r \in old}]
    BY DEF FileAdd, history
  <1>2. /\ made \in Nat /\ made + 1 \in Nat \ {0} /\ made <= made + 1 /\ ops \subseteq Ops
        /\ cli \in [Nodes -> SUBSET MasterRows]
    BY DEF Inv, TypeOK
  <1>3. old \subseteq has
    BY FileAddOld
  <1>4. CASE old = {}
    <2> DEFINE row == Row(u, "user", 0)
    <2>1. row \in MasterRows /\ row.id = made + 1 /\ row.by = 0 /\ row.type = "user"
          /\ row.key = made + 1
      BY NewRow DEF Named
    <2>2. masters' = [masters EXCEPT ![n] = @ \cup {row}]
      BY <1>1, <1>4
    <2>3. row.key \in held'
      BY <1>1, <2>1
    <2> HIDE DEF row, old
    <2> QED BY <1>1, <1>2, <2>1, <2>2, <2>3, RowAdded
  <1>5. CASE old # {}
    <2>1. masters' = [masters EXCEPT ![n] = T]
      BY <1>1, <1>5
    <2>2. \A r \in old : r \in masters[n] /\ r.type = "user"
      BY <1>3
    <2> HIDE DEF old, has
    <2>3. \A r \in MasterRows : LET x == [r EXCEPT !.key = made + 1] IN
            /\ x \in MasterRows /\ x.id = r.id /\ x.by = r.by /\ x.type = r.type
            /\ x.key = made + 1
      BY <1>2 DEF MasterRows
    <2>4. T \in SUBSET MasterRows /\ T # {}
      <3>1. PICK r \in old : TRUE
        BY <1>5
      <3>2. [r EXCEPT !.key = made + 1] \in T
        BY <3>1
      <3>3. \A x \in masters[n] : x \in MasterRows
        BY MasterFields
      <3>4. ASSUME NEW x \in T PROVE x \in MasterRows
        <4>1. CASE x \in masters[n]
          BY <3>3, <4>1
        <4>2. CASE x \notin masters[n]
          <5>1. PICK y \in old : x = [y EXCEPT !.key = made + 1]
            BY <4>2
          <5> QED BY <2>2, <2>3, <3>3, <5>1
        <4> QED BY <4>1, <4>2
      <3> HIDE DEF T
      <3> QED BY <3>2, <3>4
    <2>5. ASSUME NEW s \in masters[n] PROVE \E x \in T : x.id = s.id
      <3>1. CASE s \in old
        <4>1. s \in MasterRows
          BY MasterFields
        <4>2. [s EXCEPT !.key = made + 1].id = s.id
          BY <2>3, <4>1
        <4>3. [s EXCEPT !.key = made + 1] \in T
          BY <3>1
        <4> QED BY <4>2, <4>3
      <3>2. CASE s \notin old
        BY <3>2
      <3> QED BY <3>1, <3>2
    <2>6. ASSUME NEW r \in T
          PROVE  /\ r.id <= made'
                 /\ r.by = 0 => r.type = "user" /\ r.key \in held'
                 /\ r.by # 0 => \E s \in T : s.id = r.by /\ s.id < r.id
      <3>1. PICK x \in masters[n] : /\ x.id = r.id /\ x.by = r.by /\ x.type = r.type
                                    /\ (x.key = r.key \/ (r.type = "user" /\ r.key = made + 1))
        <4>1. CASE r \in masters[n]
          BY <4>1
        <4>2. CASE r \notin masters[n]
          <5>1. PICK x \in old : r = [x EXCEPT !.key = made + 1]
            BY <4>2, <2>6
          <5>2. x \in masters[n] /\ x.type = "user" /\ x \in MasterRows
            BY <2>2, <5>1, MasterFields
          <5> QED BY <2>3, <5>1, <5>2
        <4> QED BY <4>1, <4>2
      <3>2. x.id \in Nat /\ x.id <= made /\ (x.by # 0 => \E s \in masters[n] : s.id = x.by /\ s.id < x.id)
        BY MasterFields
      <3>3. x.by # 0 => \E s \in T : s.id = x.by /\ s.id < x.id
        BY <2>5, <3>2
      <3>4. x.by = 0 => x.type = "user" /\ x.key \in held
        BY MasterFields
      <3>5. r.id <= made'
        BY <1>1, <1>2, <3>1, <3>2
      <3> HIDE DEF T
      <3> QED BY <1>1, <3>1, <3>3, <3>4, <3>5
    <2> HIDE DEF T
    <2>7. made' \in Nat /\ made <= made' /\ held \subseteq held' /\ ops' \subseteq Ops
          /\ cli' \in [Nodes -> SUBSET MasterRows]
      BY <1>1, <1>2
    <2> QED BY <1>1, <2>1, <2>4, <2>6, <2>7, TableChanged
  <1> QED BY <1>4, <1>5

LEMMA FileRemoveInv ==
  ASSUME Inv, NEW n \in Nodes, NEW names, FileRemove(n, names)
  PROVE  Inv'
  <1> DEFINE gone == {r \in masters[n] : r.name \in names}
             T == masters[n] \ gone
  <1>1. /\ UNCHANGED <<loc, ops, cli, held, made>> /\ made \in Nat /\ ops \subseteq Ops
        /\ cli \in [Nodes -> SUBSET MasterRows] /\ made <= made /\ loc \in [Nodes -> Addresses]
    BY DEF FileRemove, Inv, TypeOK
  <1>2. CASE \E r \in gone : Grants(n, r)
    <2>1. UNCHANGED <<masters, purged>>
      BY <1>2 DEF FileRemove, history
    <2> QED BY <1>1, <2>1, TablesKept
  <1>3. CASE ~\E r \in gone : Grants(n, r)
    <2>1. masters' = [masters EXCEPT ![n] = T] /\ purged' = purged \cup {n}
      BY <1>3 DEF FileRemove
    <2>2. T \in SUBSET MasterRows
      BY MasterFields
    <2>3. ASSUME NEW r \in T, r.by # 0 PROVE \E s \in T : s.id = r.by /\ s.id < r.id
      BY <1>3, <2>3, MasterFields DEF Grants
    <2>4. \A r \in T : r.id <= made /\ (r.by = 0 => r.type = "user" /\ r.key \in held)
      BY MasterFields
    <2> HIDE DEF T
    <2> QED BY <1>1, <2>1, <2>2, <2>3, <2>4, TableChanged
  <1> QED BY <1>2, <1>3

LEMMA AuthorizeCliInv ==
  ASSUME Inv, NEW n \in Nodes, NEW u \in Users, AuthorizeCli(n, u)
  PROVE  Inv'
  <1> DEFINE row == Row(u, "user", 0)
  <1>1. /\ cli' = [cli EXCEPT ![n] = {row}] /\ made' = made + 1
        /\ UNCHANGED <<masters, loc, ops, held, purged>>
    BY DEF AuthorizeCli, tables, history
  <1>2. row \in MasterRows /\ row.id = made + 1 /\ row.by = 0 /\ row.type = "user"
    BY NewRow DEF Named
  <1>3. made \in Nat /\ cli \in [Nodes -> SUBSET MasterRows]
    BY DEF Inv, TypeOK
  <1>4. \A m \in Nodes : \A r \in masters[m] \cup cli[m] : r.id \in Nat /\ r.id <= made
    BY <1>3, MasterFields DEF Inv, MasterRows
  <1> HIDE DEF row
  <1>5. TypeOK'
    BY <1>1, <1>2, <1>3 DEF Inv, TypeOK
  <1>6. \A m \in Nodes : \A r \in masters[m] \cup cli[m] : r.id <= made'
    BY <1>1, <1>3, <1>4
  <1>7. \A m \in Nodes : Rooted(m)'
    BY <1>1, <1>6 DEF Inv, Rooted
  <1>8. made' <= made'
    BY <1>1, <1>3
  <1>9. \A m \in Nodes : \A r \in cli'[m] : r.by = NoGrantor /\ r.type = "user" /\ r.id <= made'
    BY <1>1, <1>2, <1>3, <1>6, <1>8 DEF Inv
  <1> QED BY <1>1, <1>5, <1>7, <1>9 DEF Inv

LEMMA CommitCliInv ==
  ASSUME Inv, NEW n \in Nodes, CommitCli(n)
  PROVE  Inv'
  <1> DEFINE T == masters[n] \cup cli[n]
  <1>1. /\ masters' = [masters EXCEPT ![n] = T] /\ held' = held \cup {r.key : r \in cli[n]}
        /\ cli' = [cli EXCEPT ![n] = {}] /\ UNCHANGED <<loc, ops, made, purged>> /\ cli[n] # {}
    BY DEF CommitCli, history
  <1>2. /\ made \in Nat /\ ops \subseteq Ops /\ cli \in [Nodes -> SUBSET MasterRows]
        /\ made <= made /\ T \in SUBSET MasterRows
    BY DEF Inv, TypeOK
  <1>3. \A r \in cli[n] : r.by = 0 /\ r.type = "user" /\ r.id <= made /\ r.key \in held'
    BY <1>1 DEF Inv
  <1>4. ASSUME NEW r \in T
        PROVE  /\ r.id <= made'
               /\ r.by = 0 => r.type = "user" /\ r.key \in held'
               /\ r.by # 0 => \E s \in T : s.id = r.by /\ s.id < r.id
    BY <1>1, <1>3, MasterFields
  <1>5. /\ cli' \in [Nodes -> SUBSET MasterRows] /\ \A m \in Nodes : cli'[m] \subseteq cli[m]
        /\ held \subseteq held' /\ T # {}
    BY <1>1, <1>2
  <1> HIDE DEF T
  <1> QED BY <1>1, <1>2, <1>4, <1>5, TableChanged

LEMMA MoveInv ==
  ASSUME Inv, NEW n \in Nodes, NEW a \in Addresses, Move(n, a)
  PROVE  Inv'
  <1>1. \A o \in ops : [o EXCEPT !.solo = @ /\ o.at # n] \in Ops
    BY SoloKept DEF Inv, TypeOK
  <1>2. ops' \subseteq Ops
    BY <1>1 DEF Move
  <1>3. loc' \in [Nodes -> Addresses]
    BY DEF Move, Inv, TypeOK
  <1> QED BY <1>2, <1>3, TablesKept DEF Move, tables

LEMMA RestartInv ==
  ASSUME Inv, NEW n \in Nodes, Restart(n)
  PROVE  Inv'
  <1>1. ASSUME NEW o \in ops
        PROVE  [o EXCEPT !.waiting = @ /\ o.at # n,
                         !.side = IF o.to = n /\ @ \in {"call", "save"} THEN "no" ELSE @] \in Ops
    <2>1. o \in Ops
      BY DEF Inv, TypeOK
    <2>2. (o.waiting /\ o.at # n) \in BOOLEAN
      OBVIOUS
    <2>3. \A b \in BOOLEAN, x \in {"post", "call", "save", "ok", "no"} :
            [o EXCEPT !.waiting = b, !.side = x] \in Ops
      BY <2>1 DEF Ops
    <2>4. (IF o.to = n /\ o.side \in {"call", "save"} THEN "no" ELSE o.side)
            \in {"post", "call", "save", "ok", "no"}
      BY <2>1, OpFields
    <2>5. PICK b \in BOOLEAN : b = (o.waiting /\ o.at # n)
      BY <2>2
    <2>6. PICK x \in {"post", "call", "save", "ok", "no"} :
            x = IF o.to = n /\ o.side \in {"call", "save"} THEN "no" ELSE o.side
      BY <2>4
    <2>7. [o EXCEPT !.waiting = b, !.side = x] \in Ops
      BY <2>3
    <2> QED BY <2>5, <2>6, <2>7
  <1>2. ops' \subseteq Ops
    BY <1>1 DEF Restart
  <1>3. UNCHANGED <<masters, loc, cli, held, made, purged>> /\ loc \in [Nodes -> Addresses]
    BY DEF Restart, tables, history, Inv, TypeOK
  <1> QED BY <1>2, <1>3, TablesKept

LEMMA DeleteFollowerInv ==
  ASSUME Inv, NEW n \in Nodes, NEW f \in followers[n], DeleteFollower(n, f)
  PROVE  Inv'
  <1>1. \A o \in ops : [o EXCEPT !.solo = @ /\ o.to # n] \in Ops
    BY SoloKept DEF Inv, TypeOK
  <1>2. ops' \subseteq Ops
    BY <1>1 DEF DeleteFollower
  <1>3. UNCHANGED <<masters, loc, cli, held, made, purged>> /\ loc \in [Nodes -> Addresses]
    BY DEF DeleteFollower, Inv, TypeOK
  <1> QED BY <1>2, <1>3, TablesKept

-----------------------------------------------------------------------------
(* The theorems *)

LEMMA InvNext == Inv /\ [Next]_vars => Inv'
  <1> SUFFICES ASSUME Inv, [Next]_vars PROVE Inv'
    OBVIOUS
  <1>1. ASSUME NEW n \in Joining, Add(n) PROVE Inv'
    <2>1. n \in Nodes
      OBVIOUS
    <2>2. PICK g \in masters[n] :
            \/ \E u \in Users : AddUser(n, g, u)
            \/ \E to \in Lumens : AddDevice(n, g, to, to)
            \/ \E to \in Nodes \ {n} : \E ident \in {to, Url(to)} : AddDevice(n, g, to, ident)
            \/ \E r \in masters[n] : Delete(n, g, r)
      BY <1>1 DEF Add
    <2>3. ASSUME NEW to \in Lumens, AddDevice(n, g, to, to) PROVE Inv'
      <3>1. to \in Named /\ to \in Nodes \cup Lumens
        BY DEF Named
      <3> QED BY <2>1, <2>3, <3>1, StartInv DEF AddDevice
    <2>4. ASSUME NEW to \in Nodes, NEW ident \in {to, Url(to)}, AddDevice(n, g, to, ident) PROVE Inv'
      <3>1. ident \in Named /\ to \in Nodes \cup Lumens
        BY DEF Named
      <3> QED BY <2>1, <2>4, <3>1, StartInv DEF AddDevice
    <2> QED BY <2>1, <2>2, <2>3, <2>4, AddUserInv, DeleteInv
  <1>2. ASSUME NEW n \in Joining, Local(n) PROVE Inv'
    BY <1>2, FileAddInv, FileRemoveInv, AuthorizeCliInv, CommitCliInv, MoveInv DEF Local
  <1>3. ASSUME NEW o \in ops, Request(o) PROVE Inv'
    BY <1>3, RequestInv
  <1>4. CASE UNCHANGED vars
    BY <1>4 DEF vars, tables, history, Inv, TypeOK, Rooted
  <1> QED BY <1>1, <1>2, <1>3, <1>4, RestartInv, DeleteFollowerInv DEF Next

\* Every row of a master table is a user's own, with a key the user holds, or was
\* let in by an older row that is still there; and no request empties a table
\* (master_controller.py, update_users.py, cli/admin/authorize.py).
THEOREM InvHolds == Spec => []Inv
  BY InvInit, InvNext, PTL DEF Spec

\* The requests of masters never lock a node's users out, for any number of
\* nodes, Lumen servers and users and however many requests are under way, lost or
\* repeated (master_controller.py:214).
THEOREM UsersKeepTheNode == Spec => []NotLockedOut
  BY InvHolds, InvNotLockedOut, PTL

-----------------------------------------------------------------------------
(* What a grant that was reported rests on *)

FollowerRows == [name : Nodes, key : Nat \ {0}, loc : Addresses]

\* No request under way can take the place of node n, with key k, in the list of m:
\* those of n itself carry the same key from the same address, those of the others
\* come from other addresses.
Undisputed(n, m, k) ==
    \A p \in ops : p.to = m =>
        /\ p.at = n => p.key = k /\ p.loc \in {0, loc[n]}
        /\ p.at # n => p.loc # loc[n]

\* m lists n where it is, with that key.
Listed(n, m, k) == \E f \in followers[m] : f.key = k /\ f.loc = loc[n]

\* n has a row with that key, and it is not a user's.
Opens(n, k) == \E r \in masters[n] : r.key = k /\ r.type # "user"

GrantInv ==
    /\ followers \in [Nodes -> SUBSET FollowerRows]
    /\ granted \subseteq Nodes \X Nodes \X (Nat \ {0})
    /\ \A a, b \in Nodes : loc[a] = loc[b] => a = b
    /\ \A o \in ops : /\ o.key <= made
                      /\ o.side \in {"call", "save"} => o.to \in Nodes /\ o.loc # 0
    /\ \A n \in Nodes : \A r \in masters[n] \cup cli[n] :
          r.key <= made /\ (r.type = "user" => \A o \in ops : o.key # r.key)
    /\ \A o \in ops : o.solo =>
          /\ Undisputed(o.at, o.to, o.key)
          /\ o.side = "ok" /\ o.to \in Nodes => Listed(o.at, o.to, o.key)
    /\ \A t \in granted :
          Undisputed(t[1], t[2], t[3]) /\ Listed(t[1], t[2], t[3]) /\ Opens(t[1], t[3])

LEMMA GrantWorksFollows == GrantInv => GrantWorks
  BY DEF GrantInv, GrantWorks, Listed, Opens, Keys

LEMMA GrantInit == Init => GrantInv
  <1> SUFFICES ASSUME Init PROVE GrantInv
    OBVIOUS
  <1>1. Inv
    BY InvInit
  <1>2. \A a, b \in Nodes : loc[a] = loc[b] => a = b
    BY PlacedApart DEF Init
  <1>3. \A n \in Nodes : cli[n] = {} /\ \A r \in masters[n] : r.key <= made
    <2> DEFINE first == CHOOSE f \in [Nodes -> 1 .. Cardinality(Nodes)] : IsInjective(f)
    <2>1. first \in [Nodes -> 1..made] /\ made \in Nat
      BY Installed DEF Init
    <2>2. \A n \in Nodes : \A r \in masters[n] : r.key = first[n]
      BY DEF Init
    <2>3. \A n \in Nodes : cli[n] = {}
      BY DEF Init
    <2> HIDE DEF first
    <2> QED BY <2>1, <2>2, <2>3
  <1> QED BY <1>1, <1>2, <1>3 DEF Init, GrantInv

\* q is what a step makes of the request p.
Heir(q, p) ==
    /\ q.at = p.at /\ q.to = p.to /\ q.key = p.key
    /\ q.loc \in {0, p.loc, loc[p.at]}
    /\ q.solo => p.solo

LEMMA StillUndisputed ==
  ASSUME Inv, GrantInv, NEW n \in Nodes, NEW m, NEW k, Undisputed(n, m, k), loc'[n] = loc[n],
         \A q \in ops' : \E p \in ops : Heir(q, p)
  PROVE  Undisputed(n, m, k)'
  <1>1. SUFFICES ASSUME NEW q \in ops', q.to = m
                 PROVE  /\ q.at = n => q.key = k /\ q.loc \in {0, loc[n]}
                        /\ q.at # n => q.loc # loc[n]
    BY DEF Undisputed
  <1>2. PICK p \in ops : Heir(q, p)
    OBVIOUS
  <1>3. p.at \in Nodes /\ loc[n] \in Addresses /\ loc[p.at] \in Addresses
    BY OpFields DEF Inv, TypeOK
  <1>4. loc[p.at] = loc[n] => p.at = n
    BY <1>3 DEF GrantInv
  <1>5. /\ p.at = n => p.key = k /\ p.loc \in {0, loc[n]}
        /\ p.at # n => p.loc # loc[n]
    BY <1>1, <1>2 DEF Undisputed, Heir
  <1> QED BY <1>2, <1>3, <1>4, <1>5 DEF Heir

\* Every step but the start of an addition.
LEMMA GrantStep ==
  ASSUME Inv, Inv', GrantInv, made <= made',
         followers' \in [Nodes -> SUBSET FollowerRows],
         \A a, b \in Nodes : loc'[a] = loc'[b] => a = b,
         \A q \in ops' : /\ \E p \in ops : Heir(q, p)
                         /\ q.side \in {"call", "save"} => q.to \in Nodes /\ q.loc # 0
                         /\ q.solo => loc'[q.at] = loc[q.at]
                         /\ q.solo /\ q.side = "ok" /\ q.to \in Nodes => Listed(q.at, q.to, q.key)',
         \A n \in Nodes : \A r \in masters'[n] \cup cli'[n] :
            r.key <= made' /\ (r.type = "user" => \A o \in ops : o.key # r.key),
         \A t \in granted' :
            /\ \/ t \in granted
               \/ \E o \in ops : o.solo /\ o.to \in Nodes /\ t = <<o.at, o.to, o.key>>
            /\ loc'[t[1]] = loc[t[1]]
            /\ Listed(t[1], t[2], t[3])' /\ Opens(t[1], t[3])'
  PROVE  GrantInv'
  <1>1. /\ ops \subseteq Ops /\ ops' \subseteq Ops /\ made \in Nat /\ made' \in Nat
    BY DEF Inv, TypeOK
  <1>2. \A o \in ops : o.at \in Nodes /\ o.key \in Nat \ {0} /\ o.key <= made
    BY <1>1, OpFields DEF GrantInv
  <1>3. granted' \subseteq Nodes \X Nodes \X (Nat \ {0})
    <2> SUFFICES ASSUME NEW t \in granted' PROVE t \in Nodes \X Nodes \X (Nat \ {0})
      OBVIOUS
    <2>1. CASE t \in granted
      BY <2>1 DEF GrantInv
    <2>2. CASE \E o \in ops : o.solo /\ o.to \in Nodes /\ t = <<o.at, o.to, o.key>>
      BY <1>2, <2>2
    <2> QED BY <2>1, <2>2
  <1>4. \A q \in ops' : q.key <= made'
    <2> SUFFICES ASSUME NEW q \in ops' PROVE q.key <= made'
      OBVIOUS
    <2>1. PICK p \in ops : q.key = p.key
      BY DEF Heir
    <2> QED BY <1>1, <1>2, <2>1
  <1>5. \A n \in Nodes : \A r \in masters'[n] \cup cli'[n] :
           r.key <= made' /\ (r.type = "user" => \A o \in ops' : o.key # r.key)
    BY DEF Heir
  <1>6. ASSUME NEW q \in ops', q.solo PROVE Undisputed(q.at, q.to, q.key)'
    <2>1. PICK p \in ops : Heir(q, p)
      OBVIOUS
    <2>2. p.solo /\ p.at \in Nodes /\ q.at = p.at /\ q.to = p.to /\ q.key = p.key
      BY <1>2, <1>6, <2>1 DEF Heir
    <2>3. Undisputed(p.at, p.to, p.key)
      BY <2>2 DEF GrantInv
    <2>4. loc'[p.at] = loc[p.at]
      BY <1>6, <2>2
    <2>5. PICK n \in Nodes : \E m, k : n = p.at /\ m = p.to /\ k = p.key
      BY <2>2
    <2> PICK m, k : n = p.at /\ m = p.to /\ k = p.key
      BY <2>5
    <2>6. Undisputed(n, m, k)'
      BY <2>3, <2>4, StillUndisputed
    <2>7. n = q.at /\ m = q.to /\ k = q.key
      BY <2>2
    <2> QED BY <2>6, <2>7 DEF Undisputed
  <1>7. ASSUME NEW t \in granted' PROVE Undisputed(t[1], t[2], t[3])'
    <2>1. t[1] \in Nodes /\ Undisputed(t[1], t[2], t[3])
      <3>1. CASE t \in granted
        BY <3>1 DEF GrantInv
      <3>2. CASE \E o \in ops : o.solo /\ o.to \in Nodes /\ t = <<o.at, o.to, o.key>>
        <4>1. PICK o \in ops : o.solo /\ t[1] = o.at /\ t[2] = o.to /\ t[3] = o.key
          BY <3>2
        <4> QED BY <1>2, <4>1 DEF GrantInv
      <3> QED BY <3>1, <3>2
    <2> QED BY <2>1, StillUndisputed
  <1> QED BY <1>3, <1>4, <1>5, <1>6, <1>7 DEF GrantInv

\* A step of the tables of masters.
LEMMA GrantTables ==
  ASSUME Inv, Inv', GrantInv, made <= made', UNCHANGED <<followers, ops, loc>>,
         \A n \in Nodes : \A r \in masters'[n] \cup cli'[n] :
            r \in masters[n] \cup cli[n] \/ (r.key = made + 1 /\ r.key <= made'),
         \A t \in granted' : t \in granted /\ Opens(t[1], t[3])'
  PROVE  GrantInv'
  <1>1. made \in Nat /\ made' \in Nat /\ \A o \in ops : o.key \in Nat /\ o.key <= made
    BY OpFields DEF Inv, TypeOK, GrantInv
  <1>2. ASSUME NEW n \in Nodes, NEW r \in masters'[n] \cup cli'[n]
        PROVE  r.key <= made' /\ (r.type = "user" => \A o \in ops : o.key # r.key)
    <2>1. CASE r \in masters[n] \cup cli[n]
      <3>1. r.key \in Nat /\ r.key <= made
        BY <2>1 DEF GrantInv, Inv, TypeOK, MasterRows
      <3> QED BY <1>1, <2>1, <3>1 DEF GrantInv
    <2>2. CASE r.key = made + 1 /\ r.key <= made'
      BY <1>1, <2>2
    <2> QED BY <1>2, <2>1, <2>2
  <1>3. \A q \in ops' : \E p \in ops : Heir(q, p)
    BY DEF Heir
  <1>4. \A q \in ops' : /\ q.side \in {"call", "save"} => q.to \in Nodes /\ q.loc # 0
                        /\ q.solo /\ q.side = "ok" /\ q.to \in Nodes => Listed(q.at, q.to, q.key)'
    BY DEF GrantInv, Listed
  <1>5. \A t \in granted : Listed(t[1], t[2], t[3])'
    BY DEF GrantInv, Listed
  <1>6. followers' \in [Nodes -> SUBSET FollowerRows] /\ \A a, b \in Nodes : loc'[a] = loc'[b] => a = b
    BY DEF GrantInv
  <1> QED BY <1>2, <1>3, <1>4, <1>5, <1>6, GrantStep

-----------------------------------------------------------------------------
(* The steps that change a table of masters *)

LEMMA OpensMore ==
  ASSUME NEW n \in Nodes, NEW k, Opens(n, k), masters[n] \subseteq masters'[n]
  PROVE  Opens(n, k)'
  BY DEF Opens

\* The rows a step deletes take with them what was granted by them.
LEMMA OpensWithout ==
  ASSUME GrantInv, NEW n \in Nodes, NEW rows, NEW t \in Without(rows),
         masters \in [Nodes -> SUBSET MasterRows],
         masters' = [masters EXCEPT ![n] = @ \ rows]
  PROVE  t \in granted /\ Opens(t[1], t[3])'
  <1>1. t \in granted /\ t[3] \notin {r.key : r \in rows}
    BY DEF Without
  <1>2. t[1] \in Nodes /\ Opens(t[1], t[3])
    BY <1>1 DEF GrantInv
  <1>3. PICK r \in masters[t[1]] : r.key = t[3] /\ r.type # "user"
    BY <1>2 DEF Opens
  <1>4. r \notin rows
    BY <1>1, <1>3
  <1>5. r \in masters'[t[1]]
    BY <1>2, <1>3, <1>4
  <1> QED BY <1>1, <1>3, <1>5 DEF Opens

LEMMA AddUserGrant ==
  ASSUME Inv, Inv', GrantInv, NEW n \in Nodes, NEW g \in masters[n], NEW u \in Users, AddUser(n, g, u)
  PROVE  GrantInv'
  <1>1. /\ masters' = [masters EXCEPT ![n] = @ \cup {Row(u, "user", g.id)}] /\ made' = made + 1
        /\ UNCHANGED <<followers, loc, ops, cli, granted>>
    BY DEF AddUser, history
  <1>2. made \in Nat /\ masters \in [Nodes -> SUBSET MasterRows]
    BY DEF Inv, TypeOK
  <1>3. Row(u, "user", g.id).key = made + 1 /\ made <= made' /\ made + 1 <= made'
    BY <1>1, <1>2 DEF Row
  <1>4. \A m \in Nodes : masters[m] \subseteq masters'[m]
    BY <1>1, <1>2
  <1>5. \A t \in granted' : t \in granted /\ t[1] \in Nodes /\ Opens(t[1], t[3])
    BY <1>1 DEF GrantInv
  <1>6. \A t \in granted' : t \in granted /\ Opens(t[1], t[3])'
    BY <1>4, <1>5, OpensMore
  <1>7. \A m \in Nodes : \A r \in masters'[m] \cup cli'[m] :
            r \in masters[m] \cup cli[m] \/ (r.key = made + 1 /\ r.key <= made')
    BY <1>1, <1>2, <1>3
  <1> QED BY <1>1, <1>3, <1>6, <1>7, GrantTables

LEMMA CliGrant ==
  ASSUME Inv, Inv', GrantInv, NEW n \in Nodes,
         CommitCli(n) \/ \E u \in Users : AuthorizeCli(n, u)
  PROVE  GrantInv'
  <1>1. /\ UNCHANGED <<followers, loc, ops, granted>>
        /\ made \in Nat /\ masters \in [Nodes -> SUBSET MasterRows]
        /\ cli \in [Nodes -> SUBSET MasterRows]
    BY DEF CommitCli, AuthorizeCli, tables, history, Inv, TypeOK
  <1>2. made <= made' /\ \A m \in Nodes : masters[m] \subseteq masters'[m]
    BY <1>1 DEF CommitCli, AuthorizeCli, tables
  <1>3. \A m \in Nodes : \A r \in masters'[m] \cup cli'[m] :
            r \in masters[m] \cup cli[m] \/ (r.key = made + 1 /\ r.key <= made')
    <2>1. CASE CommitCli(n)
      BY <1>1, <2>1 DEF CommitCli
    <2>2. ASSUME NEW u \in Users, AuthorizeCli(n, u),
                 NEW m \in Nodes, NEW r \in masters'[m] \cup cli'[m]
          PROVE  r \in masters[m] \cup cli[m] \/ (r.key = made + 1 /\ r.key <= made')
      <3>1. /\ masters' = masters /\ cli' = [cli EXCEPT ![n] = {Row(u, "user", NoGrantor)}]
            /\ made' = made + 1
        BY <2>2 DEF AuthorizeCli, tables
      <3>2. Row(u, "user", NoGrantor).key = made + 1 /\ made + 1 <= made'
        BY <1>1, <3>1 DEF Row
      <3> QED BY <1>1, <2>2, <3>1, <3>2
    <2> QED BY <2>1, <2>2
  <1>4. \A t \in granted' : t \in granted /\ t[1] \in Nodes /\ Opens(t[1], t[3])
    BY <1>1 DEF GrantInv
  <1>5. \A t \in granted' : t \in granted /\ Opens(t[1], t[3])'
    BY <1>2, <1>4, OpensMore
  <1> QED BY <1>1, <1>2, <1>3, <1>5, GrantTables

LEMMA DeleteGrant ==
  ASSUME Inv, Inv', GrantInv, NEW n \in Nodes, NEW g \in masters[n], NEW r \in masters[n],
         Delete(n, g, r)
  PROVE  GrantInv'
  <1>1. /\ masters' = [masters EXCEPT ![n] = @ \ {r}] /\ granted' = Without({r})
        /\ UNCHANGED <<followers, loc, ops, cli, made>>
    BY DEF Delete
  <1>2. made \in Nat /\ masters \in [Nodes -> SUBSET MasterRows] /\ made <= made
    BY DEF Inv, TypeOK
  <1>3. \A t \in granted' : t \in granted /\ Opens(t[1], t[3])'
    BY <1>1, <1>2, OpensWithout
  <1>4. \A m \in Nodes : masters'[m] \cup cli'[m] \subseteq masters[m] \cup cli[m]
    BY <1>1, <1>2
  <1> QED BY <1>1, <1>2, <1>3, <1>4, GrantTables

LEMMA FileRemoveGrant ==
  ASSUME Inv, Inv', GrantInv, NEW n \in Nodes, NEW names, FileRemove(n, names)
  PROVE  GrantInv'
  <1> DEFINE gone == {r \in masters[n] : r.name \in names}
  <1>1. /\ UNCHANGED <<followers, loc, ops, cli, made>> /\ made \in Nat /\ made <= made
        /\ masters \in [Nodes -> SUBSET MasterRows]
    BY DEF FileRemove, Inv, TypeOK
  <1>2. CASE \E r \in gone : Grants(n, r)
    <2>1. UNCHANGED <<masters, granted>>
      BY <1>2 DEF FileRemove, history
    <2>2. \A t \in granted' : t \in granted /\ Opens(t[1], t[3])'
      BY <2>1 DEF GrantInv, Opens
    <2> QED BY <1>1, <2>1, <2>2, GrantTables
  <1>3. CASE ~\E r \in gone : Grants(n, r)
    <2>1. masters' = [masters EXCEPT ![n] = @ \ gone] /\ granted' = Without(gone)
      BY <1>3 DEF FileRemove
    <2> HIDE DEF gone
    <2>2. \A t \in granted' : t \in granted /\ Opens(t[1], t[3])'
      BY <1>1, <2>1, OpensWithout
    <2>3. \A m \in Nodes : masters'[m] \cup cli'[m] \subseteq masters[m] \cup cli[m]
      BY <1>1, <2>1
    <2> QED BY <1>1, <2>2, <2>3, GrantTables
  <1> QED BY <1>2, <1>3

\* Another key for a user is no business of the devices.
LEMMA FileAddGrant ==
  ASSUME Inv, Inv', GrantInv, NEW n \in Nodes, NEW u \in Users, FileAdd(n, u)
  PROVE  GrantInv'
  <1>1. PICK old, new :
           /\ masters' = [masters EXCEPT ![n] = (@ \ old) \cup new]
           /\ old = {} \/ \A r \in old : r \in masters[n] /\ r.type = "user"
           /\ \A r \in new : r.key = made + 1
    <2> DEFINE has == {r \in masters[n] : r.type = "user" /\ r.name = u}
               old == IF has = {} THEN has ELSE {CHOOSE r \in has : \A s \in has : r.id =< s.id}
               new == IF old = {} THEN {Row(u, "user", NoGrantor)} ELSE {[r EXCEPT !.key = made + 1] : r \in old}
    <2>1. masters' = [masters EXCEPT ![n] = (@ \ old) \cup new]
      BY DEF FileAdd
    <2>2. old \subseteq has
      BY FileAddOld
    <2>3. \A r \in old : r \in MasterRows
      BY <2>2, MasterFields
    <2> HIDE DEF old
    <2>4. \A r \in new : r.key = made + 1
      <3>1. Row(u, "user", NoGrantor).key = made + 1
        BY DEF Row
      <3>2. \A r \in MasterRows : [r EXCEPT !.key = made + 1].key = made + 1
        BY DEF MasterRows
      <3> QED BY <2>3, <3>1, <3>2
    <2>5. old = {} \/ \A r \in old : r \in masters[n] /\ r.type = "user"
      BY <2>2
    <2> HIDE DEF new, has
    <2> QED BY <2>1, <2>4, <2>5
  <1>2. UNCHANGED <<followers, loc, ops, cli, granted>> /\ made' = made + 1
    BY DEF FileAdd, history
  <1>3. made \in Nat /\ masters \in [Nodes -> SUBSET MasterRows]
    BY DEF Inv, TypeOK
  <1>4. made <= made' /\ made + 1 <= made'
    BY <1>2, <1>3
  <1>5. \A m \in Nodes : \A r \in masters'[m] \cup cli'[m] :
            r \in masters[m] \cup cli[m] \/ (r.key = made + 1 /\ r.key <= made')
    BY <1>1, <1>2, <1>3, <1>4
  <1>6. ASSUME NEW t \in granted' PROVE t \in granted /\ Opens(t[1], t[3])'
    <2>1. t \in granted /\ t[1] \in Nodes /\ Opens(t[1], t[3])
      BY <1>2 DEF GrantInv
    <2>2. PICK r \in masters[t[1]] : r.key = t[3] /\ r.type # "user"
      BY <2>1 DEF Opens
    <2>3. r \in masters'[t[1]]
      BY <1>1, <1>3, <2>1, <2>2
    <2> QED BY <2>1, <2>2, <2>3 DEF Opens
  <1> QED BY <1>2, <1>4, <1>5, <1>6, GrantTables

-----------------------------------------------------------------------------
(* The steps of the requests *)

LEMMA HeirSame == ASSUME NEW p PROVE Heir(p, p)
  BY DEF Heir

\* Requests go on, are repeated, answered or forgotten.
LEMMA GrantOps ==
  ASSUME Inv, Inv', GrantInv, UNCHANGED <<masters, cli, loc, made, granted, followers>>,
         \A q \in ops' : /\ \E p \in ops : /\ Heir(q, p)
                                           /\ q.side = "ok" /\ q.to \in Nodes => p.side = "ok"
                         /\ q.side \in {"call", "save"} => q.to \in Nodes /\ q.loc # 0
  PROVE  GrantInv'
  <1>1. made <= made'
    BY DEF Inv, TypeOK
  <1>2. \A q \in ops' : q.solo /\ q.side = "ok" /\ q.to \in Nodes => Listed(q.at, q.to, q.key)'
    BY DEF GrantInv, Listed, Heir
  <1>3. \A t \in granted' : t \in granted /\ Listed(t[1], t[2], t[3])' /\ Opens(t[1], t[3])'
    BY DEF GrantInv, Listed, Opens
  <1>4. /\ followers' \in [Nodes -> SUBSET FollowerRows]
        /\ \A a, b \in Nodes : loc'[a] = loc'[b] => a = b
        /\ \A n \in Nodes : \A r \in masters'[n] \cup cli'[n] :
            r.key <= made' /\ (r.type = "user" => \A o \in ops : o.key # r.key)
    BY DEF GrantInv
  <1>5. \A q \in ops' : \E p \in ops : Heir(q, p)
    OBVIOUS
  <1> QED BY <1>1, <1>2, <1>3, <1>4, <1>5, GrantStep

LEMMA OpChanges ==
  ASSUME NEW o \in Ops
  PROVE  /\ \A b \in BOOLEAN : LET q == [o EXCEPT !.waiting = b] IN
               /\ q.at = o.at /\ q.to = o.to /\ q.key = o.key /\ q.loc = o.loc /\ q.solo = o.solo
               /\ q.side = o.side
         /\ \A x : LET q == [o EXCEPT !.side = x] IN
               /\ q.at = o.at /\ q.to = o.to /\ q.key = o.key /\ q.loc = o.loc /\ q.solo = o.solo
               /\ q.side = x
         /\ \A x, a : LET q == [o EXCEPT !.side = x, !.loc = a] IN
               /\ q.at = o.at /\ q.to = o.to /\ q.key = o.key /\ q.loc = a /\ q.solo = o.solo
               /\ q.side = x
         /\ \A b : LET q == [o EXCEPT !.solo = b] IN
               /\ q.at = o.at /\ q.to = o.to /\ q.key = o.key /\ q.loc = o.loc /\ q.solo = b
               /\ q.side = o.side
         /\ \A b, x : LET q == [o EXCEPT !.waiting = b, !.side = x] IN
               /\ q.at = o.at /\ q.to = o.to /\ q.key = o.key /\ q.loc = o.loc /\ q.solo = o.solo
               /\ q.side = x
  BY DEF Ops

\* A request is replaced by what became of it.
LEMMA GrantReplace ==
  ASSUME Inv, Inv', GrantInv, UNCHANGED <<masters, cli, loc, made, granted, followers>>,
         NEW o \in ops, NEW new, ops' \subseteq (ops \ {o}) \cup new,
         \A q \in new : /\ Heir(q, o)
                        /\ q.side = "ok" /\ q.to \in Nodes => o.side = "ok"
                        /\ q.side \in {"call", "save"} => q.to \in Nodes /\ q.loc # 0
  PROVE  GrantInv'
  <1>1. ASSUME NEW q \in ops'
        PROVE  /\ \E p \in ops : /\ Heir(q, p)
                                 /\ q.side = "ok" /\ q.to \in Nodes => p.side = "ok"
               /\ q.side \in {"call", "save"} => q.to \in Nodes /\ q.loc # 0
    <2>1. CASE q \in ops
      BY <2>1, HeirSame DEF GrantInv
    <2>2. CASE q \in new
      BY <2>2
    <2> QED BY <1>1, <2>1, <2>2
  <1> QED BY <1>1, GrantOps

LEMMA ArriveGrant ==
  ASSUME Inv, Inv', GrantInv, NEW o \in ops, Arrive(o)
  PROVE  GrantInv'
  <1>1. o \in Ops /\ o.to \in Nodes /\ o.at \in Nodes /\ loc[o.at] \in Addresses
    BY OpFields DEF Arrive, Inv, TypeOK
  <1> DEFINE q == [o EXCEPT !.side = "call", !.loc = loc[o.at]]
  <1>2. /\ Heir(q, o) /\ q.side = "call" /\ q.to \in Nodes /\ q.loc # 0
    BY <1>1, OpChanges DEF Heir
  <1>3. ops' = (ops \ {o}) \cup {q} /\ UNCHANGED <<masters, cli, loc, made, granted, followers>>
    BY DEF Arrive, tables, history
  <1> HIDE DEF q
  <1> DEFINE new == {q}
  <1>4. ops' \subseteq (ops \ {o}) \cup new
    BY <1>3
  <1>5. \A x \in new : /\ Heir(x, o)
                       /\ x.side = "ok" /\ x.to \in Nodes => o.side = "ok"
                       /\ x.side \in {"call", "save"} => x.to \in Nodes /\ x.loc # 0
    BY <1>2
  <1> HIDE DEF new
  <1> QED BY <1>3, <1>4, <1>5, GrantReplace

LEMMA CallbackGrant ==
  ASSUME Inv, Inv', GrantInv, NEW o \in ops, Callback(o)
  PROVE  GrantInv'
  <1>1. o \in Ops /\ o.to \in Nodes /\ o.loc # 0
    BY DEF Callback, Inv, TypeOK, GrantInv
  <1>2. PICK y \in {"save", "no"} : ops' = (ops \ {o}) \cup {[o EXCEPT !.side = y]}
    BY DEF Callback
  <1> DEFINE q == [o EXCEPT !.side = y]
  <1>3. Heir(q, o) /\ q.side # "ok" /\ q.to \in Nodes /\ q.loc # 0
    BY <1>1, OpChanges DEF Heir
  <1>4. ops' = (ops \ {o}) \cup {q} /\ UNCHANGED <<masters, cli, loc, made, granted, followers>>
    BY <1>2 DEF Callback, tables, history
  <1> HIDE DEF q
  <1> DEFINE new == {q}
  <1>5. ops' \subseteq (ops \ {o}) \cup new
    BY <1>4
  <1>6. \A x \in new : /\ Heir(x, o)
                       /\ x.side = "ok" /\ x.to \in Nodes => o.side = "ok"
                       /\ x.side \in {"call", "save"} => x.to \in Nodes /\ x.loc # 0
    BY <1>3
  <1> HIDE DEF new
  <1> QED BY <1>4, <1>5, <1>6, GrantReplace

LEMMA LumenGrant ==
  ASSUME Inv, Inv', GrantInv, NEW o \in ops, NEW answer \in {"ok", "no"}, LumenAnswer(o, answer)
  PROVE  GrantInv'
  <1>1. o \in Ops /\ o.to \notin Nodes
    BY DEF LumenAnswer, Inv, TypeOK
  <1> DEFINE q == [o EXCEPT !.side = answer]
  <1>2. Heir(q, o) /\ q.side \notin {"call", "save"} /\ q.to \notin Nodes
    BY <1>1, OpChanges DEF Heir
  <1>3. ops' = (ops \ {o}) \cup {q} /\ UNCHANGED <<masters, cli, loc, made, granted, followers>>
    BY DEF LumenAnswer, tables, history
  <1> HIDE DEF q
  <1> DEFINE new == {q}
  <1>4. ops' \subseteq (ops \ {o}) \cup new
    BY <1>3
  <1>5. \A x \in new : /\ Heir(x, o)
                       /\ x.side = "ok" /\ x.to \in Nodes => o.side = "ok"
                       /\ x.side \in {"call", "save"} => x.to \in Nodes /\ x.loc # 0
    BY <1>2
  <1> HIDE DEF new
  <1> QED BY <1>3, <1>4, <1>5, GrantReplace

LEMMA RetryGrant ==
  ASSUME Inv, Inv', GrantInv, NEW o \in ops, Retry(o) \/ Abandon(o) \/ Forget(o)
  PROVE  GrantInv'
  <1>1. o \in Ops
    BY DEF Inv, TypeOK
  <1> DEFINE q == [o EXCEPT !.waiting = FALSE]
             r == [o EXCEPT !.side = "post", !.loc = 0]
  <1>2. /\ Heir(q, o) /\ q.side = o.side /\ q.to = o.to /\ q.loc = o.loc
        /\ Heir(r, o) /\ r.side = "post"
    BY <1>1, OpChanges DEF Heir
  <1>3. /\ ops' \subseteq (ops \ {o}) \cup {q, r}
        /\ UNCHANGED <<masters, cli, loc, made, granted, followers>>
    BY DEF Retry, Abandon, Forget, tables, history
  <1> HIDE DEF q, r
  <1> DEFINE new == {q, r}
  <1>4. \A x \in new : /\ Heir(x, o)
                       /\ x.side = "ok" /\ x.to \in Nodes => o.side = "ok"
                       /\ x.side \in {"call", "save"} => x.to \in Nodes /\ x.loc # 0
    BY <1>2 DEF GrantInv
  <1>5. ops' \subseteq (ops \ {o}) \cup new
    BY <1>3
  <1> HIDE DEF new
  <1> QED BY <1>3, <1>4, <1>5, GrantReplace

LEMMA RestartGrant ==
  ASSUME Inv, Inv', GrantInv, NEW n \in Nodes, Restart(n)
  PROVE  GrantInv'
  <1>1. UNCHANGED <<masters, cli, loc, made, granted, followers>>
    BY DEF Restart, tables, history
  <1>2. ASSUME NEW q \in ops'
        PROVE  /\ \E p \in ops : /\ Heir(q, p)
                                 /\ q.side = "ok" /\ q.to \in Nodes => p.side = "ok"
               /\ q.side \in {"call", "save"} => q.to \in Nodes /\ q.loc # 0
    <2>1. PICK p \in ops : q = [p EXCEPT !.waiting = p.waiting /\ p.at # n,
             !.side = IF p.to = n /\ p.side \in {"call", "save"} THEN "no" ELSE p.side]
      BY DEF Restart
    <2>2. PICK b, x : /\ q = [p EXCEPT !.waiting = b, !.side = x]
                      /\ x = "no" \/ x = p.side
      BY <2>1
    <2>3. p \in Ops
      BY DEF Inv, TypeOK
    <2>4. /\ q.at = p.at /\ q.to = p.to /\ q.key = p.key /\ q.loc = p.loc /\ q.solo = p.solo
          /\ q.side = "no" \/ q.side = p.side
      BY <2>2, <2>3, OpChanges
    <2> QED BY <2>4 DEF Heir, GrantInv
  <1> QED BY <1>1, <1>2, GrantOps

\* A node that moves is not followed any more.
LEMMA MoveGrant ==
  ASSUME Inv, Inv', GrantInv, NEW n \in Nodes, NEW a \in Addresses, Move(n, a)
  PROVE  GrantInv'
  <1>1. /\ \A m \in Nodes : loc[m] # a
        /\ loc' = [loc EXCEPT ![n] = a] /\ UNCHANGED <<masters, cli, made, followers>>
        /\ granted' = {t \in granted : t[1] # n}
    BY DEF Move, tables
  <1>2. made <= made' /\ loc \in [Nodes -> Addresses]
    BY <1>1 DEF Inv, TypeOK
  <1>3. loc'[n] = a /\ \A m \in Nodes \ {n} : loc'[m] = loc[m]
    BY <1>1, <1>2
  <1>4. \A x, y \in Nodes : loc'[x] = loc'[y] => x = y
    BY <1>1, <1>3 DEF GrantInv
  <1>5. ASSUME NEW q \in ops'
        PROVE  /\ \E p \in ops : Heir(q, p)
               /\ q.side \in {"call", "save"} => q.to \in Nodes /\ q.loc # 0
               /\ q.solo => loc'[q.at] = loc[q.at]
               /\ q.solo /\ q.side = "ok" /\ q.to \in Nodes => Listed(q.at, q.to, q.key)'
    <2>1. PICK p \in ops : q = [p EXCEPT !.solo = p.solo /\ p.at # n]
      BY DEF Move
    <2>2. PICK b : q = [p EXCEPT !.solo = b] /\ b = (p.solo /\ p.at # n)
      BY <2>1
    <2>3. p \in Ops /\ p.at \in Nodes
      BY OpFields DEF Inv, TypeOK
    <2>4. /\ q.at = p.at /\ q.to = p.to /\ q.key = p.key /\ q.loc = p.loc
          /\ q.side = p.side /\ q.solo = b
      BY <2>2, <2>3, OpChanges
    <2>5. q.solo => p.solo /\ p.at # n
      BY <2>2, <2>4
    <2>6. Heir(q, p)
      BY <2>4, <2>5 DEF Heir
    <2>7. q.side \in {"call", "save"} => q.to \in Nodes /\ q.loc # 0
      BY <2>4 DEF GrantInv
    <2>8. q.solo => loc'[q.at] = loc[q.at]
      BY <1>3, <2>3, <2>4, <2>5
    <2>9. ASSUME q.solo, q.side = "ok", q.to \in Nodes PROVE Listed(q.at, q.to, q.key)'
      <3>1. Listed(p.at, p.to, p.key)
        BY <2>4, <2>5, <2>9 DEF GrantInv
      <3> QED BY <1>1, <2>4, <2>8, <2>9, <3>1 DEF Listed
    <2> QED BY <2>6, <2>7, <2>8, <2>9
  <1>6. ASSUME NEW t \in granted'
        PROVE  /\ t \in granted /\ loc'[t[1]] = loc[t[1]]
               /\ Listed(t[1], t[2], t[3])' /\ Opens(t[1], t[3])'
    <2>1. t \in granted /\ t[1] # n
      BY <1>1
    <2>2. t[1] \in Nodes /\ Listed(t[1], t[2], t[3]) /\ Opens(t[1], t[3])
      BY <2>1 DEF GrantInv
    <2>3. loc'[t[1]] = loc[t[1]]
      BY <1>3, <2>1, <2>2
    <2> QED BY <1>1, <2>1, <2>2, <2>3 DEF Listed, Opens
  <1>7. /\ followers' \in [Nodes -> SUBSET FollowerRows]
        /\ \A m \in Nodes : \A r \in masters'[m] \cup cli'[m] :
            r.key <= made' /\ (r.type = "user" => \A o \in ops : o.key # r.key)
    BY <1>1 DEF GrantInv
  <1> QED BY <1>2, <1>4, <1>5, <1>6, <1>7, GrantStep

LEMMA DeleteFollowerGrant ==
  ASSUME Inv, Inv', GrantInv, NEW m \in Nodes, NEW f \in followers[m], DeleteFollower(m, f)
  PROVE  GrantInv'
  <1>1. /\ followers' = [followers EXCEPT ![m] = {}] /\ UNCHANGED <<masters, cli, made, loc>>
        /\ granted' = {t \in granted : t[2] # m}
    BY DEF DeleteFollower
  <1>2. /\ made <= made' /\ followers' \in [Nodes -> SUBSET FollowerRows]
        /\ \A x \in Nodes \ {m} : followers'[x] = followers[x]
    BY <1>1 DEF Inv, TypeOK, GrantInv
  <1>3. ASSUME NEW q \in ops'
        PROVE  /\ \E p \in ops : Heir(q, p)
               /\ q.side \in {"call", "save"} => q.to \in Nodes /\ q.loc # 0
               /\ q.solo => loc'[q.at] = loc[q.at]
               /\ q.solo /\ q.side = "ok" /\ q.to \in Nodes => Listed(q.at, q.to, q.key)'
    <2>1. PICK p \in ops : q = [p EXCEPT !.solo = p.solo /\ p.to # m]
      BY DEF DeleteFollower
    <2>2. PICK b : q = [p EXCEPT !.solo = b] /\ b = (p.solo /\ p.to # m)
      BY <2>1
    <2>3. p \in Ops
      BY DEF Inv, TypeOK
    <2>4. /\ q.at = p.at /\ q.to = p.to /\ q.key = p.key /\ q.loc = p.loc
          /\ q.side = p.side /\ q.solo = b
      BY <2>2, <2>3, OpChanges
    <2>5. q.solo => p.solo /\ p.to # m
      BY <2>2, <2>4
    <2>6. Heir(q, p)
      BY <2>4, <2>5 DEF Heir
    <2>7. q.side \in {"call", "save"} => q.to \in Nodes /\ q.loc # 0
      BY <2>4 DEF GrantInv
    <2>8. ASSUME q.solo, q.side = "ok", q.to \in Nodes PROVE Listed(q.at, q.to, q.key)'
      <3>1. Listed(p.at, p.to, p.key)
        BY <2>4, <2>5, <2>8 DEF GrantInv
      <3>2. followers'[q.to] = followers[p.to]
        BY <1>2, <2>4, <2>5, <2>8
      <3> QED BY <1>1, <2>4, <3>1, <3>2 DEF Listed
    <2> QED BY <1>1, <2>6, <2>7, <2>8
  <1>4. ASSUME NEW t \in granted'
        PROVE  /\ t \in granted /\ loc'[t[1]] = loc[t[1]]
               /\ Listed(t[1], t[2], t[3])' /\ Opens(t[1], t[3])'
    <2>1. t \in granted /\ t[2] # m
      BY <1>1
    <2>2. t[2] \in Nodes /\ Listed(t[1], t[2], t[3]) /\ Opens(t[1], t[3])
      BY <2>1 DEF GrantInv
    <2>3. followers'[t[2]] = followers[t[2]]
      BY <1>2, <2>1, <2>2
    <2> QED BY <1>1, <2>1, <2>2, <2>3 DEF Listed, Opens
  <1>5. /\ \A x, y \in Nodes : loc'[x] = loc'[y] => x = y
        /\ \A n \in Nodes : \A r \in masters'[n] \cup cli'[n] :
            r.key <= made' /\ (r.type = "user" => \A o \in ops : o.key # r.key)
    BY <1>1 DEF GrantInv
  <1> QED BY <1>2, <1>3, <1>4, <1>5, GrantStep

LEMMA SaveGrant ==
  ASSUME Inv, Inv', GrantInv, NEW o \in ops, Save(o)
  PROVE  GrantInv'
  <1> DEFINE others == {f \in followers[o.to] : f.loc # o.loc}
             clash == \E f \in others : f.name = o.at \/ f.key = o.key
             row == [name |-> o.at, key |-> o.key, loc |-> o.loc]
  <1>1. /\ o \in Ops /\ o.to \in Nodes /\ o.at \in Nodes /\ o.loc # 0 /\ o.loc \in Addresses
        /\ o.key \in Nat \ {0} /\ UNCHANGED <<masters, cli, loc, made, granted>>
    BY OpFields DEF Save, Inv, TypeOK, GrantInv, history
  <1>2. CASE clash
    <2> DEFINE q == [o EXCEPT !.side = "no"]
               new == {q}
    <2>1. ops' \subseteq (ops \ {o}) \cup new /\ followers' = followers
      BY <1>2 DEF Save
    <2>2. Heir(q, o) /\ q.side = "no"
      BY <1>1, OpChanges DEF Heir
    <2> HIDE DEF q
    <2>3. \A x \in new : /\ Heir(x, o)
                         /\ x.side = "ok" /\ x.to \in Nodes => o.side = "ok"
                         /\ x.side \in {"call", "save"} => x.to \in Nodes /\ x.loc # 0
      BY <2>2
    <2> HIDE DEF new
    <2> QED BY <1>1, <2>1, <2>3, GrantReplace
  <1>3. CASE ~clash
    <2> DEFINE q == [o EXCEPT !.side = "ok"]
    <2>1. ops' = (ops \ {o}) \cup {q} /\ followers' = [followers EXCEPT ![o.to] = others \cup {row}]
      BY <1>3 DEF Save
    <2>2. /\ row \in FollowerRows /\ row.key = o.key /\ row.loc = o.loc
          /\ followers \in [Nodes -> SUBSET FollowerRows]
      BY <1>1 DEF FollowerRows, GrantInv
    <2>3. /\ followers' \in [Nodes -> SUBSET FollowerRows]
          /\ followers'[o.to] = others \cup {row}
          /\ \A m \in Nodes \ {o.to} : followers'[m] = followers[m]
      <3> HIDE DEF row
      <3>1. others \cup {row} \in SUBSET FollowerRows
        BY <1>1, <2>2
      <3> HIDE DEF others
      <3> QED BY <1>1, <2>1, <2>2, <3>1
    <2> HIDE DEF row
    <2>4. ASSUME NEW n \in Nodes, NEW m \in Nodes, NEW k, Undisputed(n, m, k), Listed(n, m, k)
          PROVE  Listed(n, m, k)'
      <3>1. CASE m # o.to
        BY <1>1, <2>3, <2>4, <3>1 DEF Listed
      <3>2. CASE m = o.to /\ o.at = n
        <4>1. o.key = k /\ o.loc = loc[n]
          BY <1>1, <2>4, <3>2 DEF Undisputed
        <4> QED BY <1>1, <2>2, <2>3, <3>2, <4>1 DEF Listed
      <3>3. CASE m = o.to /\ o.at # n
        <4>1. o.loc # loc[n]
          BY <2>4, <3>3 DEF Undisputed
        <4>2. PICK f \in followers[m] : f.key = k /\ f.loc = loc[n]
          BY <2>4 DEF Listed
        <4>3. f \in followers'[m]
          BY <2>3, <3>3, <4>1, <4>2
        <4> QED BY <1>1, <4>2, <4>3 DEF Listed
      <3> QED BY <3>1, <3>2, <3>3
    <2>5. /\ Heir(q, o) /\ q.side = "ok" /\ q.at = o.at /\ q.to = o.to /\ q.key = o.key
          /\ q.solo = o.solo
      BY <1>1, OpChanges DEF Heir
    <2>6. ASSUME q.solo PROVE Listed(q.at, q.to, q.key)'
      <3>1. Undisputed(o.at, o.to, o.key)
        BY <2>5, <2>6 DEF GrantInv
      <3>2. o.loc = loc[o.at]
        BY <1>1, <3>1 DEF Undisputed
      <3> QED BY <1>1, <2>2, <2>3, <2>5, <3>2 DEF Listed
    <2> HIDE DEF q
    <2>7. ASSUME NEW x \in ops'
          PROVE  /\ \E p \in ops : Heir(x, p)
                 /\ x.side \in {"call", "save"} => x.to \in Nodes /\ x.loc # 0
                 /\ x.solo => loc'[x.at] = loc[x.at]
                 /\ x.solo /\ x.side = "ok" /\ x.to \in Nodes => Listed(x.at, x.to, x.key)'
      <3>1. CASE x \in ops
        <4>1. x.at \in Nodes
          BY <3>1, OpFields DEF Inv, TypeOK
        <4>2. x.solo /\ x.side = "ok" /\ x.to \in Nodes =>
                Undisputed(x.at, x.to, x.key) /\ Listed(x.at, x.to, x.key)
          BY <3>1 DEF GrantInv
        <4>3. x.solo /\ x.side = "ok" /\ x.to \in Nodes => Listed(x.at, x.to, x.key)'
          BY <2>4, <4>1, <4>2
        <4>4. x.side \in {"call", "save"} => x.to \in Nodes /\ x.loc # 0
          BY <3>1 DEF GrantInv
        <4> QED BY <1>1, <3>1, <4>3, <4>4, HeirSame
      <3>2. CASE x = q
        BY <1>1, <2>5, <2>6, <3>2
      <3> QED BY <2>1, <2>7, <3>1, <3>2
    <2>8. ASSUME NEW t \in granted'
          PROVE  /\ t \in granted /\ loc'[t[1]] = loc[t[1]]
                 /\ Listed(t[1], t[2], t[3])' /\ Opens(t[1], t[3])'
      <3>1. /\ t \in granted /\ t[1] \in Nodes /\ t[2] \in Nodes
            /\ Undisputed(t[1], t[2], t[3]) /\ Listed(t[1], t[2], t[3]) /\ Opens(t[1], t[3])
        BY <1>1 DEF GrantInv
      <3>2. Listed(t[1], t[2], t[3])'
        BY <2>4, <3>1
      <3> QED BY <1>1, <3>1, <3>2 DEF Opens
    <2>9. /\ \A x, y \in Nodes : loc'[x] = loc'[y] => x = y
          /\ \A n \in Nodes : \A r \in masters'[n] \cup cli'[n] :
              r.key <= made' /\ (r.type = "user" => \A p \in ops : p.key # r.key)
          /\ made <= made'
      BY <1>1 DEF GrantInv, Inv, TypeOK
    <2> QED BY <2>3, <2>7, <2>8, <2>9, GrantStep
  <1> QED BY <1>2, <1>3

\* The row that is settled is the device's own; the rows it replaces take their
\* grants with them.
LEMMA FinishGrant ==
  ASSUME Inv, Inv', GrantInv, NEW o \in ops, NEW ok \in BOOLEAN, ok => o.side = "ok",
         NEW rest, \A q \in rest : Heir(q, o) /\ q.side = o.side /\ q.loc = o.loc,
         Finish(o, ok, rest)
  PROVE  GrantInv'
  <1> DEFINE n == o.at
             name == IF ok /\ o.to \in Nodes THEN o.to ELSE o.ident
             mine == {r \in masters[n] : r.key = o.key}
             old == {r \in masters[n] : r.name = name /\ \E my \in mine : r.type = my.type}
             fails == mine = {} \/ \E r \in old : Grants(n, r)
             my == CHOOSE r \in mine : TRUE
             new == [my EXCEPT !.name = name]
             T == {r \in masters[n] \ {my} : ~(r.type = my.type /\ r.name = name)} \cup {new}
  <1>1. /\ UNCHANGED <<followers, loc, cli, made>> /\ ops' = (ops \ {o}) \cup rest
        /\ made <= made /\ made \in Nat /\ masters \in [Nodes -> SUBSET MasterRows]
    BY DEF Finish, Inv, TypeOK
  <1>2. o \in Ops /\ n \in Nodes
    BY OpFields DEF Inv, TypeOK
  <1>3. ASSUME NEW q \in ops'
        PROVE  /\ \E p \in ops : Heir(q, p)
               /\ q.side \in {"call", "save"} => q.to \in Nodes /\ q.loc # 0
               /\ q.solo => loc'[q.at] = loc[q.at]
               /\ q.solo /\ q.side = "ok" /\ q.to \in Nodes => Listed(q.at, q.to, q.key)'
    <2>1. PICK p \in ops : Heir(q, p) /\ q.side = p.side /\ q.loc = p.loc
      BY <1>1, HeirSame
    <2>2. q.solo /\ q.side = "ok" /\ q.to \in Nodes => Listed(p.at, p.to, p.key)
      BY <2>1 DEF Heir, GrantInv
    <2>3. q.at = p.at /\ q.to = p.to /\ q.key = p.key
      BY <2>1 DEF Heir
    <2>4. q.side \in {"call", "save"} => q.to \in Nodes /\ q.loc # 0
      BY <2>1, <2>3 DEF GrantInv
    <2> QED BY <1>1, <2>1, <2>2, <2>3, <2>4 DEF Listed
  <1>4. /\ \A x, y \in Nodes : loc'[x] = loc'[y] => x = y
        /\ followers' \in [Nodes -> SUBSET FollowerRows] /\ made <= made'
    BY <1>1 DEF GrantInv
  <1>5. CASE fails
    <2>1. masters' = masters /\ granted' = granted
      BY <1>5 DEF Finish
    <2>2. \A t \in granted' : /\ t \in granted /\ loc'[t[1]] = loc[t[1]]
                              /\ Listed(t[1], t[2], t[3])' /\ Opens(t[1], t[3])'
      BY <1>1, <2>1 DEF GrantInv, Listed, Opens
    <2>3. \A m \in Nodes : \A r \in masters'[m] \cup cli'[m] :
            r.key <= made' /\ (r.type = "user" => \A p \in ops : p.key # r.key)
      BY <1>1, <2>1 DEF GrantInv
    <2> QED BY <1>3, <1>4, <2>2, <2>3, GrantStep
  <1>6. CASE ~fails
    <2>1. /\ masters' = [masters EXCEPT ![n] = T]
          /\ granted' = Without(old) \cup
               IF ok /\ o.solo /\ o.to \in Nodes THEN {<<n, o.to, o.key>>} ELSE {}
      BY <1>6 DEF Finish, Settle
    <2>2. my \in masters[n] /\ my \in mine
      BY <1>6
    <2>3. /\ my.key = o.key /\ my.type # "user" /\ my \in MasterRows
      BY <1>2, <2>2, MasterFields DEF GrantInv
    <2>4. new.type = my.type /\ new.key = my.key
      <3> HIDE DEF my, name
      <3> QED BY <2>3 DEF MasterRows
    <2>5. \A r \in masters[n] : r.type = my.type /\ r.name = name => r \in old
      BY <2>2
    <2> HIDE DEF name, mine, old, my, new, n
    <2>6. masters'[n] = T /\ \A m \in Nodes \ {n} : masters'[m] = masters[m]
      BY <1>1, <1>2, <2>1
    <2>7. \A m \in Nodes : \A r \in masters'[m] \cup cli'[m] :
            r.key <= made' /\ (r.type = "user" => \A p \in ops : p.key # r.key)
      <3>1. ASSUME NEW m \in Nodes, NEW r \in masters'[m] \cup cli'[m]
            PROVE  \E x \in masters[m] \cup cli[m] : x.key = r.key /\ x.type = r.type
        <4>1. CASE m = n
          BY <1>1, <2>2, <2>4, <2>6, <3>1, <4>1
        <4>2. CASE m # n
          BY <1>1, <2>6, <3>1, <4>2
        <4> QED BY <4>1, <4>2
      <3> HIDE DEF T
      <3> QED BY <1>1, <3>1 DEF GrantInv
    <2>8. ASSUME NEW t \in Without(old)
          PROVE  /\ t \in granted /\ loc'[t[1]] = loc[t[1]]
                 /\ Listed(t[1], t[2], t[3])' /\ Opens(t[1], t[3])'
      <3>1. t \in granted /\ t[3] \notin {r.key : r \in old}
        BY <2>8 DEF Without
      <3>2. t[1] \in Nodes /\ Listed(t[1], t[2], t[3]) /\ Opens(t[1], t[3])
        BY <3>1 DEF GrantInv
      <3>3. PICK r \in masters[t[1]] : r.key = t[3] /\ r.type # "user"
        BY <3>2 DEF Opens
      <3>4. r \notin old
        BY <3>1, <3>3
      <3>5. \E x \in masters'[t[1]] : x.key = r.key /\ x.type = r.type
        <4>1. CASE t[1] # n
          BY <2>6, <3>2, <3>3, <4>1
        <4>2. CASE t[1] = n /\ r = my
          BY <2>4, <2>6, <4>2
        <4>3. CASE t[1] = n /\ r # my
          BY <2>5, <2>6, <3>3, <3>4, <4>3
        <4> QED BY <4>1, <4>2, <4>3
      <3> HIDE DEF T
      <3> QED BY <1>1, <3>1, <3>2, <3>3, <3>5 DEF Listed, Opens
    <2>9. ASSUME ok, o.solo, o.to \in Nodes PROVE Listed(n, o.to, o.key)' /\ Opens(n, o.key)'
      <3>1. Listed(o.at, o.to, o.key)
        BY <2>9 DEF GrantInv
      <3>2. Listed(n, o.to, o.key)'
        BY <1>1, <3>1 DEF Listed, n
      <3>3. Opens(n, o.key)'
        BY <2>3, <2>4, <2>6 DEF Opens
      <3> QED BY <3>2, <3>3
    <2> HIDE DEF T
    <2>10. ASSUME NEW t \in granted'
           PROVE  /\ \/ t \in granted
                     \/ \E p \in ops : p.solo /\ p.to \in Nodes /\ t = <<p.at, p.to, p.key>>
                  /\ loc'[t[1]] = loc[t[1]]
                  /\ Listed(t[1], t[2], t[3])' /\ Opens(t[1], t[3])'
      <3>1. CASE t \in Without(old)
        BY <2>8, <3>1
      <3>2. CASE t \notin Without(old)
        <4>1. ok /\ o.solo /\ o.to \in Nodes /\ t = <<n, o.to, o.key>>
          BY <2>1, <3>2
        <4>2. t[1] = n /\ t[2] = o.to /\ t[3] = o.key /\ t = <<o.at, o.to, o.key>>
          BY <4>1 DEF n
        <4>3. Listed(n, o.to, o.key)' /\ Opens(n, o.key)'
          BY <2>9, <4>1
        <4> QED BY <1>1, <4>1, <4>2, <4>3
      <3> QED BY <3>1, <3>2
    <2> QED BY <1>3, <1>4, <2>7, <2>10, GrantStep
  <1> QED BY <1>5, <1>6

\* An addition starts: it disputes what was granted between the same two nodes, and
\* is itself followed only when nothing under way disputes it.
LEMMA StartGrant ==
  ASSUME Inv, Inv', GrantInv, NEW n \in Nodes, NEW to \in Nodes \cup Lumens, NEW ident, NEW by,
         Start(n, to, ident, by)
  PROVE  GrantInv'
  <1> DEFINE row == Row(Pending, IF to \in Nodes THEN "joule" ELSE "lumen", by)
             free == ~\E o \in ops : o.to = to /\ (o.at = n \/ o.loc = loc[n])
             new == [at |-> n, to |-> to, ident |-> ident, key |-> made', side |-> "post",
                     loc |-> 0, waiting |-> TRUE, solo |-> free]
  <1>1. /\ masters' = [masters EXCEPT ![n] = @ \cup {row}] /\ made' = made + 1
        /\ ops' = {[o EXCEPT !.solo = @ /\ <<o.at, o.to>> # <<n, to>>] : o \in ops} \cup {new}
        /\ granted' = {t \in granted : <<t[1], t[2]>> # <<n, to>>}
        /\ UNCHANGED <<followers, loc, cli>>
    BY DEF Start
  <1>2. /\ made \in Nat /\ masters \in [Nodes -> SUBSET MasterRows] /\ loc \in [Nodes -> Addresses]
        /\ cli \in [Nodes -> SUBSET MasterRows] /\ ops \subseteq Ops
    BY DEF Inv, TypeOK
  <1>3. /\ new.at = n /\ new.to = to /\ new.key = made + 1 /\ new.side = "post" /\ new.loc = 0
        /\ new.solo = free
    BY <1>1
  <1>4. row.key = made + 1 /\ row.type # "user"
    BY DEF Row
  <1> HIDE DEF new, row
  <1>5. ASSUME NEW q \in ops', q # new
        PROVE  \E p \in ops : /\ q.at = p.at /\ q.to = p.to /\ q.key = p.key /\ q.loc = p.loc
                              /\ q.side = p.side
                              /\ q.solo => p.solo /\ ~(p.at = n /\ p.to = to)
    <2>1. PICK p \in ops : q = [p EXCEPT !.solo = p.solo /\ <<p.at, p.to>> # <<n, to>>]
      BY <1>1, <1>5
    <2>2. PICK b : q = [p EXCEPT !.solo = b] /\ b = (p.solo /\ <<p.at, p.to>> # <<n, to>>)
      BY <2>1
    <2>3. /\ q.at = p.at /\ q.to = p.to /\ q.key = p.key /\ q.loc = p.loc
          /\ q.side = p.side /\ q.solo = b
      BY <1>2, <2>2, OpChanges
    <2>4. q.solo => p.solo /\ ~(p.at = n /\ p.to = to)
      BY <2>2, <2>3
    <2> QED BY <2>3, <2>4
  <1>6. ASSUME NEW a \in Nodes, NEW m, NEW k, Undisputed(a, m, k), ~(a = n /\ m = to)
        PROVE  Undisputed(a, m, k)'
    <2> SUFFICES ASSUME NEW q \in ops', q.to = m
                 PROVE  /\ q.at = a => q.key = k /\ q.loc \in {0, loc[a]}
                        /\ q.at # a => q.loc # loc[a]
      BY <1>1 DEF Undisputed
    <2>1. CASE q = new
      BY <1>2, <1>3, <1>6, <2>1
    <2>2. CASE q # new
      <3>1. PICK p \in ops : q.at = p.at /\ q.to = p.to /\ q.key = p.key /\ q.loc = p.loc
        BY <1>5, <2>2
      <3> QED BY <1>6, <3>1 DEF Undisputed
    <2> QED BY <2>1, <2>2
  <1>7. ASSUME NEW k, k = made + 1, free PROVE Undisputed(n, to, k)'
    <2> SUFFICES ASSUME NEW q \in ops', q.to = to
                 PROVE  /\ q.at = n => q.key = k /\ q.loc \in {0, loc[n]}
                        /\ q.at # n => q.loc # loc[n]
      BY <1>1 DEF Undisputed
    <2>1. CASE q = new
      BY <1>3, <1>7, <2>1
    <2>2. CASE q # new
      <3>1. PICK p \in ops : q.at = p.at /\ q.to = p.to /\ q.key = p.key /\ q.loc = p.loc
        BY <1>5, <2>2
      <3> QED BY <1>7, <3>1
    <2> QED BY <2>1, <2>2
  <1> HIDE DEF free
  <1>8. \A o \in ops : o.at \in Nodes /\ o.key \in Nat /\ o.key <= made
    BY <1>2, OpFields DEF GrantInv
  <1>9. ASSUME NEW q \in ops'
        PROVE  /\ q.key <= made'
               /\ q.side \in {"call", "save"} => q.to \in Nodes /\ q.loc # 0
               /\ q.solo => Undisputed(q.at, q.to, q.key)'
               /\ q.solo /\ q.side = "ok" /\ q.to \in Nodes => Listed(q.at, q.to, q.key)'
    <2>1. CASE q = new
      <3>1. q.key <= made' /\ q.side = "post" /\ q.key = made + 1 /\ q.at = n /\ q.to = to
        BY <1>1, <1>2, <1>3, <2>1
      <3>2. q.solo => Undisputed(q.at, q.to, q.key)'
        <4>1. PICK k : k = made + 1
          OBVIOUS
        <4>2. q.solo => Undisputed(n, to, k)'
          BY <1>3, <1>7, <2>1, <4>1
        <4> QED BY <3>1, <4>1, <4>2 DEF Undisputed
      <3> QED BY <3>1, <3>2
    <2>2. CASE q # new
      <3>1. PICK p \in ops : /\ q.at = p.at /\ q.to = p.to /\ q.key = p.key /\ q.loc = p.loc
                             /\ q.side = p.side
                             /\ q.solo => p.solo /\ ~(p.at = n /\ p.to = to)
        BY <1>5, <2>2
      <3>2. q.key <= made'
        BY <1>1, <1>2, <1>8, <3>1
      <3>3. q.side \in {"call", "save"} => q.to \in Nodes /\ q.loc # 0
        BY <3>1 DEF GrantInv
      <3>4. ASSUME q.solo PROVE Undisputed(q.at, q.to, q.key)'
        <4>1. Undisputed(p.at, p.to, p.key) /\ ~(p.at = n /\ p.to = to)
          BY <3>1, <3>4 DEF GrantInv
        <4>2. PICK a \in Nodes : a = p.at
          BY <1>8
        <4>3. PICK m, k : m = p.to /\ k = p.key
          OBVIOUS
        <4>4. Undisputed(a, m, k)'
          BY <1>6, <4>1, <4>2, <4>3
        <4>5. a = q.at /\ m = q.to /\ k = q.key
          BY <3>1, <4>2, <4>3
        <4> QED BY <4>4, <4>5 DEF Undisputed
      <3>5. ASSUME q.solo, q.side = "ok", q.to \in Nodes PROVE Listed(q.at, q.to, q.key)'
        <4>1. Listed(p.at, p.to, p.key)
          BY <3>1, <3>5 DEF GrantInv
        <4> QED BY <1>1, <3>1, <4>1 DEF Listed
      <3> QED BY <3>2, <3>3, <3>4, <3>5
    <2> QED BY <2>1, <2>2
  <1>10. ASSUME NEW t \in granted'
         PROVE  Undisputed(t[1], t[2], t[3])' /\ Listed(t[1], t[2], t[3])' /\ Opens(t[1], t[3])'
    <2>1. t \in granted /\ ~(t[1] = n /\ t[2] = to)
      BY <1>1
    <2>2. /\ t[1] \in Nodes /\ Undisputed(t[1], t[2], t[3]) /\ Listed(t[1], t[2], t[3])
          /\ Opens(t[1], t[3])
      BY <2>1 DEF GrantInv
    <2>3. Undisputed(t[1], t[2], t[3])'
      BY <1>6, <2>1, <2>2
    <2>4. masters[t[1]] \subseteq masters'[t[1]]
      BY <1>1, <1>2, <2>2
    <2>5. Opens(t[1], t[3])'
      BY <2>2, <2>4, OpensMore
    <2> QED BY <1>1, <2>2, <2>3, <2>5 DEF Listed
  <1>11. ASSUME NEW m \in Nodes, NEW r \in masters'[m] \cup cli'[m]
         PROVE  r.key <= made' /\ (r.type = "user" => \A o \in ops' : o.key # r.key)
    <2>1. CASE r \in masters[m] \cup cli[m]
      <3>1. r.key \in Nat /\ r.key <= made /\ (r.type = "user" => \A o \in ops : o.key # r.key)
        BY <1>2, <2>1 DEF GrantInv, MasterRows
      <3>2. r.key <= made' /\ r.key # made + 1
        BY <1>1, <1>2, <3>1
      <3> QED BY <1>3, <1>5, <3>1, <3>2
    <2>2. CASE r = row
      BY <1>1, <1>2, <1>4, <2>2
    <2> QED BY <1>1, <1>2, <1>11, <2>1, <2>2
  <1>12. /\ followers' \in [Nodes -> SUBSET FollowerRows]
         /\ granted' \subseteq Nodes \X Nodes \X (Nat \ {0})
         /\ \A a, b \in Nodes : loc'[a] = loc'[b] => a = b
    BY <1>1 DEF GrantInv
  <1> QED BY <1>9, <1>10, <1>11, <1>12 DEF GrantInv

LEMMA RequestGrant ==
  ASSUME Inv, Inv', GrantInv, NEW o \in ops, Request(o)
  PROVE  GrantInv'
  <1>1. o \in Ops
    BY DEF Inv, TypeOK
  <1>2. CASE Answer(o)
    <2>1. (o.side = "ok") \in BOOLEAN /\ \A q \in {} : Heir(q, o) /\ q.side = o.side /\ q.loc = o.loc
      OBVIOUS
    <2> QED BY <1>2, <2>1, FinishGrant DEF Answer
  <1>3. CASE Fail(o)
    <2> DEFINE q == [o EXCEPT !.waiting = FALSE]
    <2>1. Heir(q, o) /\ q.side = o.side /\ q.loc = o.loc
      BY <1>1, OpChanges DEF Heir
    <2>2. PICK rest \in {{}, {q}} : Finish(o, FALSE, rest)
      BY <1>3 DEF Fail
    <2> HIDE DEF q
    <2>3. \A x \in rest : Heir(x, o) /\ x.side = o.side /\ x.loc = o.loc
      BY <2>1, <2>2
    <2> QED BY <2>2, <2>3, FinishGrant
  <1> QED BY <1>2, <1>3, ArriveGrant, CallbackGrant, SaveGrant, LumenGrant, RetryGrant DEF Request

LEMMA GrantNext == Inv /\ Inv' /\ GrantInv /\ [Next]_vars => GrantInv'
  <1> SUFFICES ASSUME Inv, Inv', GrantInv, [Next]_vars PROVE GrantInv'
    OBVIOUS
  <1>1. ASSUME NEW n \in Joining, Add(n) PROVE GrantInv'
    <2>1. n \in Nodes
      OBVIOUS
    <2>2. PICK g \in masters[n] :
            \/ \E u \in Users : AddUser(n, g, u)
            \/ \E to \in Lumens : AddDevice(n, g, to, to)
            \/ \E to \in Nodes \ {n} : \E ident \in {to, Url(to)} : AddDevice(n, g, to, ident)
            \/ \E r \in masters[n] : Delete(n, g, r)
      BY <1>1 DEF Add
    <2>3. ASSUME NEW to \in Nodes \cup Lumens, NEW ident, AddDevice(n, g, to, ident) PROVE GrantInv'
      BY <2>1, <2>3, StartGrant DEF AddDevice
    <2> QED BY <2>1, <2>2, <2>3, AddUserGrant, DeleteGrant
  <1>2. ASSUME NEW n \in Joining, Local(n) PROVE GrantInv'
    BY <1>2, FileAddGrant, FileRemoveGrant, CliGrant, MoveGrant DEF Local
  <1>3. CASE UNCHANGED vars
    BY <1>3 DEF vars, tables, history, GrantInv, Undisputed, Listed, Opens
  <1> QED BY <1>1, <1>2, <1>3, RequestGrant, RestartGrant, DeleteFollowerGrant DEF Next

\* A grant that was reported works until one of its rows is deleted, the master is
\* added again or the node moves: whatever requests are lost, repeated or late, no
\* request under way can take its place in the other node's list
\* (master_controller.py:102-119, follower_controller.py:47-60).
THEOREM GrantsHold == Spec => []GrantWorks
  <1>1. Inv /\ GrantInv /\ [Next]_vars => (Inv /\ GrantInv)'
    BY InvNext, GrantNext
  <1> QED BY InvInit, GrantInit, <1>1, GrantWorksFollows, PTL DEF Spec
===============================================================================
