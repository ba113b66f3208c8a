----------------------------- MODULE MetadataProof -----------------------------
(***************************************************************************)
(* Proofs about Metadata for every set of folders, streams and names: the  *)
(* folders never form a cycle, a path names one thing, what is locked      *)
(* keeps its path, and a delete that nothing overlaps leaves a whole tree. *)
(***************************************************************************)
EXTENDS Metadata, SequenceTheorems, TLAPS

\* A parent or a folder that may stand in a row.
Places0 == Folders \cup {Null, Gone, New}

\* Nothing refers to a row that does not exist, and the way up ends.
TreeOK(p, fn, h, sn) ==
    /\ p \in [Folders -> Places0] /\ fn \in [Folders -> Names]
    /\ h \in [Streams -> Places0] /\ sn \in [Streams -> Names]
    /\ \A f \in Folders : p[f] \in Folders => p[p[f]] \notin {New, Gone}
    /\ \A s \in Streams : h[s] \in Folders => p[h[s]] \notin {New, Gone}
    /\ \A S \in SUBSET Folders : S # {} => \E f \in S : p[f] \notin S

\* Paths are unique once the objects in x are gone.
Unique(p, fn, h, sn, x) ==
    /\ \A f, g \in Folders \ x :
          f # g /\ p[f] \in Folders \ x /\ p[f] = p[g] => fn[f] # fn[g]
    /\ \A s, t \in Streams \ x :
          s # t /\ h[s] \in Folders \ x /\ h[s] = h[t] /\ sn[s] = sn[t] => Id[s] = Id[t]

Inv == TreeOK(parent, fname, home, sname) /\ Unique(parent, fname, home, sname, {})

LEMMA Sorts ==
  /\ \A f \in Folders : f \notin {Null, Gone, New, None}
  /\ \A s \in Streams : s \notin {Null, Gone, New, None}
  /\ \A f \in Folders : f \notin Streams
  /\ Null # Gone /\ Null # New /\ Gone # New
  /\ Root \in Folders /\ NoName \in Names
  <1>1. NoName \in Names
    BY MetadataSorts DEF NoName
  <1> QED BY <1>1, MetadataConstants, MetadataSorts DEF Null, Gone, New, None

-----------------------------------------------------------------------------
(* What a commit leaves *)

LEMMA CommitTree ==
  ASSUME Inv, NEW p, NEW fn, NEW h, NEW sn, NEW d, NEW x, Commit(p, fn, h, sn, d, x),
         TreeOK(p, fn, h, sn), Unique(p, fn, h, sn, x)
  PROVE  Inv'
  <1>1. CASE Stranded(h, x)
    <2>1. UNCHANGED <<parent, fname, home, sname>>
      BY <1>1 DEF Commit, meta
    <2> QED BY <2>1 DEF Inv, TreeOK, Unique
  <1>2. CASE ~Stranded(h, x)
    <2>1. /\ parent' = [f \in Folders |-> CASE f \in x -> Gone
                                            [] f \notin x /\ p[f] \in x -> Null
                                            [] OTHER -> p[f]]
          /\ fname' = [f \in Folders |-> IF f \in x THEN NoName ELSE fn[f]]
          /\ home' = [s \in Streams |-> CASE s \in x -> Gone
                                          [] s \notin x /\ h[s] \in x -> Null
                                          [] OTHER -> h[s]]
          /\ sname' = [s \in Streams |-> IF s \in x THEN NoName ELSE sn[s]]
      BY <1>2 DEF Commit
    <2>2. \A f \in Folders : /\ f \in x => parent'[f] = Gone
                             /\ f \notin x /\ p[f] \in x => parent'[f] = Null
                             /\ f \notin x /\ p[f] \notin x => parent'[f] = p[f]
      BY <2>1
    <2>3. \A s \in Streams : /\ s \in x => home'[s] = Gone
                             /\ s \notin x /\ h[s] \in x => home'[s] = Null
                             /\ s \notin x /\ h[s] \notin x => home'[s] = h[s]
      BY <2>1
    <2>4. /\ \A f \in Folders : parent'[f] \in Folders =>
                 f \notin x /\ p[f] \notin x /\ parent'[f] = p[f]
          /\ \A s \in Streams : home'[s] \in Folders =>
                 s \notin x /\ h[s] \notin x /\ home'[s] = h[s]
      BY <2>2, <2>3, Sorts
    <2>5. /\ parent' \in [Folders -> Places0] /\ fname' \in [Folders -> Names]
          /\ home' \in [Streams -> Places0] /\ sname' \in [Streams -> Names]
      <3>1. \A f \in Folders : parent'[f] \in Places0
        BY <2>2 DEF TreeOK, Places0
      <3>2. \A s \in Streams : home'[s] \in Places0
        BY <2>3 DEF TreeOK, Places0
      <3>3. \A f \in Folders : fname'[f] \in Names
        BY <2>1, Sorts DEF TreeOK
      <3>4. \A s \in Streams : sname'[s] \in Names
        BY <2>1, Sorts DEF TreeOK
      <3>5. /\ DOMAIN parent' = Folders /\ DOMAIN fname' = Folders
            /\ DOMAIN home' = Streams /\ DOMAIN sname' = Streams
        BY <2>1
      <3> QED BY <2>1, <3>1, <3>2, <3>3, <3>4, <3>5
    <2>6. \A f \in Folders : f \notin x /\ p[f] \notin {New, Gone} => parent'[f] \notin {New, Gone}
      BY <2>2, Sorts
    <2>7. \A f \in Folders : parent'[f] \in Folders => parent'[parent'[f]] \notin {New, Gone}
      BY <2>4, <2>6 DEF TreeOK
    <2>8. \A s \in Streams : home'[s] \in Folders => parent'[home'[s]] \notin {New, Gone}
      BY <2>4, <2>6 DEF TreeOK
    <2>9. ASSUME NEW S \in SUBSET Folders, S # {} PROVE \E f \in S : parent'[f] \notin S
      BY <2>4, <2>9 DEF TreeOK
    <2>10. TreeOK(parent, fname, home, sname)'
      BY <2>5, <2>7, <2>8, <2>9 DEF TreeOK
    <2>11. ASSUME NEW f \in Folders, NEW g \in Folders, f # g, parent'[f] \in Folders,
                  parent'[f] = parent'[g]
           PROVE  fname'[f] # fname'[g]
      <3>1. /\ f \notin x /\ g \notin x /\ p[f] \in Folders \ x /\ p[f] = p[g]
        BY <2>4, <2>11
      <3>2. fname'[f] = fn[f] /\ fname'[g] = fn[g]
        BY <2>1, <3>1
      <3> QED BY <2>11, <3>1, <3>2 DEF Unique
    <2>12. ASSUME NEW s \in Streams, NEW t \in Streams, s # t, home'[s] \in Folders,
                  home'[s] = home'[t], sname'[s] = sname'[t]
           PROVE  Id[s] = Id[t]
      <3>1. /\ s \notin x /\ t \notin x /\ h[s] \in Folders \ x /\ h[s] = h[t]
        BY <2>4, <2>12
      <3>2. sname'[s] = sn[s] /\ sname'[t] = sn[t]
        BY <2>1, <3>1
      <3> QED BY <2>12, <3>1, <3>2 DEF Unique
    <2>13. Unique(parent, fname, home, sname, {})'
      BY <2>11, <2>12 DEF Unique
    <2> QED BY <2>10, <2>13 DEF Inv
  <1> QED BY <1>1, <1>2

\* Deleting more keeps paths unique.
LEMMA UniqueLess ==
  ASSUME Inv, NEW x PROVE Unique(parent, fname, home, sname, x)
  BY DEF Inv, Unique

\* A commit of the metadata as they are.
LEMMA CommitSame ==
  ASSUME Inv, NEW d, NEW x, Commit(parent, fname, home, sname, d, x)
  PROVE  Inv'
  BY CommitTree, UniqueLess DEF Inv

-----------------------------------------------------------------------------
(* Places *)

\* A folder that is found, or one that was not there and gets a parent that is.
LEMMA PlaceKinds ==
  ASSUME Inv, NEW place \in Places
  PROVE  \/ /\ place.at \in LiveFolders /\ place.parent = parent /\ place.fname = fname
         \/ \E f \in Folders, q \in LiveFolders, n \in Names :
               /\ place.at = f /\ parent[f] = New
               /\ place.parent = [parent EXCEPT ![f] = q]
               /\ place.fname = [fname EXCEPT ![f] = n]
               /\ \A g \in LiveFolders : parent[g] = q => fname[g] # n
  BY DEF Places

LEMMA PlaceTree ==
  ASSUME Inv, NEW place \in Places
  PROVE  /\ place.at \in Folders /\ place.parent[place.at] \notin {New, Gone}
         /\ \A f \in Folders : parent[f] # New =>
               place.parent[f] = parent[f] /\ place.fname[f] = fname[f]
         /\ TreeOK(place.parent, place.fname, home, sname)
         /\ Unique(place.parent, place.fname, home, sname, pend)
         /\ \A g \in Folders \ pend : place.parent[g] = place.at => g \in LiveFolders
         /\ \A s \in Streams \ pend : home[s] = place.at => s \in LiveStreams
  <1>1. CASE place.at \in LiveFolders /\ place.parent = parent /\ place.fname = fname
    <2>1. Unique(parent, fname, home, sname, pend)
      BY UniqueLess
    <2> QED BY <1>1, <2>1, Sorts DEF Inv, LiveFolders, LiveStreams
  <1>2. CASE \E f \in Folders, q \in LiveFolders, n \in Names :
               /\ place.at = f /\ parent[f] = New
               /\ place.parent = [parent EXCEPT ![f] = q]
               /\ place.fname = [fname EXCEPT ![f] = n]
               /\ \A g \in LiveFolders : parent[g] = q => fname[g] # n
    <2>1. PICK f \in Folders, q \in LiveFolders, n \in Names :
               /\ place.at = f /\ parent[f] = New
               /\ place.parent = [parent EXCEPT ![f] = q]
               /\ place.fname = [fname EXCEPT ![f] = n]
               /\ \A g \in LiveFolders : parent[g] = q => fname[g] # n
      BY <1>2
    <2> DEFINE p == place.parent
               fn == place.fname
    <2>2. q \in Folders /\ parent[q] \notin {New, Gone} /\ q \notin pend /\ q # f
      BY <2>1 DEF LiveFolders
    <2>3. /\ p \in [Folders -> Places0] /\ fn \in [Folders -> Names]
          /\ p[f] = q /\ fn[f] = n
          /\ \A g \in Folders \ {f} : p[g] = parent[g] /\ fn[g] = fname[g]
      BY <2>1, <2>2 DEF Inv, TreeOK, Places0
    <2> HIDE DEF p, fn
    <2>4. \A g \in Folders : parent[g] # f /\ p[g] # f
      <3>1. \A g \in Folders : parent[g] # f
        BY <2>1 DEF Inv, TreeOK
      <3> QED BY <2>2, <2>3, <3>1
    <2>5. \A g \in Folders : p[g] \in Folders => p[p[g]] \notin {New, Gone}
      <3>1. \A g \in Folders : g # f /\ parent[g] \in Folders => parent[parent[g]] \notin {New, Gone}
        BY DEF Inv, TreeOK
      <3> QED BY <2>2, <2>3, <2>4, <3>1
    <2>6. \A s \in Streams : home[s] \in Folders => home[s] # f /\ p[home[s]] \notin {New, Gone}
      BY <2>1, <2>3 DEF Inv, TreeOK
    <2>7. ASSUME NEW S \in SUBSET Folders, S # {} PROVE \E g \in S : p[g] \notin S
      <3>1. CASE f \in S /\ q \in S
        <4>1. S \ {f} \in SUBSET Folders /\ S \ {f} # {}
          BY <2>2, <3>1
        <4>2. PICK g \in S \ {f} : parent[g] \notin S \ {f}
          BY <4>1 DEF Inv, TreeOK
        <4> QED BY <2>3, <2>4, <4>2
      <3>2. CASE f \in S /\ q \notin S
        BY <2>3, <3>2
      <3>3. CASE f \notin S
        <4>1. PICK g \in S : parent[g] \notin S
          BY <2>7 DEF Inv, TreeOK
        <4> QED BY <2>3, <3>3, <4>1
      <3> QED BY <3>1, <3>2, <3>3
    <2>8. TreeOK(p, fn, home, sname)
      BY <2>3, <2>5, <2>6, <2>7 DEF Inv, TreeOK
    <2>9. ASSUME NEW g \in Folders \ pend, g # f, p[g] = p[f]
          PROVE  fn[g] # fn[f]
      <3>1. parent[g] = q
        BY <2>3, <2>9
      <3>2. g \in LiveFolders
        BY <2>2, <2>9, <3>1, Sorts DEF LiveFolders
      <3> QED BY <2>1, <2>3, <2>9, <3>1, <3>2
    <2>10. Unique(p, fn, home, sname, pend)
      <3>1. \A g, k \in Folders \ pend :
               g # k /\ p[g] \in Folders \ pend /\ p[g] = p[k] => fn[g] # fn[k]
        <4> SUFFICES ASSUME NEW g \in Folders \ pend, NEW k \in Folders \ pend,
                            g # k, p[g] \in Folders \ pend, p[g] = p[k]
                     PROVE  fn[g] # fn[k]
          OBVIOUS
        <4>1. CASE g = f
          BY <2>9, <4>1
        <4>2. CASE k = f
          BY <2>9, <4>2
        <4>3. CASE g # f /\ k # f
          BY <2>3, <4>3 DEF Inv, Unique
        <4> QED BY <4>1, <4>2, <4>3
      <3> QED BY <3>1 DEF Inv, Unique
    <2>11. \A s \in Streams : home[s] # f
      BY <2>6
    <2>12. place.at = f
      BY <2>1
    <2>13. p[f] \notin {New, Gone}
      BY <2>2, <2>3, Sorts
    <2>14. \A g \in Folders : parent[g] # New => p[g] = parent[g] /\ fn[g] = fname[g]
      BY <2>1, <2>3
    <2>15. /\ f \in Folders /\ p[f] \notin {New, Gone}
           /\ \A g \in Folders : parent[g] # New => p[g] = parent[g] /\ fn[g] = fname[g]
           /\ TreeOK(p, fn, home, sname) /\ Unique(p, fn, home, sname, pend)
           /\ \A g \in Folders \ pend : p[g] = f => g \in LiveFolders
           /\ \A s \in Streams \ pend : home[s] = f => s \in LiveStreams
      BY <2>4, <2>8, <2>10, <2>11, <2>13, <2>14
    <2> QED BY <2>12, <2>15 DEF p, fn
  <1> QED BY <1>1, <1>2, PlaceKinds

-----------------------------------------------------------------------------
(* Paths are unique and the way up ends *)

LEMMA PutStreamInv ==
  ASSUME Inv, NEW s \in Streams, NEW n \in Names, PutStream(s, n)
  PROVE  Inv'
  <1>1. PICK place \in Places :
          /\ ~Taken(place.at, n)
          /\ Commit(place.parent, place.fname, [home EXCEPT ![s] = place.at],
                    [sname EXCEPT ![s] = n], dest, pend)
    BY DEF PutStream
  <1> DEFINE p == place.parent
             h == [home EXCEPT ![s] = place.at]
             sn == [sname EXCEPT ![s] = n]
  <1>2. /\ place.at \in Folders /\ p[place.at] \notin {New, Gone}
        /\ TreeOK(p, place.fname, home, sname)
        /\ Unique(p, place.fname, home, sname, pend)
        /\ \A t \in Streams \ pend : home[t] = place.at => t \in LiveStreams
    BY PlaceTree
  <1>3. /\ h \in [Streams -> Places0] /\ sn \in [Streams -> Names]
        /\ h[s] = place.at /\ sn[s] = n
        /\ \A t \in Streams \ {s} : h[t] = home[t] /\ sn[t] = sname[t]
    BY <1>2 DEF TreeOK, Places0
  <1> HIDE DEF h, sn, p
  <1>4. TreeOK(p, place.fname, h, sn)
    BY <1>2, <1>3 DEF TreeOK
  <1>5. ASSUME NEW t \in Streams \ pend, t # s, h[t] = place.at PROVE sn[t] # n
    BY <1>1, <1>2, <1>3, <1>5 DEF Taken
  <1>6. ASSUME NEW t \in Streams \ pend, NEW u \in Streams \ pend, t # u,
               h[t] \in Folders \ pend, h[t] = h[u], sn[t] = sn[u]
        PROVE  Id[t] = Id[u]
    <2>1. CASE t = s
      BY <1>3, <1>5, <1>6, <2>1
    <2>2. CASE u = s
      BY <1>3, <1>5, <1>6, <2>2
    <2>3. CASE t # s /\ u # s
      BY <1>2, <1>3, <1>6, <2>3 DEF Unique
    <2> QED BY <2>1, <2>2, <2>3
  <1>7. Unique(p, place.fname, h, sn, pend)
    BY <1>2, <1>6 DEF Unique
  <1> QED BY <1>1, <1>4, <1>7, CommitTree DEF h, sn, p

LEMMA RenameInv ==
  ASSUME Inv, NEW s \in Streams, NEW n \in Names, Rename(s, n)
  PROVE  Inv'
  <1> DEFINE sn == [sname EXCEPT ![s] = n]
  <1>1. /\ sn \in [Streams -> Names] /\ sn[s] = n
        /\ \A t \in Streams \ {s} : sn[t] = sname[t]
    BY DEF Inv, TreeOK
  <1> HIDE DEF sn
  <1>2. TreeOK(parent, fname, home, sn)
    BY <1>1 DEF Inv, TreeOK
  <1>3. CASE home[s] = Null
    <2>1. UNCHANGED <<parent, fname, home>> /\ sname' = sn
      BY <1>3 DEF Rename, sn
    <2>2. Unique(parent, fname, home, sn, {})
      BY <1>1, <1>3, Sorts DEF Inv, Unique
    <2> QED BY <1>2, <2>1, <2>2 DEF Inv, TreeOK, Unique
  <1>4. CASE home[s] # Null
    <2>1. ~TakenByOther(s, n) /\ Commit(parent, fname, home, sn, dest, pend)
      BY <1>4 DEF Rename, sn
    <2>2. ASSUME NEW t \in Streams \ pend, t # s, home[t] = home[s], home[s] \in Folders,
                 sn[t] = n
          PROVE  Id[t] = Id[s]
      <3>1. t \in LiveStreams
        BY <2>2, Sorts DEF LiveStreams
      <3> QED BY <1>1, <2>1, <2>2, <3>1 DEF TakenByOther
    <2>3. ASSUME NEW t \in Streams \ pend, NEW u \in Streams \ pend, t # u,
                 home[t] \in Folders, home[t] = home[u], sn[t] = sn[u]
          PROVE  Id[t] = Id[u]
      <3>1. CASE t = s
        BY <1>1, <2>2, <2>3, <3>1
      <3>2. CASE u = s
        BY <1>1, <2>2, <2>3, <3>2
      <3>3. CASE t # s /\ u # s
        BY <1>1, <2>3, <3>3 DEF Inv, Unique
      <3> QED BY <3>1, <3>2, <3>3
    <2>4. Unique(parent, fname, home, sn, pend)
      BY <2>3 DEF Inv, Unique
    <2> QED BY <1>2, <2>1, <2>4, CommitTree
  <1> QED BY <1>3, <1>4

\* The loop over the parents of the destination keeps the tree a tree.
LEMMA MoveFolderInv ==
  ASSUME Inv, NEW f \in Folders, MoveFolder(f)
  PROVE  Inv'
  <1>1. PICK place \in Places :
          /\ \A g \in LiveFolders : place.parent[g] = place.at => fname[g] # fname[f]
          /\ f \notin Up(place.parent, place.at)
          /\ Commit([place.parent EXCEPT ![f] = place.at], place.fname, home, sname,
                    dest, pend)
    BY DEF MoveFolder
  <1> DEFINE p == place.parent
             fn == place.fname
             q == [place.parent EXCEPT ![f] = place.at]
  <1>2. /\ place.at \in Folders /\ p[place.at] \notin {New, Gone}
        /\ \A g \in Folders : parent[g] # New => p[g] = parent[g] /\ fn[g] = fname[g]
        /\ TreeOK(p, fn, home, sname)
        /\ Unique(p, fn, home, sname, pend)
        /\ \A g \in Folders \ pend : p[g] = place.at => g \in LiveFolders
    BY PlaceTree
  <1>3. parent[f] \notin {New, Gone} /\ f \notin pend
    BY DEF MoveFolder, LiveFolders
  <1>4. /\ q \in [Folders -> Places0] /\ q[f] = place.at
        /\ \A g \in Folders \ {f} : q[g] = p[g]
    BY <1>2 DEF TreeOK, Places0
  <1>5. PICK T \in SUBSET Folders :
          place.at \in T /\ f \notin T /\ \A k \in T : p[k] \in Folders => p[k] \in T
    BY <1>1 DEF Up
  <1> HIDE DEF p, fn, q
  <1>6. ASSUME NEW S \in SUBSET Folders, S # {} PROVE \E g \in S : q[g] \notin S
    <2>1. CASE place.at \in S
      <3>1. S \cap T \in SUBSET Folders /\ S \cap T # {}
        BY <1>5, <2>1
      <3>2. PICK g \in S \cap T : p[g] \notin S \cap T
        BY <1>2, <3>1 DEF TreeOK
      <3>3. p[g] \notin S
        BY <1>5, <3>2
      <3> QED BY <1>4, <1>5, <3>2, <3>3
    <2>2. CASE place.at \notin S
      <3>1. PICK g \in S : p[g] \notin S
        BY <1>2, <1>6 DEF TreeOK
      <3> QED BY <1>4, <2>2, <3>1
    <2> QED BY <2>1, <2>2
  <1>7. \A g \in Folders : p[g] \notin {New, Gone} => q[g] \notin {New, Gone}
    BY <1>2, <1>4, Sorts
  <1>8. \A g \in Folders : q[g] \in Folders => q[q[g]] \notin {New, Gone}
    BY <1>2, <1>4, <1>7 DEF TreeOK
  <1>9. \A s \in Streams : home[s] \in Folders => q[home[s]] \notin {New, Gone}
    BY <1>2, <1>7 DEF TreeOK
  <1>10. TreeOK(q, fn, home, sname)
    BY <1>2, <1>4, <1>6, <1>8, <1>9 DEF TreeOK
  <1>11. ASSUME NEW g \in Folders \ pend, g # f, q[g] = place.at PROVE fn[g] # fn[f]
    <2>1. p[g] = place.at /\ g \in LiveFolders
      BY <1>2, <1>4, <1>11
    <2>2. fn[f] = fname[f] /\ fn[g] = fname[g]
      BY <1>2, <1>3, <2>1 DEF LiveFolders
    <2> QED BY <1>1, <2>1, <2>2 DEF p
  <1>12. ASSUME NEW g \in Folders \ pend, NEW k \in Folders \ pend, g # k,
                q[g] \in Folders \ pend, q[g] = q[k]
         PROVE  fn[g] # fn[k]
    <2>1. CASE g = f
      BY <1>4, <1>11, <1>12, <2>1
    <2>2. CASE k = f
      BY <1>4, <1>11, <1>12, <2>2
    <2>3. CASE g # f /\ k # f
      BY <1>2, <1>4, <1>12, <2>3 DEF Unique
    <2> QED BY <2>1, <2>2, <2>3
  <1>13. Unique(q, fn, home, sname, pend)
    BY <1>2, <1>12 DEF Unique
  <1> QED BY <1>1, <1>10, <1>13, CommitTree DEF q, fn

LEMMA UpdateFolderInv ==
  ASSUME Inv, NEW f \in Folders, NEW n \in Names, UpdateFolder(f, n)
  PROVE  Inv'
  <1> DEFINE fn == [fname EXCEPT ![f] = n]
  <1>1. /\ \A g \in LiveFolders \ {f} : parent[g] = parent[f] => fname[g] # n
        /\ Commit(parent, fn, home, sname, dest, pend)
    BY DEF UpdateFolder
  <1>2. /\ fn \in [Folders -> Names] /\ fn[f] = n
        /\ \A g \in Folders \ {f} : fn[g] = fname[g]
    BY DEF Inv, TreeOK
  <1> HIDE DEF fn
  <1>3. TreeOK(parent, fn, home, sname)
    BY <1>2 DEF Inv, TreeOK
  <1>4. ASSUME NEW g \in Folders \ pend, g # f, parent[g] \in Folders, parent[g] = parent[f]
        PROVE  fn[g] # n
    <2>1. g \in LiveFolders
      BY <1>4, Sorts DEF LiveFolders
    <2> QED BY <1>1, <1>2, <1>4, <2>1
  <1>5. ASSUME NEW g \in Folders \ pend, NEW k \in Folders \ pend, g # k,
               parent[g] \in Folders, parent[g] = parent[k]
        PROVE  fn[g] # fn[k]
    <2>1. CASE g = f
      BY <1>2, <1>4, <1>5, <2>1
    <2>2. CASE k = f
      BY <1>2, <1>4, <1>5, <2>2
    <2>3. CASE g # f /\ k # f
      BY <1>2, <1>5, <2>3 DEF Inv, Unique
    <2> QED BY <2>1, <2>2, <2>3
  <1>6. Unique(parent, fn, home, sname, pend)
    BY <1>5 DEF Inv, Unique
  <1> QED BY <1>1, <1>3, <1>6, CommitTree

LEMMA SameTree ==
  ASSUME Inv, UNCHANGED <<parent, fname, home, sname>> PROVE Inv'
  BY DEF Inv, TreeOK, Unique

LEMMA InitInv == Init => Inv
  <1> SUFFICES ASSUME Init PROVE Inv
    OBVIOUS
  <1>1. /\ parent = [f \in Folders |-> IF f = Root THEN Null ELSE New]
        /\ fname = [f \in Folders |-> NoName]
        /\ home = [s \in Streams |-> IF s \in Configured \cup Outputs THEN Root ELSE New]
        /\ sname \in [Streams -> Names]
        /\ \A s, t \in Streams : s # t /\ home[s] = Root /\ home[t] = Root => sname[s] # sname[t]
    BY DEF Init
  <1>2. \A f \in Folders : parent[f] \notin Folders
    BY <1>1, Sorts
  <1>3. \A s \in Streams : home[s] \in Folders => home[s] = Root
    BY <1>1, Sorts
  <1>4. TreeOK(parent, fname, home, sname)
    <2>1. parent \in [Folders -> Places0] /\ fname \in [Folders -> Names]
      BY <1>1, Sorts DEF Places0
    <2>2. home \in [Streams -> Places0]
      BY <1>1, Sorts DEF Places0
    <2>3. parent[Root] \notin {New, Gone}
      BY <1>1, Sorts
    <2> QED BY <1>1, <1>2, <1>3, <2>1, <2>2, <2>3 DEF TreeOK
  <1>5. Unique(parent, fname, home, sname, {})
    BY <1>1, <1>2, <1>3 DEF Unique
  <1> QED BY <1>4, <1>5 DEF Inv

LEMMA RequestInv == ASSUME Inv, RequestNext PROVE Inv'
  <1>1. ASSUME NEW s \in Streams, MoveStream(s) \/ MoveEventStream(s) PROVE Inv'
    <2>1. PutStream(s, sname[s]) /\ sname[s] \in Names
      BY <1>1 DEF MoveStream, MoveEventStream, Inv, TreeOK
    <2> QED BY <2>1, PutStreamInv
  <1>2. ASSUME NEW s \in Streams, DeleteStream(s) \/ DeleteEventStream(s) PROVE Inv'
    BY <1>2, SameTree DEF DeleteStream, DeleteEventStream, DestroyFirst, meta
  <1>3. ASSUME NEW s \in Streams, NEW n \in Names, CreateStream(s, n) \/ CreateEventStream(s, n)
        PROVE  Inv'
    BY <1>3, PutStreamInv DEF CreateStream, CreateEventStream
  <1>4. ASSUME NEW s \in Streams, NEW n \in Names, UpdateStream(s, n) \/ UpdateEventStream(s, n)
        PROVE  Inv'
    BY <1>4, RenameInv DEF UpdateStream, UpdateEventStream
  <1>5. ASSUME NEW f \in Folders, MoveFolder(f) PROVE Inv'
    BY <1>5, MoveFolderInv
  <1>6. ASSUME NEW f \in Folders, NEW n \in Names, UpdateFolder(f, n) PROVE Inv'
    BY <1>6, UpdateFolderInv
  <1>7. ASSUME NEW f \in Folders, NEW r \in BOOLEAN, DeleteFolder(f, r) PROVE Inv'
    BY <1>7, SameTree DEF DeleteFolder, meta
  <1>8. ASSUME NEW s \in DataStreams, WriteBegin(s) \/ WriteRefused(s) \/ WriteEnd(s) PROVE Inv'
    BY <1>8, CommitSame DEF WriteBegin, WriteRefused, WriteEnd
  <1>9. CASE Refuse \/ Restart
    BY <1>9, SameTree DEF Refuse, Restart, meta
  <1> QED BY <1>1, <1>2, <1>3, <1>4, <1>5, <1>6, <1>7, <1>8, <1>9 DEF RequestNext

LEMMA DeleteInv == ASSUME Inv, DeleteNext PROVE Inv'
  <1>1. CASE DeleteStreamDone
    <2>1. \/ UNCHANGED meta
          \/ Commit(parent, fname, home, sname, dest, pend \cup {sdel})
      BY <1>1 DEF DeleteStreamDone
    <2> QED BY <2>1, CommitSame, SameTree DEF meta
  <1>2. CASE StreamsDone
    <2>1. \/ UNCHANGED meta
          \/ Commit(parent, fname, home, sname, dest, pend \cup {Last.f})
      BY <1>2 DEF StreamsDone
    <2> QED BY <2>1, CommitSame, SameTree DEF meta
  <1>3. CASE \/ Destroyed \/ SkipMoved \/ KidsDone
             \/ \E dropped \in BOOLEAN : DeleteStreamFails(dropped) \/ DestroyFails(dropped)
             \/ \E g \in Folders : EnterKid(g)
             \/ \E s \in Streams : DestroyStream(s)
    <2>1. UNCHANGED meta
      BY <1>3 DEF Destroyed, SkipMoved, KidsDone, DeleteStreamFails, DestroyFails, EnterKid,
                  DestroyStream
    <2> QED BY <2>1, SameTree DEF meta
  <1> QED BY <1>1, <1>2, <1>3 DEF DeleteNext

\* The tree stays a tree with unique paths.
THEOREM InvHolds == Spec => []Inv
  <1>1. Inv /\ [Next]_vars => Inv'
    <2> SUFFICES ASSUME Inv, [Next]_vars PROVE Inv'
      OBVIOUS
    <2>1. CASE Next
      BY <2>1, RequestInv, DeleteInv DEF Next
    <2>2. CASE UNCHANGED vars
      BY <2>2, SameTree DEF vars, meta
    <2> QED BY <2>1, <2>2
  <1> QED BY InitInv, <1>1, PTL DEF Spec

\* However moves, deletes and failed deletes overlap, no set of folders is closed
\* under the parent: the loops that walk up a path end.
THEOREM WayUpEnds == Spec => []Acyclic
  <1>1. Inv => Acyclic
    BY DEF Inv, TreeOK, Acyclic
  <1> QED BY InvHolds, <1>1, PTL

\* A path names one folder, and one stream but for a data stream and an event
\* stream with the same id.
THEOREM PathsUnique == Spec => []NamesUnique
  <1>1. Inv => NamesUnique
    BY DEF Inv, Unique, NamesUnique
  <1> QED BY InvHolds, <1>1, PTL

-----------------------------------------------------------------------------
(* The frames of a folder delete *)

Frames == [f : Folders, phase : {"kids", "streams"}, ks : SUBSET Folders, ss : SUBSET Streams]

StackOK ==
    /\ stack \in Seq(Frames)
    /\ waiting \in Streams \cup {None} /\ (waiting # None => stack # <<>>)
    /\ sdel \in Streams \cup {None}
    /\ pend \subseteq Folders \cup Streams
    /\ overlaps \in Nat

LEMMA LastFrame ==
  ASSUME StackOK, stack # <<>>
  PROVE  /\ Len(stack) \in Nat /\ Len(stack) >= 1 /\ Len(stack) \in 1..Len(stack)
         /\ Last \in Frames /\ Last = stack[Len(stack)]
         /\ \A i \in 1..Len(stack) : stack[i] \in Frames
  <1>1. stack \in Seq(Frames)
    BY DEF StackOK
  <1>2. Len(stack) \in Nat /\ Len(stack) >= 1
    BY <1>1, EmptySeq
  <1>3. \A i \in 1..Len(stack) : stack[i] \in Frames
    BY <1>1, ElementOfSeq
  <1> QED BY <1>2, <1>3 DEF Last

LEMMA Replaced ==
  ASSUME StackOK, stack # <<>>, NEW frame \in Frames,
         stack' = [stack EXCEPT ![Len(stack)] = frame]
  PROVE  /\ stack' \in Seq(Frames) /\ Len(stack') = Len(stack) /\ stack' # <<>>
         /\ \A i \in 1..Len(stack) : stack'[i] = IF i = Len(stack) THEN frame ELSE stack[i]
  <1>1. stack \in Seq(Frames) /\ Len(stack) \in 1..Len(stack) /\ Len(stack) >= 1
    BY LastFrame DEF StackOK
  <1>2. /\ stack' \in Seq(Frames) /\ Len(stack') = Len(stack)
        /\ \A i \in 1..Len(stack) : stack'[i] = IF i = Len(stack) THEN frame ELSE stack[i]
    BY <1>1, ExceptSeq
  <1> QED BY <1>1, <1>2, EmptySeq

LEMMA Pushed ==
  ASSUME NEW S, NEW s \in Seq(S), NEW e \in S
  PROVE  /\ Append(s, e) \in Seq(S) /\ Append(s, e) # <<>> /\ Len(Append(s, e)) = Len(s) + 1
         /\ \A i \in 1..Len(s) : Append(s, e)[i] = s[i]
         /\ Append(s, e)[Len(s) + 1] = e
  OBVIOUS

LEMMA Entered ==
  ASSUME StackOK, stack # <<>>, NEW g \in Folders,
         stack' = Append([stack EXCEPT ![Len(stack)].ks = @ \ {g}],
                         Frame(g, "streams", {}, StreamsIn(g)))
  PROVE  /\ stack' \in Seq(Frames) /\ Len(stack') = Len(stack) + 1 /\ stack' # <<>>
         /\ \A i \in 1..(Len(stack) - 1) : stack'[i] = stack[i]
         /\ stack'[Len(stack)] = [Last EXCEPT !.ks = @ \ {g}]
         /\ stack'[Len(stack) + 1] = Frame(g, "streams", {}, StreamsIn(g))
  <1> DEFINE n == Len(stack)
             top == [Last EXCEPT !.ks = @ \ {g}]
             below == [stack EXCEPT ![n] = top]
             new == Frame(g, "streams", {}, StreamsIn(g))
  <1>1. stack \in Seq(Frames) /\ n \in Nat /\ n >= 1 /\ n \in 1..n /\ Last \in Frames
        /\ Last = stack[n]
    BY LastFrame DEF StackOK
  <1>2. top \in Frames
    BY <1>1 DEF Frames
  <1>3. new \in Frames
    BY DEF Frames, Frame, StreamsIn
  <1>4. [stack EXCEPT ![n].ks = @ \ {g}] = below
    BY <1>1
  <1>5. /\ below \in Seq(Frames) /\ Len(below) = n
        /\ \A i \in 1..n : below[i] = IF i = n THEN top ELSE stack[i]
    <2> HIDE DEF top
    <2> QED BY <1>1, <1>2, ExceptSeq
  <1> HIDE DEF below, new, top
  <1>6. stack' = Append(below, new)
    BY <1>4 DEF new
  <1>7. /\ stack' \in Seq(Frames) /\ stack' # <<>> /\ Len(stack') = n + 1
        /\ \A i \in 1..n : stack'[i] = below[i]
        /\ stack'[n + 1] = new
    <2>1. /\ Append(below, new) \in Seq(Frames) /\ Append(below, new) # <<>>
          /\ Len(Append(below, new)) = Len(below) + 1
          /\ \A i \in 1..Len(below) : Append(below, new)[i] = below[i]
          /\ Append(below, new)[Len(below) + 1] = new
      BY <1>3, <1>5, Pushed
    <2> QED BY <1>5, <1>6, <2>1
  <1>8. \A i \in 1..(n - 1) : i \in 1..n /\ i # n
    BY <1>1
  <1> QED BY <1>1, <1>5, <1>7, <1>8 DEF new, top

LEMMA TwoAtLeast ==
  ASSUME NEW k \in Nat, k >= 1, k # 1 PROVE k >= 2 /\ k - 1 \in Nat /\ k - 1 >= 1
  OBVIOUS

LEMMA Popped ==
  ASSUME StackOK, stack # <<>>, Len(stack) # 1, stack' = SubSeq(stack, 1, Len(stack) - 1)
  PROVE  /\ stack' \in Seq(Frames) /\ Len(stack') = Len(stack) - 1 /\ Len(stack) >= 2
         /\ stack' # <<>>
         /\ \A i \in 1..(Len(stack) - 1) : stack'[i] = stack[i]
  <1> DEFINE n == Len(stack) - 1
  <1>1. /\ stack \in Seq(Frames) /\ Len(stack) \in Nat /\ Len(stack) >= 2 /\ n \in Nat /\ n >= 1
        /\ \A i \in 1..Len(stack) : stack[i] \in Frames
    <2>1. /\ stack \in Seq(Frames) /\ Len(stack) \in Nat /\ Len(stack) >= 1
          /\ \A i \in 1..Len(stack) : stack[i] \in Frames
      BY LastFrame DEF StackOK
    <2>2. Len(stack) >= 2 /\ n \in Nat /\ n >= 1
      BY <2>1, TwoAtLeast
    <2> QED BY <2>1, <2>2
  <1>2. \A i \in 1..n : stack[i] \in Frames
    BY <1>1
  <1>3. /\ stack' \in Seq(Frames) /\ Len(stack') = IF 1 <= n THEN n - 1 + 1 ELSE 0
        /\ \A i \in 1..n - 1 + 1 : stack'[i] = stack[1 + i - 1]
    <2> HIDE DEF n
    <2>1. 1 \in Int /\ n \in Int
      BY <1>1
    <2>2. stack' = SubSeq(stack, 1, n)
      BY DEF n
    <2> QED BY <1>2, <2>1, <2>2, SubSeqProperties
  <1>4. Len(stack') = n /\ \A i \in 1..n : stack'[i] = stack[i]
    BY <1>1, <1>3
  <1>5. stack' # <<>>
    <2>1. Len(stack') # 0
      BY <1>1, <1>4
    <2> QED BY <2>1
  <1> QED BY <1>1, <1>3, <1>4, <1>5

LEMMA StackInit == Init => StackOK
  BY EmptySeq DEF Init, StackOK

\* A commit empties the session; a step that is counted or not keeps a number.
LEMMA OverlapNat == ASSUME NEW c, overlaps \in Nat, Overlap(c) PROVE overlaps' \in Nat
  BY DEF Overlap

LEMMA RequestStack == ASSUME StackOK, RequestNext PROVE StackOK'
  <1>1. CASE Request /\ pend' \subseteq pend
    <2>1. UNCHANGED <<stack, waiting, sdel>> /\ overlaps' \in Nat
      BY <1>1, OverlapNat DEF Request, task, StackOK
    <2> QED BY <1>1, <2>1 DEF StackOK
  <1>2. ASSUME NEW s \in Streams, DestroyFirst(s) PROVE StackOK'
    <2>1. UNCHANGED <<stack, waiting, pend>> /\ overlaps' \in Nat /\ sdel' = s
      BY <1>2, OverlapNat DEF DestroyFirst, task, StackOK
    <2> QED BY <2>1 DEF StackOK
  <1>3. ASSUME NEW f \in Folders, NEW r \in BOOLEAN, DeleteFolder(f, r) PROVE StackOK'
    <2>1. UNCHANGED <<waiting, pend, sdel>> /\ overlaps' \in Nat
      BY <1>3, OverlapNat DEF DeleteFolder, task, StackOK
    <2>2. Frame(f, "kids", Children(parent, f), {}) \in Frames
      BY DEF Frame, Frames, Children
    <2>3. stack' = <<Frame(f, "kids", Children(parent, f), {})>>
      BY <1>3 DEF DeleteFolder
    <2>4. stack' \in Seq(Frames) /\ stack' # <<>>
      BY <2>2, <2>3
    <2> QED BY <2>1, <2>4 DEF StackOK
  <1>4. CASE Restart
    <2>1. stack' = <<>> /\ waiting' = None /\ sdel' = None /\ pend' = {} /\ overlaps' \in Nat
      BY <1>4, OverlapNat DEF Restart, StackOK
    <2> QED BY <2>1, EmptySeq DEF StackOK
  <1>5. ASSUME NEW s \in Streams, NEW n, PutStream(s, n) \/ Rename(s, n)
        PROVE  Request /\ pend' \subseteq pend
    BY <1>5 DEF PutStream, Rename, Commit
  <1>6. \/ (Request /\ pend' \subseteq pend)
        \/ (\E s \in Streams : DestroyFirst(s))
        \/ (\E f \in Folders, r \in BOOLEAN : DeleteFolder(f, r))
        \/ Restart
    <2>1. ASSUME NEW s \in Streams,
                 \/ MoveStream(s) \/ MoveEventStream(s)
                 \/ \E n \in Names : \/ CreateStream(s, n) \/ CreateEventStream(s, n)
                                     \/ UpdateStream(s, n) \/ UpdateEventStream(s, n)
          PROVE  Request /\ pend' \subseteq pend
      BY <1>5, <2>1 DEF MoveStream, MoveEventStream, CreateStream, CreateEventStream,
                       UpdateStream, UpdateEventStream
    <2>2. ASSUME NEW s \in Streams, DeleteStream(s) \/ DeleteEventStream(s)
          PROVE  DestroyFirst(s)
      BY <2>2 DEF DeleteStream, DeleteEventStream
    <2>3. ASSUME NEW f \in Folders, MoveFolder(f) \/ \E n \in Names : UpdateFolder(f, n)
          PROVE  Request /\ pend' \subseteq pend
      BY <2>3 DEF MoveFolder, UpdateFolder, Commit
    <2>4. ASSUME NEW s \in DataStreams, WriteBegin(s) \/ WriteRefused(s) \/ WriteEnd(s)
          PROVE  Request /\ pend' \subseteq pend
      BY <2>4 DEF WriteBegin, WriteRefused, WriteEnd, Commit
    <2>5. Refuse => Request /\ pend' \subseteq pend
      BY DEF Refuse
    <2> QED BY <2>1, <2>2, <2>3, <2>4, <2>5 DEF RequestNext
  <1> QED BY <1>1, <1>2, <1>3, <1>4, <1>6

LEMMA DeleteStack == ASSUME StackOK, DeleteNext PROVE StackOK'
  <1>1. CASE DeleteStreamDone
    <2>1. UNCHANGED <<stack, waiting, overlaps>> /\ sdel' = None /\ pend' \subseteq pend
      BY <1>1 DEF DeleteStreamDone, task, Commit
    <2> QED BY <2>1 DEF StackOK
  <1>2. ASSUME NEW dropped \in BOOLEAN, DeleteStreamFails(dropped) PROVE StackOK'
    <2>1. UNCHANGED <<stack, waiting, pend>> /\ sdel' = None /\ overlaps' \in Nat
      BY <1>2, OverlapNat DEF DeleteStreamFails, task, StackOK
    <2> QED BY <2>1 DEF StackOK
  <1>3. ASSUME NEW r \in BOOLEAN, Abort(r), sdel' = sdel, overlaps' \in Nat PROVE StackOK'
    <2>1. stack' = <<>> /\ waiting' = None /\ pend' \subseteq pend
      BY <1>3 DEF Abort
    <2> QED BY <1>3, <2>1, EmptySeq DEF StackOK
  <1>4. ASSUME NEW dropped \in BOOLEAN, DestroyFails(dropped) PROVE StackOK'
    BY <1>3, <1>4, OverlapNat DEF DestroyFails, StackOK
  <1>5. ASSUME NEW frame \in Frames, stack # <<>>, SetLast(frame), sdel' = sdel, overlaps' = overlaps,
               waiting' \in {waiting, None}, pend' \subseteq Folders \cup Streams
        PROVE  StackOK'
    <2>1. stack' \in Seq(Frames) /\ stack' # <<>>
      BY <1>5, Replaced DEF SetLast
    <2> QED BY <1>5, <2>1 DEF StackOK
  <1>6. CASE Destroyed
    <2>1. CASE home[waiting] = Gone
      BY <1>3, <1>6, <2>1 DEF Destroyed, StackOK
    <2>2. CASE home[waiting] # Gone
      <3>1. stack # <<>> /\ waiting \in Streams
        BY <1>6 DEF Destroyed, StackOK
      <3>2. Last \in Frames
        BY <3>1, LastFrame
      <3>3. [Last EXCEPT !.ss = @ \ {waiting}] \in Frames
        BY <3>2 DEF Frames
      <3>4. pend' \subseteq Folders \cup Streams
        BY <1>6, <2>2, <3>1 DEF Destroyed, StackOK
      <3> QED BY <1>5, <1>6, <2>2, <3>1, <3>3, <3>4 DEF Destroyed
    <2> QED BY <2>1, <2>2
  <1>7. CASE SkipMoved
    <2>1. stack # <<>> /\ UNCHANGED <<pend, waiting, sdel, overlaps>>
      BY <1>7 DEF SkipMoved, Busy
    <2>2. Last \in Frames
      BY <2>1, LastFrame
    <2>3. \A g : [Last EXCEPT !.ks = @ \ {g}] \in Frames /\ [Last EXCEPT !.ss = @ \ {g}] \in Frames
      BY <2>2 DEF Frames
    <2> QED BY <1>5, <1>7, <2>1, <2>3 DEF SkipMoved, StackOK
  <1>8. CASE KidsDone
    <2>1. stack # <<>> /\ UNCHANGED <<waiting, sdel, overlaps>>
      BY <1>8 DEF KidsDone, Busy
    <2>2. Last \in Frames /\ Last.f \in Folders
      BY <2>1, LastFrame DEF Frames
    <2>3. CASE Len(stack) = 1
      <3>1. Frame(Last.f, "streams", {}, StreamsIn(Last.f)) \in Frames
        BY <2>2 DEF Frame, Frames, StreamsIn
      <3>2. SetLast(Frame(Last.f, "streams", {}, StreamsIn(Last.f))) /\ pend' = pend
        BY <1>8, <2>3 DEF KidsDone
      <3> QED BY <1>5, <2>1, <3>1, <3>2 DEF StackOK
    <2>4. CASE Len(stack) # 1
      <3>1. pend' = pend \cup {Last.f} /\ stack' = SubSeq(stack, 1, Len(stack) - 1)
        BY <1>8, <2>4 DEF KidsDone
      <3>2. stack' \in Seq(Frames) /\ stack' # <<>>
        BY <2>1, <2>4, <3>1, Popped
      <3> QED BY <2>1, <2>2, <3>1, <3>2 DEF StackOK
    <2> QED BY <2>3, <2>4
  <1>9. CASE StreamsDone
    <2>1. stack # <<>> /\ waiting = None /\ UNCHANGED <<waiting, sdel, overlaps>>
      BY <1>9 DEF StreamsDone, Busy
    <2>2. Last \in Frames /\ Last.f \in Folders
      BY <2>1, LastFrame DEF Frames
    <2>3. CASE Len(stack) > 1
      <3>1. Frame(Last.f, "kids", Children(parent, Last.f), {}) \in Frames
        BY <2>2 DEF Frame, Frames, Children
      <3>2. SetLast(Frame(Last.f, "kids", Children(parent, Last.f), {})) /\ pend' = pend
        BY <1>9, <2>3 DEF StreamsDone
      <3> QED BY <1>5, <2>1, <3>1, <3>2 DEF StackOK
    <2>4. CASE ~(Len(stack) > 1)
      <3>1. stack' = <<>> /\ (pend' = pend \cup {Last.f} \/ pend' = {})
        BY <1>9, <2>4 DEF StreamsDone, Commit
      <3> QED BY <2>1, <2>2, <3>1, EmptySeq DEF StackOK
    <2> QED BY <2>3, <2>4
  <1>10. ASSUME NEW g \in Folders, EnterKid(g) PROVE StackOK'
    <2>1. CASE parent[g] = Gone
      BY <1>3, <1>10, <2>1 DEF EnterKid, StackOK
    <2>2. CASE parent[g] # Gone
      <3>1. /\ stack # <<>> /\ UNCHANGED <<pend, waiting, sdel, overlaps>>
            /\ stack' = Append([stack EXCEPT ![Len(stack)].ks = @ \ {g}],
                               Frame(g, "streams", {}, StreamsIn(g)))
        BY <1>10, <2>2 DEF EnterKid, Busy
      <3>2. stack' \in Seq(Frames) /\ stack' # <<>>
        BY <3>1, Entered
      <3> QED BY <3>1, <3>2 DEF StackOK
    <2> QED BY <2>1, <2>2
  <1>11. ASSUME NEW s \in Streams, DestroyStream(s) PROVE StackOK'
    <2>1. CASE home[s] = Gone \/ StreamLocked(s)
      BY <1>3, <1>11, <2>1 DEF DestroyStream, StackOK
    <2>2. CASE ~(home[s] = Gone \/ StreamLocked(s))
      <3>1. waiting' = s /\ UNCHANGED <<stack, pend, sdel, overlaps>> /\ stack # <<>>
        BY <1>11, <2>2 DEF DestroyStream, Busy
      <3> QED BY <3>1 DEF StackOK
    <2> QED BY <2>1, <2>2
  <1> QED BY <1>1, <1>2, <1>4, <1>6, <1>7, <1>8, <1>9, <1>10, <1>11 DEF DeleteNext

\* The frames of a recursive delete are folders with the children and the streams
\* each has left to visit, what it has marked are folders and streams, and it
\* awaits the store only while a folder is being deleted
\* (folder_controller.py:147-184).
THEOREM StackHolds == Spec => []StackOK
  <1>1. StackOK /\ [Next]_vars => StackOK'
    <2> SUFFICES ASSUME StackOK, [Next]_vars PROVE StackOK'
      OBVIOUS
    <2>1. CASE Next
      BY <2>1, RequestStack, DeleteStack DEF Next
    <2>2. CASE UNCHANGED vars
      BY <2>2 DEF vars, task, StackOK
    <2> QED BY <2>1, <2>2
  <1> QED BY StackInit, <1>1, PTL DEF Spec

-----------------------------------------------------------------------------
(* A request that comes while no delete is under way *)

LEMMA QuietCommit ==
  ASSUME NEW p, NEW fn, NEW h, NEW sn, NEW d, Commit(p, fn, h, sn, d, {}),
         p \in [Folders -> Places0], fn \in [Folders -> Names],
         h \in [Streams -> Places0], sn \in [Streams -> Names]
  PROVE  parent' = p /\ fname' = fn /\ home' = h /\ sname' = sn /\ pend' = {}
  <1>1. ~Stranded(h, {})
    BY DEF Stranded
  <1>2. /\ parent' = [f \in Folders |-> CASE f \in {} -> Gone
                                          [] f \notin {} /\ p[f] \in {} -> Null
                                          [] OTHER -> p[f]]
        /\ fname' = [f \in Folders |-> IF f \in {} THEN NoName ELSE fn[f]]
        /\ home' = [s \in Streams |-> CASE s \in {} -> Gone
                                        [] s \notin {} /\ h[s] \in {} -> Null
                                        [] OTHER -> h[s]]
        /\ sname' = [s \in Streams |-> IF s \in {} THEN NoName ELSE sn[s]]
        /\ pend' = {}
    BY <1>1 DEF Commit
  <1>3. parent' = p
    BY <1>2
  <1>4. home' = h
    BY <1>2
  <1>5. fname' = fn /\ sname' = sn
    BY <1>2
  <1> QED BY <1>2, <1>3, <1>4, <1>5

\* The folders above a stream exist.
LEMMA UpExists ==
  ASSUME Inv, NEW s \in Streams, home[s] \in Folders, NEW f \in Up(parent, home[s])
  PROVE  f \in Folders /\ parent[f] \notin {New, Gone}
  <1> DEFINE S == {g \in Folders : parent[g] \notin {New, Gone}}
  <1>1. S \in SUBSET Folders /\ home[s] \in S /\ \A k \in S : parent[k] \in Folders => parent[k] \in S
    BY DEF Inv, TreeOK
  <1>2. f \in S
    <2> HIDE DEF S
    <2> QED BY <1>1 DEF Up
  <1> QED BY <1>2

\* What stays of the path of s.
PathKept(s) ==
    /\ home'[s] = home[s] /\ sname'[s] = sname[s]
    /\ \A f \in Up(parent, home[s]) : parent'[f] = parent[f] /\ fname'[f] = fname[f]

\* No reference is lost, and nothing that was deleted comes back.
Undamaged ==
    /\ \A f \in Folders : parent'[f] = parent[f] \/ parent'[f] \in Folders
    /\ \A t \in Streams : home'[t] = home[t] \/ (home'[t] \in Folders /\ home[t] # Gone)
    /\ destroyed' \subseteq destroyed

LockedKept ==
    \A s \in DataStreams : StreamLocked(s) /\ home[s] \in Folders => PathKept(s)

LEMMA PlaceParents ==
  ASSUME Inv, NEW place \in Places, NEW g \in Folders
  PROVE  place.parent[g] = parent[g] \/ place.parent[g] \in Folders
  <1>1. CASE place.parent = parent
    BY <1>1
  <1>2. ASSUME NEW f \in Folders, NEW q \in LiveFolders, place.parent = [parent EXCEPT ![f] = q]
        PROVE  place.parent[g] = parent[g] \/ place.parent[g] \in Folders
    BY <1>2 DEF LiveFolders, Inv, TreeOK
  <1>3. \/ place.parent = parent
        \/ \E f \in Folders, q \in LiveFolders : place.parent = [parent EXCEPT ![f] = q]
    <2>1. CASE place.at \in LiveFolders /\ place.parent = parent /\ place.fname = fname
      BY <2>1
    <2>2. CASE \E f \in Folders, q \in LiveFolders, n \in Names :
               /\ place.at = f /\ parent[f] = New
               /\ place.parent = [parent EXCEPT ![f] = q]
               /\ place.fname = [fname EXCEPT ![f] = n]
               /\ \A k \in LiveFolders : parent[k] = q => fname[k] # n
      BY <2>2
    <2> QED BY <2>1, <2>2, PlaceKinds
  <1> QED BY <1>1, <1>2, <1>3

LEMMA QuietPut ==
  ASSUME Inv, pend = {}, NEW t \in Streams, NEW n \in Names, PutStream(t, n),
         home[t] # Gone
  PROVE  /\ Undamaged /\ pend' = {}
         /\ \A s \in Streams : s # t /\ home[s] \in Folders => PathKept(s)
  <1>1. PICK place \in Places :
          Commit(place.parent, place.fname, [home EXCEPT ![t] = place.at],
                 [sname EXCEPT ![t] = n], dest, pend)
    BY DEF PutStream
  <1>2. /\ place.at \in Folders
        /\ \A f \in Folders : parent[f] # New =>
              place.parent[f] = parent[f] /\ place.fname[f] = fname[f]
        /\ place.parent \in [Folders -> Places0] /\ place.fname \in [Folders -> Names]
    BY PlaceTree DEF TreeOK
  <1>3. /\ [home EXCEPT ![t] = place.at] \in [Streams -> Places0]
        /\ [sname EXCEPT ![t] = n] \in [Streams -> Names]
    BY <1>2 DEF Inv, TreeOK, Places0
  <1>4. /\ parent' = place.parent /\ fname' = place.fname
        /\ home' = [home EXCEPT ![t] = place.at] /\ sname' = [sname EXCEPT ![t] = n]
        /\ pend' = {}
    BY <1>1, <1>2, <1>3, QuietCommit
  <1>5. /\ home'[t] = place.at
        /\ \A s \in Streams : s # t => home'[s] = home[s] /\ sname'[s] = sname[s]
    BY <1>4 DEF Inv, TreeOK
  <1>6. \A f \in Folders : parent'[f] = parent[f] \/ parent'[f] \in Folders
    BY <1>4, PlaceParents
  <1>7. destroyed' = destroyed
    BY DEF PutStream
  <1>8. Undamaged
    BY <1>2, <1>5, <1>6, <1>7 DEF Undamaged
  <1>9. \A s \in Streams : s # t /\ home[s] \in Folders => PathKept(s)
    BY <1>2, <1>4, <1>5, UpExists DEF PathKept
  <1> QED BY <1>4, <1>8, <1>9

LEMMA QuietRename ==
  ASSUME Inv, pend = {}, NEW t \in Streams, NEW n \in Names, Rename(t, n)
  PROVE  /\ Undamaged /\ pend' = {}
         /\ \A s \in Streams : s # t => PathKept(s)
  <1>1. [sname EXCEPT ![t] = n] \in [Streams -> Names]
    BY DEF Inv, TreeOK
  <1>2. UNCHANGED <<parent, fname, home>> /\ sname' = [sname EXCEPT ![t] = n] /\ pend' = {}
    <2>1. CASE home[t] = Null
      BY <2>1 DEF Rename
    <2>2. CASE home[t] # Null
      <3>1. Commit(parent, fname, home, [sname EXCEPT ![t] = n], dest, {})
        BY <2>2 DEF Rename
      <3> QED BY <1>1, <3>1, QuietCommit DEF Inv, TreeOK
    <2> QED BY <2>1, <2>2
  <1>3. destroyed' = destroyed
    BY DEF Rename
  <1>4. \A s \in Streams : s # t => sname'[s] = sname[s]
    BY <1>2 DEF Inv, TreeOK
  <1> QED BY <1>2, <1>3, <1>4 DEF Undamaged, PathKept

LEMMA QuietMoveFolder ==
  ASSUME Inv, pend = {}, NEW f \in Folders, MoveFolder(f)
  PROVE  Undamaged /\ pend' = {} /\ LockedKept
  <1>1. PICK place \in Places :
          Commit([place.parent EXCEPT ![f] = place.at], place.fname, home, sname, dest, pend)
    BY DEF MoveFolder
  <1>2. /\ place.at \in Folders
        /\ \A g \in Folders : parent[g] # New =>
              place.parent[g] = parent[g] /\ place.fname[g] = fname[g]
        /\ place.parent \in [Folders -> Places0] /\ place.fname \in [Folders -> Names]
    BY PlaceTree DEF TreeOK
  <1>3. [place.parent EXCEPT ![f] = place.at] \in [Folders -> Places0]
    BY <1>2 DEF Places0
  <1>4. /\ parent' = [place.parent EXCEPT ![f] = place.at] /\ fname' = place.fname
        /\ home' = home /\ sname' = sname /\ pend' = {}
    BY <1>1, <1>2, <1>3, QuietCommit DEF Inv, TreeOK
  <1>5. parent'[f] = place.at /\ \A g \in Folders : g # f => parent'[g] = place.parent[g]
    BY <1>2, <1>4
  <1>6. \A g \in Folders : place.parent[g] = parent[g] \/ place.parent[g] \in Folders
    BY PlaceParents
  <1>7. destroyed' = destroyed /\ ~FolderLocked(f)
    BY DEF MoveFolder
  <1>8. Undamaged
    BY <1>2, <1>4, <1>5, <1>6, <1>7 DEF Undamaged
  <1>9. ASSUME NEW s \in DataStreams, StreamLocked(s), home[s] \in Folders PROVE PathKept(s)
    <2>1. f \notin Up(parent, home[s]) /\ s \in Streams
      BY <1>7, <1>9 DEF FolderLocked, Streams
    <2> QED BY <1>2, <1>4, <1>5, <1>9, <2>1, UpExists DEF PathKept
  <1> QED BY <1>4, <1>8, <1>9 DEF LockedKept

LEMMA QuietUpdateFolder ==
  ASSUME Inv, pend = {}, NEW f \in Folders, NEW n \in Names, UpdateFolder(f, n)
  PROVE  Undamaged /\ pend' = {} /\ LockedKept
  <1>1. [fname EXCEPT ![f] = n] \in [Folders -> Names]
    BY DEF Inv, TreeOK
  <1>2. Commit(parent, [fname EXCEPT ![f] = n], home, sname, dest, {})
    BY DEF UpdateFolder
  <1>3. UNCHANGED <<parent, home, sname>> /\ fname' = [fname EXCEPT ![f] = n] /\ pend' = {}
    BY <1>1, <1>2, QuietCommit DEF Inv, TreeOK
  <1>4. destroyed' = destroyed /\ ~FolderLocked(f)
    BY DEF UpdateFolder
  <1>5. \A g \in Folders : g # f => fname'[g] = fname[g]
    BY <1>3 DEF Inv, TreeOK
  <1>6. ASSUME NEW s \in DataStreams, StreamLocked(s), home[s] \in Folders PROVE PathKept(s)
    <2>1. f \notin Up(parent, home[s]) /\ s \in Streams
      BY <1>4, <1>6 DEF FolderLocked, Streams
    <2> QED BY <1>3, <1>5, <1>6, <2>1, UpExists DEF PathKept
  <1> QED BY <1>3, <1>4, <1>6 DEF LockedKept, Undamaged

LEMMA QuietSame ==
  ASSUME UNCHANGED <<parent, fname, home, sname>>, destroyed' \subseteq destroyed
  PROVE  Undamaged /\ LockedKept
  BY DEF Undamaged, LockedKept, PathKept

LEMMA QuietRequest ==
  ASSUME Inv, pend = {}, RequestNext
  PROVE  Undamaged /\ pend' = {} /\ LockedKept
  <1> DEFINE Goal == Undamaged /\ pend' = {} /\ LockedKept
  <1>1. ASSUME NEW t \in Streams, NEW n \in Names, PutStream(t, n), home[t] # Gone,
               t \in DataStreams => ~StreamLocked(t) \/ home[t] = New
        PROVE  Goal
    <2>1. Undamaged /\ pend' = {} /\ \A s \in Streams : s # t /\ home[s] \in Folders => PathKept(s)
      BY <1>1, QuietPut
    <2>2. LockedKept
      BY <1>1, <2>1, Sorts DEF LockedKept, Streams
    <2> QED BY <2>1, <2>2
  <1>2. ASSUME NEW t \in Streams, NEW n \in Names, Rename(t, n), t \in DataStreams => ~StreamLocked(t)
        PROVE  Goal
    <2>1. Undamaged /\ pend' = {} /\ \A s \in Streams : s # t => PathKept(s)
      BY <1>2, QuietRename
    <2>2. LockedKept
      BY <1>2, <2>1 DEF LockedKept, Streams
    <2> QED BY <2>1, <2>2
  <1>3. ASSUME NEW s \in Streams,
               \/ MoveStream(s) \/ MoveEventStream(s)
               \/ \E n \in Names : CreateStream(s, n) \/ CreateEventStream(s, n)
        PROVE  Goal
    <2>1. PICK n \in Names : PutStream(s, n)
      BY <1>3 DEF MoveStream, MoveEventStream, CreateStream, CreateEventStream, Inv, TreeOK
    <2>2. home[s] # Gone
      BY <1>3, Sorts DEF MoveStream, MoveEventStream, CreateStream, CreateEventStream, LiveStreams
    <2>3. s \in DataStreams => ~StreamLocked(s) \/ home[s] = New
      BY <1>3, MetadataSorts DEF MoveStream, MoveEventStream, CreateStream, CreateEventStream
    <2> QED BY <1>1, <2>1, <2>2, <2>3
  <1>4. ASSUME NEW s \in Streams,
               \E n \in Names : UpdateStream(s, n) \/ UpdateEventStream(s, n)
        PROVE  Goal
    <2>1. PICK n \in Names : Rename(s, n)
      BY <1>4 DEF UpdateStream, UpdateEventStream
    <2>2. s \in DataStreams => ~StreamLocked(s)
      BY <1>4, MetadataSorts DEF UpdateStream, UpdateEventStream
    <2> QED BY <1>2, <2>1, <2>2
  <1>5. ASSUME NEW s \in Streams, DeleteStream(s) \/ DeleteEventStream(s) PROVE Goal
    BY <1>5, QuietSame DEF DeleteStream, DeleteEventStream, DestroyFirst, meta
  <1>6. ASSUME NEW f \in Folders, NEW r \in BOOLEAN, DeleteFolder(f, r) PROVE Goal
    BY <1>6, QuietSame DEF DeleteFolder, meta
  <1>7. ASSUME NEW s \in DataStreams, WriteBegin(s) \/ WriteRefused(s) \/ WriteEnd(s) PROVE Goal
    <2>1. PICK d : Commit(parent, fname, home, sname, d, {})
      BY <1>7 DEF WriteBegin, WriteRefused, WriteEnd
    <2>2. UNCHANGED <<parent, fname, home, sname>> /\ pend' = {}
      BY <2>1, QuietCommit DEF Inv, TreeOK
    <2>3. destroyed' \subseteq destroyed
      BY <1>7 DEF WriteBegin, WriteRefused, WriteEnd
    <2> QED BY <2>2, <2>3, QuietSame
  <1>8. ASSUME Refuse \/ Restart PROVE Goal
    BY <1>8, QuietSame DEF Refuse, Restart, meta
  <1>9. ASSUME NEW f \in Folders, MoveFolder(f) \/ \E n \in Names : UpdateFolder(f, n) PROVE Goal
    BY <1>9, QuietMoveFolder, QuietUpdateFolder
  <1> HIDE DEF Goal
  <1>10. Goal
    BY <1>3, <1>4, <1>5, <1>6, <1>7, <1>8, <1>9 DEF RequestNext
  <1> QED BY <1>10 DEF Goal

\* Neither a locked stream nor a folder above it is moved, renamed or deleted by a
\* request that meets no delete under way.
THEOREM LockedStays == Spec => LockedPathKept
  <1> DEFINE Step == \A s \in DataStreams :
                StreamLocked(s) /\ home[s] \in Folders /\ ~UnderWay =>
                   /\ home'[s] = home[s] /\ sname'[s] = sname[s]
                   /\ \A f \in Up(parent, home[s]) :
                         parent'[f] = parent[f] /\ fname'[f] = fname[f]
  <1>1. Inv /\ StackOK /\ [Next]_vars => [Step]_vars
    <2> SUFFICES ASSUME Inv, StackOK, Next, ~UnderWay PROVE Step
      BY DEF vars, meta
    <2>1. stack = <<>> /\ sdel = None /\ pend = {} /\ waiting = None
      BY DEF UnderWay, StackOK
    <2>2. ~DeleteNext
      BY <2>1 DEF DeleteNext, DeleteStreamDone, Destroyed, DeleteStreamFails, DestroyFails,
                  EnterKid, DestroyStream, SkipMoved, KidsDone, StreamsDone, Busy
    <2>3. LockedKept
      BY <2>1, <2>2, QuietRequest DEF Next
    <2> QED BY <2>3 DEF LockedKept, PathKept
  <1> QED BY <1>1, InvHolds, StackHolds, PTL DEF Spec, LockedPathKept

-----------------------------------------------------------------------------
(* A delete that no other request overlaps *)

\* What the frame i of a folder delete has done: in "streams" its streams are
\* marked or still listed, in "kids" its children are marked, listed or entered;
\* the folder of the request looks at its children first, the others at their
\* streams.
FrameOK(i) ==
    LET f == stack[i].f
    IN  /\ parent[f] \in Folders
        /\ stack[i].ks \subseteq Children(parent, f) /\ stack[i].ss \subseteq StreamsIn(f)
        /\ i < Len(stack) => stack[i].phase = "kids"
        /\ stack[i].phase = "kids" =>
              /\ \A g \in Children(parent, f) :
                    g \in stack[i].ks \/ g \in pend \/ (i < Len(stack) /\ stack[i + 1].f = g)
              /\ i > 1 => StreamsIn(f) \subseteq pend
        /\ stack[i].phase = "streams" =>
              /\ StreamsIn(f) \subseteq stack[i].ss \cup pend
              /\ i = 1 => Children(parent, f) \subseteq pend

\* A folder is marked after everything in it.
Ledger ==
    /\ \A i \in 1..Len(stack) : FrameOK(i)
    /\ \A f \in pend \cap Folders : Children(parent, f) \subseteq pend /\ StreamsIn(f) \subseteq pend
    /\ waiting # None => Last.phase = "streams" /\ home[waiting] = Last.f
    /\ sdel # None => stack = <<>> /\ pend = {} /\ home[sdel] \in Folders

Whole ==
    /\ \A f \in Folders : parent[f] = Null => f = Root
    /\ \A s \in Streams : home[s] # Null
    /\ \A s \in destroyed : home[s] = Gone \/ s \in pend

Undisturbed ==
    /\ destroyed \subseteq Streams
    /\ overlaps = 0 => Ledger /\ Whole

LEMMA OverlapQuiet ==
  ASSUME NEW c \in BOOLEAN, overlaps \in Nat, Overlap(c), overlaps' = 0
  PROVE  overlaps = 0 /\ ~c
  <1>1. overlaps' = IF c /\ overlaps < MaxOverlaps THEN overlaps + 1 ELSE overlaps
    BY DEF Overlap
  <1>2. overlaps = 0
    BY <1>1
  <1>3. 0 < MaxOverlaps
    BY MetadataConstants
  <1> QED BY <1>1, <1>2, <1>3

\* Marked objects alone: nothing is under way.
LEMMA IdleLedger ==
  ASSUME stack' = <<>>, waiting' = None, sdel' = None,
         \A f \in pend' \cap Folders :
            Children(parent', f) \subseteq pend' /\ StreamsIn(f)' \subseteq pend'
  PROVE  Ledger'
  <1>1. 1..Len(stack') = {}
    BY EmptySeq
  <1> QED BY <1>1 DEF Ledger

LEMMA RequestWhole ==
  ASSUME Inv, Whole, pend = {}, Undamaged, destroyed \subseteq Streams
  PROVE  Whole'
  <1>1. \A f \in Folders : parent'[f] = Null => f = Root
    BY Sorts DEF Whole, Undamaged
  <1>2. \A s \in Streams : home'[s] # Null
    BY Sorts DEF Whole, Undamaged
  <1>3. \A s \in destroyed' : home'[s] = Gone
    <2> SUFFICES ASSUME NEW s \in destroyed' PROVE home'[s] = Gone
      OBVIOUS
    <2>1. home[s] = Gone
      BY DEF Whole, Undamaged
    <2>2. s \in Streams
      BY DEF Undamaged
    <2> QED BY <2>1, <2>2 DEF Undamaged
  <1> QED BY <1>1, <1>2, <1>3 DEF Whole

LEMMA RequestCounts == ASSUME RequestNext PROVE Overlap(UnderWay)
  BY DEF RequestNext, MoveStream, MoveEventStream, CreateStream, CreateEventStream, PutStream,
         UpdateStream, UpdateEventStream, Rename, DeleteStream, DeleteEventStream, DestroyFirst,
         MoveFolder, UpdateFolder, DeleteFolder, WriteBegin, WriteRefused, WriteEnd, Refuse,
         Restart, Request

\* How a request leaves the tasks.
LEMMA RequestKinds ==
  ASSUME RequestNext
  PROVE  \/ UNCHANGED <<stack, waiting, sdel>>
         \/ stack' = <<>> /\ waiting' = None /\ sdel' = None
         \/ \E s \in LiveStreams : sdel' = s /\ UNCHANGED <<stack, waiting, home>>
         \/ \E f \in LiveFolders :
               /\ parent[f] # Null /\ stack' = <<Frame(f, "kids", Children(parent, f), {})>>
               /\ UNCHANGED <<parent, home, waiting, sdel>>
  <1>1. ASSUME NEW s \in Streams, DeleteStream(s) \/ DeleteEventStream(s)
        PROVE  s \in LiveStreams /\ sdel' = s /\ UNCHANGED <<stack, waiting, home>>
    BY <1>1 DEF DeleteStream, DeleteEventStream, DestroyFirst, task, meta
  <1>2. ASSUME NEW f \in Folders, NEW r \in BOOLEAN, DeleteFolder(f, r)
        PROVE  /\ f \in LiveFolders /\ parent[f] # Null
               /\ stack' = <<Frame(f, "kids", Children(parent, f), {})>>
               /\ UNCHANGED <<parent, home, waiting, sdel>>
    BY <1>2 DEF DeleteFolder, FolderLocked, meta
  <1>3. Restart => stack' = <<>> /\ waiting' = None /\ sdel' = None
    BY DEF Restart
  <1>4. Request => UNCHANGED <<stack, waiting, sdel>>
    BY DEF Request, task
  <1>5. ASSUME NEW s \in Streams,
               \/ MoveStream(s) \/ MoveEventStream(s)
               \/ \E n \in Names : \/ CreateStream(s, n) \/ CreateEventStream(s, n)
                                   \/ UpdateStream(s, n) \/ UpdateEventStream(s, n)
        PROVE  Request
    BY <1>5 DEF MoveStream, MoveEventStream, CreateStream, CreateEventStream, UpdateStream,
                UpdateEventStream, PutStream, Rename
  <1>6. ASSUME NEW f \in Folders, MoveFolder(f) \/ \E n \in Names : UpdateFolder(f, n)
        PROVE  Request
    BY <1>6 DEF MoveFolder, UpdateFolder
  <1>7. ASSUME NEW s \in DataStreams, WriteBegin(s) \/ WriteRefused(s) \/ WriteEnd(s)
        PROVE  Request
    BY <1>7 DEF WriteBegin, WriteRefused, WriteEnd
  <1>8. Refuse => Request
    BY DEF Refuse
  <1> QED BY <1>1, <1>2, <1>3, <1>4, <1>5, <1>6, <1>7, <1>8 DEF RequestNext

LEMMA RequestUndisturbed ==
  ASSUME Inv, StackOK, Undisturbed, RequestNext, overlaps' = 0
  PROVE  Ledger' /\ Whole'
  <1>1. overlaps = 0 /\ ~UnderWay
    <2>1. UnderWay \in BOOLEAN
      BY DEF UnderWay
    <2> QED BY <2>1, RequestCounts, OverlapQuiet DEF StackOK
  <1>2. stack = <<>> /\ sdel = None /\ pend = {} /\ waiting = None
    BY <1>1 DEF UnderWay, StackOK
  <1>3. Undamaged /\ pend' = {}
    BY <1>2, QuietRequest
  <1>4. Whole /\ Whole'
    BY <1>1, <1>2, <1>3, RequestWhole DEF Undisturbed
  <1>5. CASE stack' = <<>> /\ waiting' = None /\ sdel' = None
    BY <1>3, <1>4, <1>5, IdleLedger
  <1>6. ASSUME NEW s \in LiveStreams, sdel' = s, UNCHANGED <<stack, waiting, home>>
        PROVE  Ledger'
    <2>1. home[s] \in Folders
      BY <1>4 DEF LiveStreams, Whole, Inv, TreeOK, Places0
    <2>2. 1..Len(stack') = {}
      BY <1>2, <1>6, EmptySeq
    <2> QED BY <1>2, <1>3, <1>6, <2>1, <2>2 DEF Ledger
  <1>7. ASSUME NEW f \in LiveFolders, parent[f] # Null,
               stack' = <<Frame(f, "kids", Children(parent, f), {})>>,
               UNCHANGED <<parent, home, waiting, sdel>>
        PROVE  Ledger'
    <2>1. parent[f] \in Folders
      BY <1>7 DEF LiveFolders, Inv, TreeOK, Places0
    <2>2. /\ Len(stack') = 1 /\ stack'[1].f = f /\ stack'[1].phase = "kids"
          /\ stack'[1].ks = Children(parent, f) /\ stack'[1].ss = {}
      BY <1>7 DEF Frame
    <2>3. FrameOK(1)'
      BY <1>7, <2>1, <2>2 DEF FrameOK
    <2>4. \A i \in 1..Len(stack') : i = 1
      BY <2>2
    <2> QED BY <1>2, <1>3, <1>7, <2>3, <2>4 DEF Ledger
  <1>8. CASE UNCHANGED <<stack, waiting, sdel>>
    BY <1>2, <1>5, <1>8
  <1> QED BY <1>4, <1>5, <1>6, <1>7, <1>8, RequestKinds

\* A frame below the last keeps its account while objects are marked.
LEMMA FrameKept ==
  ASSUME NEW i \in 1..Len(stack), FrameOK(i), UNCHANGED <<parent, home>>, pend \subseteq pend',
         stack'[i] = stack[i], i < Len(stack') => stack[i].phase = "kids",
         i < Len(stack) => \/ stack[i + 1].f \in pend'
                           \/ i < Len(stack') /\ stack'[i + 1].f = stack[i + 1].f
  PROVE  FrameOK(i)'
  <1>1. UNCHANGED <<Children(parent, stack[i].f), StreamsIn(stack[i].f)>>
    BY DEF Children, StreamsIn
  <1>2. stack'[i].f = stack[i].f /\ stack'[i].phase = stack[i].phase
        /\ stack'[i].ks = stack[i].ks /\ stack'[i].ss = stack[i].ss
    OBVIOUS
  <1>3. ASSUME stack[i].phase = "kids", NEW g \in Children(parent, stack[i].f)
        PROVE  g \in stack[i].ks \/ g \in pend' \/ (i < Len(stack') /\ stack'[i + 1].f = g)
    BY <1>3 DEF FrameOK
  <1> QED BY <1>1, <1>2, <1>3 DEF FrameOK, Children, StreamsIn

\* What is marked is closed: nothing outside refers to it.
Closed(x) == \A f \in x \cap Folders : Children(parent, f) \subseteq x /\ StreamsIn(f) \subseteq x

\* The commit of a delete leaves no reference behind.
LEMMA CommitWhole ==
  ASSUME Inv, Whole, NEW x, x \subseteq Folders \cup Streams, Closed(x),
         \A s \in destroyed' : home[s] = Gone \/ s \in x,
         destroyed' \subseteq Streams, Commit(parent, fname, home, sname, dest, x)
  PROVE  Whole' /\ pend' = {}
  <1>1. \A f \in Folders : f \notin x => parent[f] \notin x
    <2> SUFFICES ASSUME NEW f \in Folders, parent[f] \in x PROVE f \in x
      OBVIOUS
    <2>1. parent[f] \in Folders
      BY Sorts DEF Inv, TreeOK, Places0
    <2> QED BY <2>1 DEF Closed, Children
  <1>2. \A s \in Streams : s \notin x => home[s] \notin x
    <2> SUFFICES ASSUME NEW s \in Streams, home[s] \in x PROVE s \in x
      OBVIOUS
    <2>1. home[s] \in Folders
      BY Sorts DEF Inv, TreeOK, Places0
    <2> QED BY <2>1 DEF Closed, StreamsIn
  <1>3. ~Stranded(home, x)
    BY <1>2 DEF Stranded, Streams
  <1>4. /\ parent' = [f \in Folders |-> CASE f \in x -> Gone
                                          [] f \notin x /\ parent[f] \in x -> Null
                                          [] OTHER -> parent[f]]
        /\ home' = [s \in Streams |-> CASE s \in x -> Gone
                                        [] s \notin x /\ home[s] \in x -> Null
                                        [] OTHER -> home[s]]
        /\ pend' = {}
    BY <1>3 DEF Commit
  <1>5. \A f \in Folders : parent'[f] = IF f \in x THEN Gone ELSE parent[f]
    BY <1>1, <1>4
  <1>6. \A s \in Streams : home'[s] = IF s \in x THEN Gone ELSE home[s]
    BY <1>2, <1>4
  <1>7. \A f \in Folders : parent'[f] = Null => f = Root
    BY <1>5, Sorts DEF Whole
  <1>8. \A s \in Streams : home'[s] # Null
    BY <1>6, Sorts DEF Whole
  <1>9. \A s \in destroyed' : home'[s] = Gone
    BY <1>6
  <1> QED BY <1>4, <1>7, <1>8, <1>9 DEF Whole

\* Steps of a delete that change no metadata.
LEMMA SameWhole ==
  ASSUME Whole, UNCHANGED <<parent, home>>, pend \subseteq pend',
         destroyed' \subseteq destroyed \cup pend'
  PROVE  Whole'
  BY DEF Whole

LEMMA SameClosed ==
  ASSUME Ledger, UNCHANGED <<parent, home>>, pend' \cap Folders = pend \cap Folders, pend \subseteq pend'
  PROVE  \A f \in pend' \cap Folders :
            Children(parent', f) \subseteq pend' /\ StreamsIn(f)' \subseteq pend'
  BY DEF Ledger, Children, StreamsIn

\* The handler is over without a commit, and what it marked stays marked.
LEMMA AbortUndisturbed ==
  ASSUME Ledger, Whole, Abort(FALSE), UNCHANGED <<parent, home, destroyed, sdel>>, sdel = None
  PROVE  Ledger' /\ Whole'
  <1>1. stack' = <<>> /\ waiting' = None /\ pend' = pend
    BY DEF Abort
  <1>2. Whole'
    BY <1>1, SameWhole
  <1>3. Ledger'
    BY <1>1, SameClosed, IdleLedger
  <1> QED BY <1>2, <1>3

LEMMA BusyLast ==
  ASSUME StackOK, Ledger, stack # <<>>
  PROVE  /\ Len(stack) \in Nat /\ Len(stack) >= 1 /\ Len(stack) \in 1..Len(stack)
         /\ Last = stack[Len(stack)] /\ Last \in Frames /\ FrameOK(Len(stack))
         /\ sdel = None /\ Last.f \in Folders
         /\ parent[Last.f] \in Folders
         /\ Last.ks \subseteq Children(parent, Last.f) /\ Last.ss \subseteq StreamsIn(Last.f)
  <1>1. /\ Len(stack) \in Nat /\ Len(stack) >= 1 /\ Len(stack) \in 1..Len(stack)
        /\ Last = stack[Len(stack)] /\ Last \in Frames
    BY LastFrame
  <1>2. FrameOK(Len(stack)) /\ sdel = None
    BY <1>1 DEF Ledger
  <1>3. Last.f \in Folders
    BY <1>1 DEF Frames
  <1> QED BY <1>1, <1>2, <1>3 DEF FrameOK

\* The last frame is replaced by one for the same folder.
LEMMA ReplaceUndisturbed ==
  ASSUME StackOK, Ledger, Whole, stack # <<>>, NEW frame \in Frames,
         SetLast(frame), frame.f = Last.f, UNCHANGED <<parent, home, sdel>>, pend \subseteq pend',
         pend' \cap Folders = pend \cap Folders, waiting' = None,
         destroyed' \subseteq destroyed \cup pend',
         frame.ks \subseteq Children(parent, frame.f), frame.ss \subseteq StreamsIn(frame.f),
         frame.phase = "kids" =>
            /\ Children(parent, frame.f) \subseteq frame.ks \cup pend'
            /\ Len(stack) > 1 => StreamsIn(frame.f) \subseteq pend',
         frame.phase = "streams" =>
            /\ StreamsIn(frame.f) \subseteq frame.ss \cup pend'
            /\ Len(stack) = 1 => Children(parent, frame.f) \subseteq pend'
  PROVE  Ledger' /\ Whole'
  <1>1. PICK n \in Nat : /\ n = Len(stack) /\ n >= 1 /\ n \in 1..n /\ Last = stack[n]
                         /\ sdel = None /\ parent[Last.f] \in Folders
    BY BusyLast
  <1>2. /\ Len(stack') = n /\ \A i \in 1..n : stack'[i] = IF i = n THEN frame ELSE stack[i]
    BY <1>1, Replaced DEF SetLast
  <1>3. stack'[n] = frame
    BY <1>1, <1>2
  <1>4. FrameOK(n)'
    <2>1. ~(n < Len(stack')) /\ parent'[frame.f] \in Folders /\ n = Len(stack)
      BY <1>1, <1>2
    <2>2. Children(parent', frame.f) = Children(parent, frame.f)
      BY DEF Children
    <2>3. StreamsIn(frame.f)' = StreamsIn(frame.f)
      BY DEF StreamsIn
    <2>4. /\ stack'[n].phase = "kids" =>
               /\ \A g \in Children(parent', frame.f) : g \in frame.ks \/ g \in pend'
               /\ n > 1 => StreamsIn(frame.f)' \subseteq pend'
          /\ stack'[n].phase = "streams" =>
               /\ StreamsIn(frame.f)' \subseteq frame.ss \cup pend'
               /\ n = 1 => Children(parent', frame.f) \subseteq pend'
      BY <1>3, <2>1, <2>2, <2>3
    <2>5. frame.ks \subseteq Children(parent', frame.f) /\ frame.ss \subseteq StreamsIn(frame.f)'
      BY <2>2, <2>3
    <2> QED BY <1>3, <2>1, <2>4, <2>5 DEF FrameOK, StreamsIn
  <1>5. ASSUME NEW i \in 1..n, i # n PROVE FrameOK(i)'
    <2>1. i \in 1..Len(stack) /\ FrameOK(i) /\ i < Len(stack) /\ i < Len(stack')
      BY <1>1, <1>2, <1>5 DEF Ledger
    <2>2. stack'[i] = stack[i]
      BY <1>2, <1>5
    <2>3. stack'[i + 1].f = stack[i + 1].f
      <3>1. i + 1 \in 1..n
        BY <1>1, <1>5
      <3>2. CASE i + 1 = n
        BY <1>1, <1>3, <3>2
      <3>3. CASE i + 1 # n
        BY <1>2, <3>1, <3>3
      <3> QED BY <3>2, <3>3
    <2>4. stack[i].phase = "kids"
      BY <2>1 DEF FrameOK
    <2> QED BY <2>1, <2>2, <2>3, <2>4, FrameKept
  <1>6. \A i \in 1..Len(stack') : FrameOK(i)'
    BY <1>2, <1>4, <1>5
  <1>7. Ledger'
    BY <1>1, <1>6, SameClosed DEF Ledger
  <1> QED BY <1>7, SameWhole

LEMMA EnterUndisturbed ==
  ASSUME Inv, StackOK, Ledger, Whole, NEW g \in Folders, EnterKid(g)
  PROVE  Ledger' /\ Whole'
  <1>1. /\ stack # <<>> /\ waiting = None /\ Last.phase = "kids" /\ g \in Last.ks
        /\ UNCHANGED <<parent, home, sdel, destroyed>>
    BY DEF EnterKid, Busy, meta
  <1>2. PICK n \in Nat : /\ n = Len(stack) /\ n >= 1 /\ n \in 1..n /\ Last = stack[n]
                         /\ sdel = None /\ Last \in Frames /\ FrameOK(n)
                         /\ parent[g] = Last.f /\ Last.f \in Folders
    BY <1>1, BusyLast DEF Children
  <1>3. /\ pend' = pend /\ waiting' = waiting
        /\ stack' = Append([stack EXCEPT ![Len(stack)].ks = @ \ {g}],
                           Frame(g, "streams", {}, StreamsIn(g)))
    BY <1>2, Sorts DEF EnterKid
  <1>4. /\ Len(stack') = n + 1
        /\ \A i \in 1..(n - 1) : stack'[i] = stack[i]
        /\ stack'[n] = [Last EXCEPT !.ks = @ \ {g}]
        /\ stack'[n + 1] = Frame(g, "streams", {}, StreamsIn(g))
    BY <1>1, <1>2, <1>3, Entered
  <1>5. /\ stack'[n + 1].f = g /\ stack'[n + 1].phase = "streams" /\ stack'[n + 1].ks = {}
        /\ stack'[n + 1].ss = StreamsIn(g)
    BY <1>4 DEF Frame
  <1>6. /\ stack'[n].f = Last.f /\ stack'[n].phase = "kids" /\ stack'[n].ks = Last.ks \ {g}
        /\ stack'[n].ss = Last.ss
    BY <1>1, <1>2, <1>4 DEF Frames
  <1>7. \A f : Children(parent', f) = Children(parent, f) /\ StreamsIn(f)' = StreamsIn(f)
    BY <1>1 DEF Children, StreamsIn
  <1>8. FrameOK(n + 1)'
    <2>1. ~(n + 1 < Len(stack')) /\ n + 1 # 1
      BY <1>2, <1>4
    <2> QED BY <1>1, <1>2, <1>5, <1>7, <2>1 DEF FrameOK, StreamsIn
  <1>9. FrameOK(n)'
    <2>1. n < Len(stack') /\ ~(n < Len(stack))
      BY <1>2, <1>4
    <2>2. /\ parent[Last.f] \in Folders
          /\ Last.ks \subseteq Children(parent, Last.f) /\ Last.ss \subseteq StreamsIn(Last.f)
          /\ \A k \in Children(parent, Last.f) : k \in Last.ks \/ k \in pend
          /\ n > 1 => StreamsIn(Last.f) \subseteq pend
      BY <1>1, <1>2, <2>1 DEF FrameOK
    <2>3. \A k \in Children(parent, Last.f) :
             k \in Last.ks \ {g} \/ k \in pend \/ (n < Len(stack') /\ stack'[n + 1].f = k)
      BY <1>5, <2>1, <2>2
    <2> QED BY <1>1, <1>3, <1>6, <1>7, <2>1, <2>2, <2>3 DEF FrameOK, StreamsIn
  <1>10. ASSUME NEW i \in 1..n, i # n PROVE FrameOK(i)'
    <2>1. i \in 1..Len(stack) /\ FrameOK(i) /\ i < Len(stack) /\ i < Len(stack')
      BY <1>2, <1>4, <1>10 DEF Ledger
    <2>2. stack'[i] = stack[i]
      BY <1>2, <1>4, <1>10
    <2>3. stack'[i + 1].f = stack[i + 1].f
      <3>1. CASE i + 1 = n
        BY <1>2, <1>6, <3>1
      <3>2. CASE i + 1 # n
        <4>1. i + 1 \in 1..(n - 1)
          BY <1>2, <1>10, <3>2
        <4> QED BY <1>4, <4>1
      <3> QED BY <3>1, <3>2
    <2>4. stack[i].phase = "kids"
      BY <2>1 DEF FrameOK
    <2> QED BY <1>1, <1>3, <2>1, <2>2, <2>3, <2>4, FrameKept
  <1>11. \A i \in 1..Len(stack') : FrameOK(i)'
    <2>1. \A i \in 1..Len(stack') : i = n + 1 \/ i \in 1..n
      BY <1>2, <1>4
    <2> QED BY <1>8, <1>9, <1>10, <2>1
  <1>12. Ledger'
    BY <1>1, <1>2, <1>3, <1>11, SameClosed DEF Ledger
  <1> QED BY <1>1, <1>3, <1>12, SameWhole

\* A child folder is marked once its streams and its children are.
LEMMA PopUndisturbed ==
  ASSUME Inv, StackOK, Ledger, Whole, KidsDone, Len(stack) # 1
  PROVE  Ledger' /\ Whole'
  <1>1. /\ stack # <<>> /\ waiting = None /\ Last.phase = "kids" /\ Last.ks = {}
        /\ UNCHANGED <<parent, home, sdel, destroyed, waiting>>
        /\ pend' = pend \cup {Last.f} /\ stack' = SubSeq(stack, 1, Len(stack) - 1)
    BY DEF KidsDone, Busy, meta
  <1>2. PICK n \in Nat : /\ n = Len(stack) /\ n >= 1 /\ n \in 1..n /\ Last = stack[n]
                         /\ sdel = None /\ FrameOK(n) /\ Last.f \in Folders
    BY <1>1, BusyLast
  <1>3. /\ n >= 2 /\ Len(stack') = n - 1 /\ \A i \in 1..(n - 1) : stack'[i] = stack[i]
    BY <1>1, <1>2, Popped
  <1>4. Children(parent, Last.f) \subseteq pend /\ StreamsIn(Last.f) \subseteq pend
    <2>1. ~(n < Len(stack)) /\ n > 1
      BY <1>2, <1>3
    <2> QED BY <1>1, <1>2, <2>1 DEF FrameOK
  <1>5. \A f \in pend' \cap Folders :
           Children(parent', f) \subseteq pend' /\ StreamsIn(f)' \subseteq pend'
    BY <1>1, <1>4 DEF Ledger, Children, StreamsIn
  <1>6. ASSUME NEW i \in 1..(n - 1) PROVE FrameOK(i)'
    <2>1. i \in 1..Len(stack) /\ FrameOK(i) /\ i < Len(stack)
      BY <1>2, <1>3, <1>6 DEF Ledger
    <2>2. stack'[i] = stack[i]
      BY <1>3, <1>6
    <2>3. stack[i + 1].f \in pend' \/ (i < Len(stack') /\ stack'[i + 1].f = stack[i + 1].f)
      <3>1. CASE i + 1 = n
        BY <1>1, <1>2, <3>1
      <3>2. CASE i + 1 # n
        <4>1. i + 1 \in 1..(n - 1) /\ i < n - 1
          BY <1>2, <1>3, <1>6, <3>2
        <4> QED BY <1>3, <4>1
      <3> QED BY <3>1, <3>2
    <2>4. stack[i].phase = "kids"
      BY <2>1 DEF FrameOK
    <2> QED BY <1>1, <2>1, <2>2, <2>3, <2>4, FrameKept
  <1>7. \A i \in 1..Len(stack') : FrameOK(i)'
    BY <1>3, <1>6
  <1>8. Ledger'
    BY <1>1, <1>2, <1>5, <1>7 DEF Ledger
  <1> QED BY <1>1, <1>8, SameWhole

LEMMA DeleteUndisturbed ==
  ASSUME Inv, StackOK, destroyed \subseteq Streams, Ledger, Whole, DeleteNext,
         overlaps = 0, overlaps' = 0
  PROVE  Ledger' /\ Whole'
  <1>1. CASE DeleteStreamDone
    <2>1. /\ sdel # None /\ destroyed' = destroyed \cup {sdel} /\ sdel' = None
          /\ UNCHANGED <<stack, waiting>>
      BY <1>1 DEF DeleteStreamDone, task
    <2>2. /\ stack = <<>> /\ pend = {} /\ home[sdel] \in Folders /\ sdel \in Streams
          /\ waiting = None
      BY <2>1 DEF Ledger, StackOK
    <2>3. Commit(parent, fname, home, sname, dest, {sdel})
      BY <1>1, <2>2, Sorts DEF DeleteStreamDone
    <2>4. Closed({sdel})
      BY <2>2, Sorts DEF Closed
    <2>5. Whole' /\ pend' = {}
      BY <2>1, <2>2, <2>3, <2>4, CommitWhole DEF Whole
    <2> QED BY <2>1, <2>2, <2>5, IdleLedger
  <1>2. ASSUME NEW dropped \in BOOLEAN, DeleteStreamFails(dropped) PROVE Ledger' /\ Whole'
    <2>1. /\ sdel # None /\ ~dropped /\ sdel' = None
          /\ UNCHANGED <<parent, home, stack, waiting, pend>>
      BY <1>2, OverlapQuiet DEF DeleteStreamFails, task, meta, StackOK
    <2>2. destroyed' = destroyed
      BY <1>2, <2>1 DEF DeleteStreamFails
    <2>3. stack = <<>> /\ waiting = None /\ pend = {}
      BY <2>1 DEF Ledger, StackOK
    <2> QED BY <2>1, <2>2, <2>3, IdleLedger, SameWhole
  <1>3. CASE Destroyed
    <2>1. /\ waiting # None /\ stack # <<>> /\ waiting \in Streams
          /\ destroyed' = destroyed \cup {waiting} /\ UNCHANGED <<parent, home, sdel>>
          /\ Last.phase = "streams" /\ home[waiting] = Last.f
      BY <1>3 DEF Destroyed, StackOK, Ledger, meta
    <2>2. /\ Last \in Frames /\ Last.f \in Folders /\ Last = stack[Len(stack)]
          /\ FrameOK(Len(stack)) /\ Len(stack) \in Nat
          /\ Last.ks \subseteq Children(parent, Last.f) /\ Last.ss \subseteq StreamsIn(Last.f)
      BY <2>1, BusyLast
    <2> DEFINE frame == [Last EXCEPT !.ss = @ \ {waiting}]
    <2>3. SetLast(frame) /\ pend' = pend \cup {waiting} /\ waiting' = None
      BY <1>3, <2>1, <2>2, Sorts DEF Destroyed
    <2>4. /\ frame \in Frames /\ frame.f = Last.f /\ frame.phase = "streams"
          /\ frame.ks = Last.ks /\ frame.ss = Last.ss \ {waiting}
      BY <2>1, <2>2 DEF Frames
    <2>5. /\ StreamsIn(Last.f) \subseteq Last.ss \cup pend
          /\ Len(stack) = 1 => Children(parent, Last.f) \subseteq pend
      BY <2>1, <2>2 DEF FrameOK
    <2>6. pend' \cap Folders = pend \cap Folders
      BY <2>1, <2>3, Sorts
    <2>7. destroyed' \subseteq destroyed \cup pend'
      BY <2>1, <2>3
    <2> HIDE DEF frame
    <2> QED BY <2>1, <2>2, <2>3, <2>4, <2>5, <2>6, <2>7, ReplaceUndisturbed
  <1>4. ASSUME NEW dropped \in BOOLEAN, DestroyFails(dropped) PROVE Ledger' /\ Whole'
    <2>1. waiting # None /\ ~dropped /\ Abort(FALSE) /\ UNCHANGED <<parent, home, sdel>>
      BY <1>4, OverlapQuiet DEF DestroyFails, meta, StackOK
    <2>2. destroyed' = destroyed /\ stack # <<>>
      BY <1>4, <2>1 DEF DestroyFails, StackOK
    <2>3. sdel = None
      BY <2>2 DEF Ledger
    <2> QED BY <2>1, <2>2, <2>3, AbortUndisturbed
  <1>5. ASSUME NEW g \in Folders, EnterKid(g) PROVE Ledger' /\ Whole'
    BY <1>5, EnterUndisturbed
  <1>6. ASSUME NEW s \in Streams, DestroyStream(s) PROVE Ledger' /\ Whole'
    <2>1. /\ stack # <<>> /\ Last.phase = "streams" /\ s \in Last.ss \cup StreamsIn(Last.f)
          /\ UNCHANGED <<parent, home, sdel, destroyed>>
      BY <1>6 DEF DestroyStream, Busy, meta
    <2>2. /\ Last.f \in Folders /\ sdel = None /\ home[s] = Last.f
      BY <2>1, BusyLast DEF StreamsIn
    <2>3. CASE StreamLocked(s)
      <3>1. Abort(FALSE)
        <4>1. (home[s] = Gone) = FALSE
          BY <2>2, Sorts
        <4> QED BY <1>6, <2>3, <4>1 DEF DestroyStream
      <3> QED BY <2>1, <2>2, <3>1, AbortUndisturbed
    <2>4. CASE ~StreamLocked(s)
      <3>1. waiting' = s /\ UNCHANGED <<stack, pend>>
        BY <1>6, <2>2, <2>4, Sorts DEF DestroyStream
      <3>2. \A i \in 1..Len(stack') : FrameOK(i)'
        BY <2>1, <3>1 DEF Ledger, FrameOK, Children, StreamsIn
      <3>3. Last' = Last
        BY <3>1 DEF Last
      <3>4. Ledger'
        BY <2>1, <2>2, <3>1, <3>2, <3>3, SameClosed DEF Ledger
      <3> QED BY <2>1, <3>1, <3>4, SameWhole
    <2> QED BY <2>3, <2>4
  <1>7. CASE SkipMoved
    <2>1. stack # <<>>
      BY <1>7 DEF SkipMoved, Busy
    <2>2. Last.ks \subseteq Children(parent, Last.f) /\ Last.ss \subseteq StreamsIn(Last.f)
      BY <2>1, BusyLast
    <2> QED BY <1>7, <2>2 DEF SkipMoved, Children, StreamsIn
  <1>8. CASE KidsDone
    <2>1. CASE Len(stack) # 1
      BY <1>8, <2>1, PopUndisturbed
    <2>2. CASE Len(stack) = 1
      <3>1. /\ stack # <<>> /\ waiting = None /\ Last.phase = "kids" /\ Last.ks = {}
            /\ UNCHANGED <<parent, home, sdel, destroyed, pend, waiting>>
            /\ SetLast(Frame(Last.f, "streams", {}, StreamsIn(Last.f)))
        BY <1>8, <2>2 DEF KidsDone, Busy, meta
      <3>2. Last.f \in Folders /\ Last = stack[Len(stack)] /\ FrameOK(Len(stack))
        BY <3>1, BusyLast
      <3>3. Children(parent, Last.f) \subseteq pend
        BY <2>2, <3>1, <3>2 DEF FrameOK
      <3> DEFINE frame == Frame(Last.f, "streams", {}, StreamsIn(Last.f))
      <3>4. /\ frame \in Frames /\ frame.f = Last.f /\ frame.phase = "streams"
            /\ frame.ks = {} /\ frame.ss = StreamsIn(Last.f)
        BY <3>2 DEF Frame, Frames, StreamsIn
      <3> HIDE DEF frame
      <3>5. SetLast(frame)
        BY <3>1 DEF frame
      <3> QED BY <3>1, <3>3, <3>4, <3>5, ReplaceUndisturbed
    <2> QED BY <2>1, <2>2
  <1>9. CASE StreamsDone
    <2>1. /\ stack # <<>> /\ waiting = None /\ Last.phase = "streams" /\ Last.ss = {}
          /\ UNCHANGED <<waiting, sdel, destroyed>>
      BY <1>9 DEF StreamsDone, Busy
    <2>2. /\ Last.f \in Folders /\ Last = stack[Len(stack)] /\ FrameOK(Len(stack))
          /\ parent[Last.f] \in Folders /\ sdel = None /\ Len(stack) \in Nat /\ Len(stack) >= 1
      BY <2>1, BusyLast
    <2>3. /\ StreamsIn(Last.f) \subseteq pend
          /\ Len(stack) = 1 => Children(parent, Last.f) \subseteq pend
      BY <2>1, <2>2 DEF FrameOK
    <2>4. CASE Len(stack) > 1
      <3> DEFINE frame == Frame(Last.f, "kids", Children(parent, Last.f), {})
      <3>1. SetLast(frame) /\ UNCHANGED <<parent, home, pend>>
        BY <1>9, <2>4 DEF StreamsDone, meta
      <3>2. /\ frame \in Frames /\ frame.f = Last.f /\ frame.phase = "kids"
            /\ frame.ks = Children(parent, Last.f) /\ frame.ss = {}
        BY <2>2 DEF Frame, Frames, Children
      <3> HIDE DEF frame
      <3> QED BY <2>1, <2>3, <3>1, <3>2, ReplaceUndisturbed
    <2>5. CASE ~(Len(stack) > 1)
      <3>1. Len(stack) = 1
        <4>1. PICK n \in Nat : n = Len(stack)
          BY <2>2
        <4>2. n >= 1 /\ ~(n > 1)
          BY <2>2, <2>5, <4>1
        <4>3. n = 1
          BY <4>2, <4>1, SMT
        <4> QED BY <4>1, <4>3
      <3> DEFINE x == pend \cup {Last.f}
      <3>2. stack' = <<>> /\ Commit(parent, fname, home, sname, dest, x)
        BY <1>9, <2>2, <2>5, Sorts DEF StreamsDone
      <3>3. x \subseteq Folders \cup Streams
        BY <2>2 DEF StackOK
      <3>4. Closed(x)
        BY <2>3, <3>1 DEF Closed, Ledger
      <3>5. \A s \in destroyed' : home[s] = Gone \/ s \in x
        BY <2>1 DEF Whole
      <3> HIDE DEF x
      <3>6. Whole' /\ pend' = {}
        BY <2>1, <3>2, <3>3, <3>4, <3>5, CommitWhole
      <3> QED BY <2>1, <2>2, <3>2, <3>6, IdleLedger
    <2> QED BY <2>4, <2>5
  <1> QED BY <1>1, <1>2, <1>3, <1>4, <1>5, <1>6, <1>7, <1>8, <1>9 DEF DeleteNext

LEMMA DestroyedAreStreams ==
  ASSUME StackOK, destroyed \subseteq Streams, Next PROVE destroyed' \subseteq Streams
  <1>1. CASE RequestNext
    <2>1. destroyed' \subseteq destroyed
      BY <1>1 DEF RequestNext, MoveStream, MoveEventStream, CreateStream, CreateEventStream,
                  PutStream, UpdateStream, UpdateEventStream, Rename, DeleteStream,
                  DeleteEventStream, DestroyFirst, MoveFolder, UpdateFolder, DeleteFolder,
                  WriteBegin, WriteRefused, WriteEnd, Refuse, Restart
    <2> QED BY <2>1
  <1>2. CASE DeleteNext
    BY <1>2 DEF DeleteNext, DeleteStreamDone, Destroyed, DeleteStreamFails, DestroyFails,
                EnterKid, DestroyStream, SkipMoved, KidsDone, StreamsDone, StackOK
  <1> QED BY <1>1, <1>2 DEF Next

LEMMA DeleteCounts ==
  ASSUME StackOK, DeleteNext, overlaps' = 0 PROVE overlaps = 0
  <1>1. \/ overlaps' = overlaps
        \/ \E dropped \in BOOLEAN : Overlap(dropped)
    BY DEF DeleteNext, DeleteStreamDone, Destroyed, DeleteStreamFails, DestroyFails,
           EnterKid, DestroyStream, SkipMoved, KidsDone, StreamsDone
  <1> QED BY <1>1, OverlapQuiet DEF StackOK

\* A delete that no other request overlaps leaves one root, every folder and
\* stream below it and no stream without its data, even when the store fails
\* half-way: a folder is marked only after everything in it.
THEOREM DeletesWhole == Spec => []TreeWhole
  <1>1. Init => Undisturbed
    <2> SUFFICES ASSUME Init PROVE Undisturbed
      OBVIOUS
    <2>1. /\ parent = [f \in Folders |-> IF f = Root THEN Null ELSE New]
          /\ home = [s \in Streams |-> IF s \in Configured \cup Outputs THEN Root ELSE New]
          /\ stack = <<>> /\ waiting = None /\ sdel = None /\ pend = {} /\ destroyed = {}
      BY DEF Init
    <2>2. \A f \in Folders : parent[f] = Null => f = Root
      BY <2>1, Sorts
    <2>3. \A s \in Streams : home[s] # Null
      BY <2>1, Sorts
    <2>4. 1..Len(stack) = {}
      BY <2>1, EmptySeq
    <2> QED BY <2>1, <2>2, <2>3, <2>4 DEF Undisturbed, Ledger, Whole
  <1>2. Inv /\ StackOK /\ Undisturbed /\ [Next]_vars => Undisturbed'
    <2> SUFFICES ASSUME Inv, StackOK, Undisturbed, [Next]_vars PROVE Undisturbed'
      OBVIOUS
    <2>1. CASE Next
      <3>1. destroyed' \subseteq Streams
        BY <2>1, DestroyedAreStreams DEF Undisturbed
      <3>2. ASSUME overlaps' = 0 PROVE Ledger' /\ Whole'
        <4>1. CASE RequestNext
          BY <3>2, <4>1, RequestUndisturbed
        <4>2. CASE DeleteNext
          BY <3>2, <4>2, DeleteCounts, DeleteUndisturbed DEF Undisturbed
        <4> QED BY <2>1, <4>1, <4>2 DEF Next
      <3> QED BY <3>1, <3>2 DEF Undisturbed
    <2>2. CASE UNCHANGED vars
      BY <2>2 DEF vars, meta, task, Undisturbed, Ledger, FrameOK, Last, Whole, Children, StreamsIn
    <2> QED BY <2>1, <2>2
  <1>3. Undisturbed => TreeWhole
    BY DEF Undisturbed, Whole, TreeWhole
  <1> QED BY <1>1, <1>2, <1>3, InvHolds, StackHolds, PTL DEF Spec

=============================================================================
