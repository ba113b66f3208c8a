------------------------------- MODULE Metadata -------------------------------
(***************************************************************************)
(* The tree of folders and streams and the requests that change it         *)
(* (joule/controllers: folder, stream, event and data controller, over     *)
(* joule/models/folder.py).  All handlers share one SQLAlchemy session     *)
(* and one event loop: a handler runs to its next await, commits or rolls  *)
(* back what every handler has pending, and only the deletes await (the    *)
(* data store) between their changes.                                      *)
(*                                                                         *)
(* What the session holds uncommitted across an await is a set of objects  *)
(* marked as deleted (pend).  Timestamps, descriptions and elements are    *)
(* left out.                                                               *)
(***************************************************************************)
EXTENDS Naturals, Sequences

CONSTANTS
    Folders, Root,
    DataStreams, EventStreams,
    Id,          \* primary keys: distinct for streams of one kind only
    Names,
    Configured,  \* data streams with a *.conf file, or read by a module
    Outputs,     \* data streams written by a module
    MaxWriters,  \* bound: HTTP writes under way on one stream
    MaxOverlaps  \* bound: requests handled while a delete is under way

Streams == DataStreams \cup EventStreams

\* Null is a foreign key without a value, Gone a deleted row, New a row that
\* is not created yet.
Null == "null"
Gone == "gone"
New == "new"
None == "none"

ASSUME MetadataConstants ==
    /\ Root \in Folders
    /\ Configured \subseteq DataStreams /\ Outputs \subseteq DataStreams
    /\ Id \in [Streams -> Nat] /\ MaxWriters \in Nat /\ MaxOverlaps \in Nat \ {0}
    /\ \A kind \in {DataStreams, EventStreams} :
          \A s, t \in kind : s # t => Id[s] # Id[t]

ASSUME MetadataSorts ==
    /\ Names # {}
    /\ DataStreams \cap EventStreams = {}
    /\ Folders \cap Streams = {}
    /\ (Folders \cup Streams) \cap {Null, Gone, New, None} = {}

VARIABLES
    parent, fname,   \* of each folder: its parent folder and its name
    home, sname,     \* of each stream: its folder and its name
    dest,            \* is_destination of the data streams
    pend,            \* objects marked as deleted in the session
    writers,         \* HTTP writes under way, per data stream
    stack,           \* frames of the folder delete under way
    waiting,         \* the stream whose data it waits to be destroyed
    sdel,            \* the stream delete under way
    destroyed,       \* streams whose tables were dropped
    overlaps         \* requests handled while a delete was under way, and
                     \* deletes that failed with tables dropped

meta == <<parent, fname, home, sname, dest>>
task == <<stack, waiting>>
vars == <<meta, pend, writers, task, sdel, destroyed, overlaps>>

NoName == CHOOSE n \in Names : TRUE

Init ==
    /\ parent = [f \in Folders |-> IF f = Root THEN Null ELSE New]
    /\ fname = [f \in Folders |-> NoName]
    /\ home = [s \in Streams |-> IF s \in Configured \cup Outputs THEN Root ELSE New]
    /\ sname \in [Streams -> Names]
    /\ \A s \in Streams : home[s] = New => sname[s] = NoName
    /\ \A s, t \in Streams : s # t /\ home[s] = Root /\ home[t] = Root => sname[s] # sname[t]
    /\ dest = [s \in DataStreams |-> s \in Outputs]
    /\ pend = {} /\ writers = [s \in DataStreams |-> 0]
    /\ stack = <<>> /\ waiting = None /\ sdel = None
    /\ destroyed = {} /\ overlaps = 0

-----------------------------------------------------------------------------
(* The tree *)

\* A folder delete between two awaits.
Busy == stack # <<>> /\ waiting = None
UnderWay == stack # <<>> \/ sdel # None \/ pend # {}

LiveFolders == {f \in Folders : parent[f] \notin {New, Gone} /\ f \notin pend}
LiveStreams == {s \in Streams : home[s] \notin {New, Gone} /\ s \notin pend}

Children(p, f) == {g \in Folders : p[g] = f}
StreamsIn(f) == {s \in Streams : home[s] = f}

\* f and the folders above it, p giving the parents: the smallest set with f
\* that is closed under p.
Up(p, f) ==
    {g \in Folders : \A S \in SUBSET Folders :
        f \in S /\ (\A k \in S : p[k] \in Folders => p[k] \in S) => g \in S}

StreamLocked(s) == s \in DataStreams /\ (s \in Configured \/ dest[s])

\* Mutant: the folders below are not looked at.
FolderLockedFlat(f) ==
    \/ parent[f] = Null
    \/ \E s \in DataStreams : home[s] = f /\ StreamLocked(s)

\* Folder.locked
FolderLocked(f) ==
    \/ parent[f] = Null
    \/ \E s \in DataStreams :
          home[s] \in Folders /\ f \in Up(parent, home[s]) /\ StreamLocked(s)

\* folder.find with create, for a path that exists and for one whose last folder
\* does not.
Places ==
    {[at |-> d, parent |-> parent, fname |-> fname] : d \in LiveFolders}
    \cup
    {[at |-> x.f, parent |-> [parent EXCEPT ![x.f] = x.p], fname |-> [fname EXCEPT ![x.f] = x.n]] :
        x \in {x \in [f : Folders, p : LiveFolders, n : Names] :
            /\ parent[x.f] = New
            /\ \A g \in LiveFolders : parent[g] = x.p => fname[g] # x.n}}

\* A step that is counted as an overlap when c holds; after MaxOverlaps of them
\* a delete goes on alone.
Overlap(c) ==
    /\ c /\ overlaps = MaxOverlaps => stack = <<>> /\ sdel = None
    /\ overlaps' = IF c /\ overlaps < MaxOverlaps THEN overlaps + 1 ELSE overlaps

\* A handler that makes its changes without an await in between.
Request ==
    /\ ~Busy
    /\ Overlap(UnderWay)
    /\ UNCHANGED <<task, sdel>>

\* The deletion of the objects in x leaves an event stream without a folder.
Stranded(h, x) == \E e \in EventStreams \ x : h[e] \in x

\* commit of the given metadata and the deletion of the objects in x.  Rows that
\* refer to a deleted folder lose their reference; event streams cannot
\* (IntegrityError), and middleware.sql_rollback rolls everything back.
Commit(p, fn, h, sn, d, x) ==
    /\ pend' = {}
    /\ IF Stranded(h, x)
       THEN UNCHANGED meta
       ELSE /\ parent' = [f \in Folders |-> CASE f \in x -> Gone
                                              [] f \notin x /\ p[f] \in x -> Null
                                              [] OTHER -> p[f]]
            /\ fname' = [f \in Folders |-> IF f \in x THEN NoName ELSE fn[f]]
            /\ home' = [s \in Streams |-> CASE s \in x -> Gone
                                            [] s \notin x /\ h[s] \in x -> Null
                                            [] OTHER -> h[s]]
            /\ sname' = [s \in Streams |-> IF s \in x THEN NoName ELSE sn[s]]
            /\ dest' = [s \in DataStreams |-> d[s] /\ s \notin x]

\* Streams of that name in folder f; a rename leaves out what has its own id.
Taken(f, n) == \E s \in LiveStreams : home[s] = f /\ sname[s] = n
TakenByOther(s, n) ==
    \E t \in LiveStreams : home[t] = home[s] /\ sname[t] = n /\ Id[t] # Id[s]

-----------------------------------------------------------------------------
(* Requests that do not await between their changes *)

\* Mutant: the names in the destination are not looked at.
PutStreamAnyName(s, n) ==
    /\ Request
    /\ \E place \in Places :
          Commit(place.parent, place.fname, [home EXCEPT ![s] = place.at],
                 [sname EXCEPT ![s] = n], dest, pend)
    /\ UNCHANGED <<writers, destroyed>>

\* A stream is put under the name n into a folder that is found or created.
PutStream(s, n) ==
    /\ Request
    /\ \E place \in Places :
          /\ ~Taken(place.at, n)
          /\ Commit(place.parent, place.fname, [home EXCEPT ![s] = place.at],
                    [sname EXCEPT ![s] = n], dest, pend)
    /\ UNCHANGED <<writers, destroyed>>

CreateStream(s, n) == s \in DataStreams /\ home[s] = New /\ PutStream(s, n)

CreateEventStream(s, n) == s \in EventStreams /\ home[s] = New /\ PutStream(s, n)

MoveStream(s) ==
    s \in DataStreams \cap LiveStreams /\ ~StreamLocked(s) /\ PutStream(s, sname[s])

MoveEventStream(s) == s \in EventStreams \cap LiveStreams /\ PutStream(s, sname[s])

\* A new name.  For a stream without a folder the look at its peers raises
\* (AttributeError) after the name is set.
Rename(s, n) ==
    /\ Request
    /\ IF home[s] = Null
       THEN /\ sname' = [sname EXCEPT ![s] = n]
            /\ UNCHANGED <<parent, fname, home, dest, pend>>
       ELSE /\ ~TakenByOther(s, n)
            /\ Commit(parent, fname, home, [sname EXCEPT ![s] = n], dest, pend)
    /\ UNCHANGED <<writers, destroyed>>

UpdateStream(s, n) ==
    s \in DataStreams \cap LiveStreams /\ ~StreamLocked(s) /\ Rename(s, n)

UpdateEventStream(s, n) == s \in EventStreams \cap LiveStreams /\ Rename(s, n)

\* Mutant: nobody looks whether the destination lies below the folder.
MoveFolderAnywhere(f) ==
    /\ Request
    /\ f \in LiveFolders /\ ~FolderLocked(f)
    /\ \E place \in Places :
          /\ \A g \in LiveFolders : place.parent[g] = place.at => fname[g] # fname[f]
          /\ Commit([place.parent EXCEPT ![f] = place.at], place.fname, home, sname,
                    dest, pend)
    /\ UNCHANGED <<writers, destroyed>>

\* folder_controller.move: the loop over the parents of the destination refuses
\* a destination below the folder, the session's CircularDependencyError the
\* folder itself.
MoveFolder(f) ==
    /\ Request
    /\ f \in LiveFolders /\ ~FolderLocked(f)
    /\ \E place \in Places :
          /\ \A g \in LiveFolders : place.parent[g] = place.at => fname[g] # fname[f]
          /\ f \notin Up(place.parent, place.at)
          /\ Commit([place.parent EXCEPT ![f] = place.at], place.fname, home, sname,
                    dest, pend)
    /\ UNCHANGED <<writers, destroyed>>

\* folder_controller.update: a new name.
UpdateFolder(f, n) ==
    /\ Request
    /\ f \in LiveFolders /\ ~FolderLocked(f)
    /\ \A g \in LiveFolders \ {f} : parent[g] = parent[f] => fname[g] # n
    /\ Commit(parent, [fname EXCEPT ![f] = n], home, sname, dest, pend)
    /\ UNCHANGED <<writers, destroyed>>

\* A refused request (a name that is taken, an invalid stream): db.rollback.
Refuse ==
    /\ Request
    /\ pend' = {}
    /\ UNCHANGED <<meta, writers, destroyed>>

-----------------------------------------------------------------------------
(* data_controller.write: the stream is marked while it is written *)

\* Up to the await of the inserter.
WriteBegin(s) ==
    /\ Request
    /\ s \in LiveStreams /\ writers[s] < MaxWriters
    /\ Commit(parent, fname, home, sname, [dest EXCEPT ![s] = TRUE], pend)
    /\ IF Stranded(home, pend)
       THEN UNCHANGED <<writers, destroyed>>
       ELSE /\ writers' = [writers EXCEPT ![s] = @ + 1]
            /\ destroyed' = destroyed \ {s}

\* A merge-gap that is not a number, or is negative, is refused after the stream
\* is marked and before the try that clears the mark.
WriteRefused(s) ==
    /\ Request
    /\ s \in LiveStreams
    /\ Commit(parent, fname, home, sname, [dest EXCEPT ![s] = TRUE], pend)
    /\ UNCHANGED <<writers, destroyed>>

\* The finally of write, however the inserter ended.
WriteEnd(s) ==
    /\ Request
    /\ writers[s] > 0
    /\ writers' = [writers EXCEPT ![s] = @ - 1]
    /\ Commit(parent, fname, home, sname, [dest EXCEPT ![s] = FALSE], pend)
    /\ UNCHANGED destroyed

-----------------------------------------------------------------------------
(* The delete of a stream *)

\* Up to the await of destroy.
DestroyFirst(s) ==
    /\ ~Busy /\ sdel = None
    /\ sdel' = s
    /\ Overlap(UnderWay)
    /\ UNCHANGED <<meta, pend, writers, task, destroyed>>

DeleteStream(s) ==
    s \in DataStreams \cap LiveStreams /\ ~StreamLocked(s) /\ DestroyFirst(s)

DeleteEventStream(s) == s \in EventStreams \cap LiveStreams /\ DestroyFirst(s)

\* After it.  On a stream another request has deleted the session raises
\* (rollback), on one without a folder touch() does (no rollback).
DeleteStreamDone ==
    /\ ~Busy /\ sdel # None
    /\ destroyed' = destroyed \cup {sdel}
    /\ CASE home[sdel] = Gone -> pend' = {} /\ UNCHANGED meta
         [] home[sdel] = Null -> UNCHANGED <<meta, pend>>
         [] OTHER -> Commit(parent, fname, home, sname, dest, pend \cup {sdel})
    /\ sdel' = None
    /\ UNCHANGED <<writers, task, overlaps>>

\* destroy raises, possibly with some of the tables dropped.
DeleteStreamFails(dropped) ==
    /\ ~Busy /\ sdel # None
    /\ sdel' = None
    /\ destroyed' = IF dropped THEN destroyed \cup {sdel} ELSE destroyed
    /\ Overlap(dropped)
    /\ UNCHANGED <<meta, pend, writers, task>>

-----------------------------------------------------------------------------
(* folder_controller.delete and _recursive_delete *)

Frame(f, phase, ks, ss) == [f |-> f, phase |-> phase, ks |-> ks, ss |-> ss]
Last == stack[Len(stack)]
SetLast(frame) == stack' = [stack EXCEPT ![Len(stack)] = frame]

\* The handler is over without a commit: r tells whether its exception is one
\* the middleware rolls back for.
Abort(r) ==
    /\ stack' = <<>> /\ waiting' = None
    /\ pend' = IF r THEN {} ELSE pend

\* Mutant: the children of the folder are not looked at.
DeleteFolderWithChildren(f, recursive) ==
    /\ ~Busy /\ stack = <<>>
    /\ f \in LiveFolders /\ ~FolderLocked(f)
    /\ stack' = <<Frame(f, "kids", IF recursive THEN Children(parent, f) ELSE {}, {})>>
    /\ Overlap(UnderWay)
    /\ UNCHANGED <<meta, pend, writers, waiting, sdel, destroyed>>

DeleteFolder(f, recursive) ==
    /\ ~Busy /\ stack = <<>>
    /\ f \in LiveFolders /\ ~FolderLocked(f)
    /\ recursive \/ Children(parent, f) = {}
    /\ stack' = <<Frame(f, "kids", Children(parent, f), {})>>
    /\ Overlap(UnderWay)
    /\ UNCHANGED <<meta, pend, writers, waiting, sdel, destroyed>>

\* The recursion enters a child folder.  The list it iterates over may be stale:
\* a child deleted since then raises when it is looked at.
EnterKid(g) ==
    /\ Busy /\ Last.phase = "kids" /\ g \in Last.ks
    /\ IF parent[g] = Gone
       THEN Abort(TRUE)
       ELSE /\ stack' = Append([stack EXCEPT ![Len(stack)].ks = @ \ {g}],
                               Frame(g, "streams", {}, StreamsIn(g)))
            /\ UNCHANGED <<pend, waiting>>
    /\ UNCHANGED <<meta, writers, sdel, destroyed, overlaps>>

\* What was moved away may be in the list still, or not.
SkipMoved ==
    /\ Busy
    /\ \/ \E g \in Last.ks : parent[g] # Last.f /\ SetLast([Last EXCEPT !.ks = @ \ {g}])
       \/ \E s \in Last.ss : home[s] # Last.f /\ SetLast([Last EXCEPT !.ss = @ \ {s}])
    /\ UNCHANGED <<meta, pend, writers, waiting, sdel, destroyed, overlaps>>

\* After the children: the folder of the request turns to its own streams, a
\* child folder is marked as deleted.
\* (Its row cannot have gone with a commit of another request: its streams would
\* have gone with it, and Destroyed or DestroyStream ended the delete.)
KidsDone ==
    /\ Busy /\ Last.phase = "kids" /\ Last.ks = {}
    /\ IF Len(stack) = 1
       THEN SetLast(Frame(Last.f, "streams", {}, StreamsIn(Last.f))) /\ UNCHANGED pend
       ELSE /\ pend' = pend \cup {Last.f}
            /\ stack' = SubSeq(stack, 1, Len(stack) - 1)
    /\ UNCHANGED <<meta, writers, waiting, sdel, destroyed, overlaps>>

\* The next stream of the folder, data streams first; one that arrived since the
\* list was loaded may be in it.  A stream that is locked by now ends the
\* request, and so does one that is gone.
DestroyStream(s) ==
    /\ Busy /\ Last.phase = "streams"
    /\ s \in Last.ss \cup (StreamsIn(Last.f) \ pend)
    /\ s \in EventStreams => Last.ss \cap DataStreams = {}
    /\ IF home[s] = Gone \/ StreamLocked(s)
       THEN Abort(home[s] = Gone)
       ELSE waiting' = s /\ UNCHANGED <<stack, pend>>
    /\ UNCHANGED <<meta, writers, sdel, destroyed, overlaps>>

\* Its data are destroyed, it is marked as deleted.
Destroyed ==
    /\ waiting # None
    /\ destroyed' = destroyed \cup {waiting}
    /\ IF home[waiting] = Gone
       THEN Abort(TRUE)
       ELSE /\ SetLast([Last EXCEPT !.ss = @ \ {waiting}])
            /\ pend' = pend \cup {waiting} /\ waiting' = None
    /\ UNCHANGED <<meta, writers, sdel, overlaps>>

\* destroy raises: what is marked stays in the session.
DestroyFails(dropped) ==
    /\ waiting # None
    /\ Abort(FALSE)
    /\ destroyed' = IF dropped THEN destroyed \cup {waiting} ELSE destroyed
    /\ Overlap(dropped)
    /\ UNCHANGED <<meta, writers, sdel>>

\* After the streams: a child folder turns to its own children, the folder of
\* the request is deleted.  (Without a parent to touch it raises first.)
StreamsDone ==
    /\ Busy /\ Last.phase = "streams" /\ Last.ss = {}
    /\ IF Len(stack) > 1
       THEN /\ SetLast(Frame(Last.f, "kids", Children(parent, Last.f), {}))
            /\ UNCHANGED <<meta, pend>>
       ELSE /\ stack' = <<>>
            /\ IF parent[Last.f] = Null
               THEN pend' = pend \cup {Last.f} /\ UNCHANGED meta
               ELSE Commit(parent, fname, home, sname, dest, pend \cup {Last.f})
    /\ UNCHANGED <<writers, waiting, sdel, destroyed, overlaps>>

-----------------------------------------------------------------------------
\* jouled starts again: Daemon.initialize resets the marks, load_modules sets
\* those of the modules' outputs.  (An output that is missing would be created
\* by parse_pipe_config, which is not modelled.)
Restart ==
    /\ ~Busy
    /\ \A s \in Outputs : home[s] \in Folders
    /\ dest' = [s \in DataStreams |-> s \in Outputs]
    /\ writers' = [s \in DataStreams |-> 0]
    /\ pend' = {} /\ stack' = <<>> /\ waiting' = None /\ sdel' = None
    /\ Overlap(UnderWay)
    /\ UNCHANGED <<parent, fname, home, sname, destroyed>>

RequestNext ==
    \/ \E s \in Streams :
          \/ MoveStream(s) \/ MoveEventStream(s)
          \/ DeleteStream(s) \/ DeleteEventStream(s)
          \/ \E n \in Names :
                \/ CreateStream(s, n) \/ CreateEventStream(s, n)
                \/ UpdateStream(s, n) \/ UpdateEventStream(s, n)
    \/ \E f \in Folders :
          \/ MoveFolder(f)
          \/ \E n \in Names : UpdateFolder(f, n)
          \/ \E recursive \in BOOLEAN : DeleteFolder(f, recursive)
    \/ \E s \in DataStreams : WriteBegin(s) \/ WriteRefused(s) \/ WriteEnd(s)
    \/ Refuse \/ Restart

DeleteNext ==
    \/ DeleteStreamDone \/ Destroyed
    \/ \E dropped \in BOOLEAN : DeleteStreamFails(dropped) \/ DestroyFails(dropped)
    \/ \E g \in Folders : EnterKid(g)
    \/ \E s \in Streams : DestroyStream(s)
    \/ SkipMoved \/ KidsDone \/ StreamsDone

Next == RequestNext \/ DeleteNext

Spec == Init /\ [][Next]_vars

-----------------------------------------------------------------------------
(* Properties *)

\* Types of the state; what is marked as deleted exists, and a row that does not
\* exist carries no mark.
TypeOK ==
    /\ parent \in [Folders -> Folders \cup {Null, Gone, New}]
    /\ fname \in [Folders -> Names]
    /\ home \in [Streams -> Folders \cup {Null, Gone, New}]
    /\ sname \in [Streams -> Names]
    /\ dest \in [DataStreams -> BOOLEAN]
    /\ \A s \in DataStreams : dest[s] => home[s] \notin {Gone, New}
    /\ \A x \in pend : \/ x \in Folders /\ parent[x] \notin {Gone, New}
                       \/ x \in Streams /\ home[x] \notin {Gone, New}
    /\ writers \in [DataStreams -> 0..MaxWriters]
    /\ stack \in Seq([f : Folders, phase : {"kids", "streams"},
                      ks : SUBSET Folders, ss : SUBSET Streams])
    /\ waiting \in Streams \cup {None} /\ sdel \in Streams \cup {None}
    /\ destroyed \subseteq Streams /\ overlaps \in 0..MaxOverlaps

\* "make sure this does not create a circular graph": however moves, deletes and
\* failed deletes follow and overlap each other, the way up from a folder ends
\* (touch, get_stream_path and locked walk it).
Acyclic ==
    \A S \in SUBSET Folders : S # {} => \E f \in S : parent[f] \notin S

\* "make sure name is unique": a path names one folder, and one stream but for
\* a data stream and an event stream with the same id, which the rename of
\* either takes for itself.
NamesUnique ==
    /\ \A f, g \in Folders :
          f # g /\ parent[f] \in Folders /\ parent[f] = parent[g] => fname[f] # fname[g]
    /\ \A s, t \in Streams :
          s # t /\ home[s] \in Folders /\ home[s] = home[t] /\ sname[s] = sname[t]
          => Id[s] = Id[t]

\* The path of a locked stream does not change: neither it nor a folder above it
\* is moved, renamed or deleted, unless a delete that was accepted before the
\* stream was locked is under way or was left half done.
LockedPathKept ==
    [][\A s \in DataStreams :
          StreamLocked(s) /\ home[s] \in Folders /\ ~UnderWay =>
             /\ home'[s] = home[s] /\ sname'[s] = sname[s]
             /\ \A f \in Up(parent, home[s]) : parent'[f] = parent[f] /\ fname'[f] = fname[f]
      ]_vars

\* A delete that no other request overlaps leaves a whole tree: one root, every
\* folder and stream below it, and no stream whose data are destroyed, even when
\* the store fails half-way.
TreeWhole ==
    overlaps = 0 =>
        /\ \A f \in Folders : parent[f] = Null => f = Root
        /\ \A s \in Streams : home[s] # Null
        /\ \A s \in destroyed : home[s] = Gone \/ s \in pend

=============================================================================
