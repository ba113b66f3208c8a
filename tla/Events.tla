-------------------------------- MODULE Events --------------------------------
(***************************************************************************)
(* Event streams: joule/api/event_stream.py and joule/api/event.py (the    *)
(* client), joule/controllers/event_controller.py and                      *)
(* joule/models/data_store/event_store.py (the node), and                  *)
(* joule/cli/event/copy.py, which copies one stream into another.          *)
(*                                                                         *)
(* Two streams, Source and Dest, on one node or on two; the copy command   *)
(* and a user's program are the clients.  An event is its number; the      *)
(* variable events says when it starts and ends.  Its row in a table holds *)
(* an id that means something in that table alone.                         *)
(***************************************************************************)
EXTENDS Integers, Sequences, FiniteSets

CONSTANTS
    Source, Dest,  \* the streams
    None,          \* a bound, an id or a stream that is not given
    ReadBlock,     \* block_size of event_stream_read
    WriteBlock,    \* events of one POST of event_stream_write
    Setups         \* [source, dest, new, bounds, runs, ops, faults]: what is stored
                   \* at first, Seq(<<start, end>>); the <<start, end>> of events a
                   \* user may make, and of copies and removals; and the bounds on
                   \* the copies, on the user's operations and on failed requests

ASSUME EventsConstants ==
    /\ Source # Dest /\ ReadBlock \in Nat \ {0} /\ WriteBlock \in Nat \ {0}
    /\ None \notin Int \cup {Source, Dest}
    /\ \A h \in Setups : h.source \in Seq(Int \X Int) /\ h.dest \in Seq(Int \X Int)
                          /\ h.new \subseteq Int \X Int
    /\ \A h \in Setups : \A b \in h.bounds : (b[1] # None /\ b[2] # None) => b[1] < b[2]

ASSUME BoundsTypes ==
    \A h \in Setups : \A b \in h.bounds : b[1] \in Int \cup {None} /\ b[2] \in Int \cup {None}

VARIABLES
    setup,   \* a member of Setups
    events,  \* every event there is: Seq([start, end])
    far,     \* Dest is on another node
    table,   \* data.event<id> of each stream: rows [id, event, made, mixed]
    seq,     \* its sequence
    hand,    \* the list a client writes: [list, at, rx, to]
    post,    \* the request of a client and how far the node has come with it
    copy,    \* the copy command; open: an end was given and no start
    ops,     \* operations of the user
    faults,  \* requests that failed
    raced,   \* history: streams in which two reservations of ids overlapped
    steady,  \* history: source events of the window, in the table at every read
    gone,    \* history: events a user removed from Dest, or overwrote, during this copy
    plain    \* history: nothing but copies of new events wrote one event twice

store == <<setup, events, far, table, seq>>
clients == <<hand, post, copy>>
history == <<raced, steady, gone, plain>>
vars == <<store, clients, ops, faults, history>>

Streams == {Source, Dest}
Clients == {"copy", "user"}
Node(s) == IF far THEN s ELSE Source
\* Stream ids are the node's: two nodes may use the same one.
StreamId(s) == IF far \/ s = Source THEN 1 ELSE 2
Contents(s) == {r.event : r \in table[s]}

Row(i, e) == [id |-> i, event |-> e, made |-> e, mixed |-> FALSE]
NoHand == [list |-> <<>>, at |-> 0, rx |-> <<>>, to |-> Source]
Idle == [stage |-> "idle", to |-> Source, events |-> <<>>, olds |-> {}, base |-> 0]

Init ==
    \E h \in Setups :
       /\ setup = h
       /\ events = [i \in 1..(Len(h.source) + Len(h.dest)) |->
                      LET t == (h.source \o h.dest)[i] IN [start |-> t[1], end |-> t[2]]]
       /\ table = [s \in Streams |->
                      IF s = Source THEN {Row(i, i) : i \in 1..Len(h.source)}
                      ELSE {Row(i, Len(h.source) + i) : i \in 1..Len(h.dest)}]
       /\ seq = [s \in Streams |-> IF s = Source THEN Len(h.source) ELSE Len(h.dest)]
       /\ far \in BOOLEAN
       /\ hand = [c \in Clients |-> NoHand] /\ post = [c \in Clients |-> Idle]
       /\ copy = [pc |-> "off", new |-> FALSE, start |-> None, end |-> None,
                  open |-> FALSE, runs |-> 0]
       /\ ops = 0 /\ faults = 0
       /\ raced = {} /\ steady = {} /\ gone = {} /\ plain = TRUE

-----------------------------------------------------------------------------
(* The queries of the event store *)

\* The events that start in the interval; with ongoing, those active in it.
InBounds(e, start, end, ongoing) ==
    /\ start = None \/ (IF ongoing THEN events[e].end ELSE events[e].start) >= start
    /\ end = None \/ events[e].start < end

\* The order of a reply; events of one start time come in any order.
Before(r, x) == events[r.event].start < events[x.event].start

\* read_events with return-subset: the first events of the interval or, when only
\* an end is given, the last ones, in the order they start.  Which of the rows of
\* one start time the limit cuts off is not determined.
ReadEvents(s, start, end) ==
    LET rows == {r \in table[s] : InBounds(r.event, start, end, FALSE)}
        t(r) == events[r.event].start
        last == start = None /\ end # None
        cut(q) == {r \in rows : \A i \in DOMAIN q : q[i] # r}
    IN  {q \in UNION {[1..n -> rows] : n \in 0..ReadBlock} :
            /\ \A i, k \in DOMAIN q : i < k => q[i] # q[k] /\ ~Before(q[k], q[i])
            /\ cut(q) # {} => Len(q) = ReadBlock
            /\ \A i \in DOMAIN q, r \in cut(q) : IF last THEN t(r) <= t(q[i]) ELSE t(r) >= t(q[i])}

\* count, of the events that start in the interval
Counted(s, start, end) ==
    Cardinality({r \in table[s] : InBounds(r.event, start, end, FALSE)})

\* Mutant: the info reports the start of the event that starts last.
LastStart(s) ==
    IF table[s] = {} THEN None
    ELSE CHOOSE t \in {events[e].start : e \in Contents(s)} :
            \A e \in Contents(s) : events[e].start <= t

\* StreamInfo: the end of the event that ends last.
LastEnd(s) ==
    IF table[s] = {} THEN None
    ELSE CHOOSE t \in {events[e].end : e \in Contents(s)} :
            \A e \in Contents(s) : events[e].end <= t

\* A removal takes the events that are active in the interval; without bounds
\* it takes them all.
Kept(s, start, end) ==
    {r \in table[s] : ~InBounds(r.event, start, end, TRUE)}

\* remove_events
RemoveEvents(s, start, end) == [table EXCEPT ![s] = Kept(s, start, end)]

\* event_to_record refuses an event that ends before it starts.
Valid(e) == events[e].start < events[e].end

-----------------------------------------------------------------------------
(* The events of a client, and what of them a request carries *)

FromJson(r, s) ==
    [id |-> r.id, event |-> r.event, stream |-> StreamId(s), node |-> Node(s), mixed |-> FALSE]
NewObject(e) == [id |-> None, event |-> e, stream |-> None, node |-> None, mixed |-> FALSE]

\* Event.to_json: the ids of another node are left out.
ToJson(o, s) ==
    LET own == o.node = Node(s)
    IN  [id |-> IF own THEN o.id ELSE None, stream |-> IF own THEN o.stream ELSE None,
         event |-> o.event, mixed |-> o.mixed, fresh |-> o.id = None]

\* Mutant: the ids of another stream are taken for this one's.
BelongsAnyway(j, s) == [j EXCEPT !.stream = StreamId(s)]

\* write_events: an event of another stream is a new event.
Belongs(j, s) ==
    IF j.stream # StreamId(s) THEN [j EXCEPT !.id = None, !.stream = StreamId(s)] ELSE j

\* event_stream_write: the next events of the list go out.
NextChunk(c) ==
    LET h == hand[c]
        to == IF h.at + WriteBlock < Len(h.list) THEN h.at + WriteBlock ELSE Len(h.list)
        chunk == SubSeq(h.list, h.at + 1, to)
        j == [i \in DOMAIN chunk |-> Belongs(ToJson(chunk[i], h.to), h.to)]
    IN  [stage |-> IF \E i \in DOMAIN j : j[i].id = None THEN "next" ELSE "update",
         to |-> h.to, events |-> j,
         olds |-> {i \in DOMAIN j : j[i].id # None}, base |-> 0]

-----------------------------------------------------------------------------
(* EventStore.upsert, one step for each statement *)

\* nextval: other connections may come in before setval.
Reserve(c) ==
    LET p == post[c] IN
    /\ p.stage = "next"
    /\ seq' = [seq EXCEPT ![p.to] = @ + 1]
    /\ post' = [post EXCEPT ![c].stage = "set", ![c].base = seq[p.to] + 1]
    /\ UNCHANGED <<setup, events, far, table, hand, copy, ops, faults, history>>

News(p) == {i \in DOMAIN p.events : p.events[i].id = None}

\* setval to nextval + n - 1; the new events get the ids up to it.
SetSequence(c) ==
    LET p == post[c]
        ids == [i \in DOMAIN p.events |->
                  IF i \in News(p)
                  THEN [p.events[i] EXCEPT !.id = p.base + Cardinality({k \in News(p) : k < i})]
                  ELSE p.events[i]]
    IN
    /\ p.stage = "set"
    /\ seq' = [seq EXCEPT ![p.to] = p.base + Cardinality(News(p)) - 1]
    /\ post' = [post EXCEPT ![c].stage = "insert", ![c].events = ids]
    /\ raced' = IF seq[p.to] = p.base THEN raced ELSE raced \cup {p.to}
    /\ UNCHANGED <<setup, events, far, table, hand, copy, ops, faults, steady, gone, plain>>

\* The new events, all of them or, when one is not valid, none.
Insert(c) ==
    LET p == post[c]
        new == DOMAIN p.events \ p.olds
        ok == \A i \in new : Valid(p.events[i].event)
    IN
    /\ p.stage = "insert"
    /\ table' = IF ok
                THEN [table EXCEPT ![p.to] = @ \cup {Row(p.events[i].id, p.events[i].event) : i \in new}]
                ELSE table
    /\ post' = [post EXCEPT ![c].stage = IF ok THEN "update" ELSE "error"]
    /\ plain' = (plain /\ IF c = "copy" THEN copy.new ELSE \A i \in new : p.events[i].fresh)
    /\ UNCHANGED <<setup, events, far, seq, hand, copy, ops, faults, raced, steady, gone>>

\* Rows that get the event of a request.
Written(rows, j) == {[r EXCEPT !.event = j.event, !.mixed = @ \/ j.mixed] : r \in rows}

\* The events of rows that get another one.
Lost(rows, e) == {r.event : r \in rows} \ {e}

\* The events that came with an id, one by one in their order.  The query that counts the rows
\* of an id always returns one record, which is true: an id that is not in the
\* table is updated too, and its event is not stored.
Update(c) ==
    LET p == post[c]
        i == CHOOSE i \in p.olds : \A k \in p.olds : i <= k
        j == p.events[i]
        hit == {r \in table[p.to] : r.id = j.id}
    IN
    /\ p.stage = "update" /\ p.olds # {}
    /\ table' = [table EXCEPT ![p.to] = (@ \ hit) \cup Written(hit, j)]
    /\ post' = [post EXCEPT ![c].olds = @ \ {i}]
    /\ plain' = (plain /\ \A r \in hit : r.made = j.event)
    /\ gone' = IF c = "user" /\ p.to = Dest THEN gone \cup Lost(hit, j.event) ELSE gone
    /\ UNCHANGED <<setup, events, far, seq, hand, copy, ops, faults, raced, steady>>

\* The reply: the events of the chunk get the ids of the first events the
\* client has received, which are theirs only in the first chunk.
Reply(c) ==
    LET p == post[c]
        h == hand[c]
        rx == h.rx \o [i \in DOMAIN p.events |-> p.events[i].id]
        list == [k \in DOMAIN h.list |->
                   LET i == k - h.at IN
                   IF i \in DOMAIN p.events
                   THEN [h.list[k] EXCEPT !.id = rx[i],
                           !.mixed = \/ @ \/ rx[i] # p.events[i].id
                                     \/ h.list[k].node # Node(p.to) \/ h.list[k].stream # StreamId(p.to)]
                   ELSE h.list[k]]
        at == h.at + Len(p.events)
    IN
    /\ p.stage = "update" /\ p.olds = {}
    /\ hand' = [hand EXCEPT ![c] = [list |-> list, at |-> at, rx |-> rx, to |-> h.to]]
    /\ post' = [post EXCEPT ![c] = Idle]
    /\ UNCHANGED <<store, copy, ops, faults, history>>

\* event_stream_write posts its list block by block.
Send(c) ==
    /\ post[c].stage = "idle" /\ hand[c].at < Len(hand[c].list)
    /\ post' = [post EXCEPT ![c] = NextChunk(c)]
    /\ UNCHANGED <<store, hand, copy, ops, faults, history>>

\* An answer above 500, such as that of a proxy which gave up waiting: the
\* session sends the request again, though the node has answered it.
Retry(c) ==
    /\ post[c].stage = "update" /\ post[c].olds = {} /\ faults < setup.faults
    /\ post' = [post EXCEPT ![c] = NextChunk(c)]
    /\ faults' = faults + 1 /\ plain' = FALSE
    /\ UNCHANGED <<store, hand, copy, ops, raced, steady, gone>>

\* The request is refused, or its reply is lost: ApiError ends the write.
Abort(c) ==
    /\ \/ post[c].stage = "error" /\ UNCHANGED faults
       \/ /\ post[c].stage = "update" /\ post[c].olds = {}
          /\ faults < setup.faults /\ faults' = faults + 1
    /\ post' = [post EXCEPT ![c] = Idle]
    /\ hand' = [hand EXCEPT ![c].at = Len(hand[c].list)]
    /\ copy' = IF c = "copy" THEN [copy EXCEPT !.pc = "failed"] ELSE copy
    /\ plain' = (plain /\ c = "copy")
    /\ UNCHANGED <<store, ops, raced, steady, gone>>

-----------------------------------------------------------------------------
(* The copy command *)

\* _action_for_existing_events: whether to replace.  A prompt is shown only
\* when there are events; cancelling it leaves everything as it is.
Replacing(action, start, end) ==
    CASE action = "replace" -> {TRUE}
      [] action = "ignore" -> {FALSE}
      [] OTHER -> IF Counted(Dest, start, end) > 0 THEN {TRUE, FALSE} ELSE {FALSE}

\* A new copy starts at the end of the destination and replaces nothing.
CopyStart(action, new, start, end) ==
    /\ copy.pc \in {"off", "done", "failed"} /\ copy.runs < setup.runs
    /\ \E replace \in Replacing(action, start, end) :
          table' = IF replace /\ ~new THEN RemoveEvents(Dest, start, end) ELSE table
    /\ LET from == IF new THEN LastEnd(Dest) ELSE start IN
       /\ copy' = [pc |-> "read", new |-> new, start |-> from, end |-> end,
                   open |-> from = None /\ end # None, runs |-> copy.runs + 1]
       /\ steady' = {e \in Contents(Source) : InBounds(e, from, end, FALSE)}
    /\ hand' = [hand EXCEPT !["copy"] = NoHand]
    /\ gone' = {}
    /\ UNCHANGED <<setup, events, far, seq, post, ops, faults, raced, plain>>

\* Mutant: the next block begins where the last event ends.
AfterEnd(list) == events[list[Len(list)].event].end

\* The next block begins after the start of the last event.
After(list) == events[list[Len(list)].event].start + 1

\* Mutant: an empty block is read again, until there are more events.
NoMorePolls == "read"

\* An empty block ends the read.
NoMore == "done"

\* event_stream_read: a block, or the end of the stream.  The node refuses
\* bounds that are out of order.
CopyRead ==
    /\ copy.pc = "read"
    /\ IF copy.start # None /\ copy.end # None /\ copy.start >= copy.end
       THEN copy' = [copy EXCEPT !.pc = "failed"] /\ UNCHANGED hand
       ELSE \E b \in ReadEvents(Source, copy.start, copy.end) :
               /\ copy' = [copy EXCEPT !.pc = IF b = <<>> THEN NoMore ELSE "write"]
               /\ hand' = [hand EXCEPT !["copy"] =
                             [list |-> [i \in DOMAIN b |-> FromJson(b[i], Source)],
                              at |-> 0, rx |-> <<>>, to |-> Dest]]
    /\ steady' = steady \cap Contents(Source)
    /\ UNCHANGED <<store, post, ops, faults, raced, gone, plain>>

\* The block is written: on to the next, unless that begins after the end.
CopyNext ==
    LET start == After(hand["copy"].list) IN
    /\ copy.pc = "write" /\ post["copy"] = Idle
    /\ hand["copy"].at = Len(hand["copy"].list)
    /\ copy' = [copy EXCEPT !.start = start,
                            !.pc = IF copy.end # None /\ start >= copy.end THEN "done" ELSE "read"]
    /\ UNCHANGED <<store, hand, post, ops, faults, history>>

\* A request of the copy is lost.
CopyFail ==
    /\ copy.pc = "read" /\ faults < setup.faults
    /\ copy' = [copy EXCEPT !.pc = "failed"] /\ faults' = faults + 1
    /\ UNCHANGED <<store, hand, post, ops, history>>

-----------------------------------------------------------------------------
(* The program of a user *)

UserFree ==
    /\ ops < setup.ops /\ ops' = ops + 1
    /\ post["user"] = Idle /\ hand["user"].at = Len(hand["user"].list)

\* A new event is made and written.
UserNew(t, s) ==
    /\ UserFree
    /\ events' = Append(events, [start |-> t[1], end |-> t[2]])
    /\ hand' = [hand EXCEPT !["user"] =
                  [list |-> <<NewObject(Len(events) + 1)>>, at |-> 0, rx |-> <<>>, to |-> s]]
    /\ UNCHANGED <<setup, far, table, seq, post, copy, faults, history>>

\* Events are read, to be changed.
UserRead(s) ==
    /\ UserFree
    /\ \E b \in ReadEvents(s, None, None) :
          hand' = [hand EXCEPT !["user"] =
                     [list |-> [i \in DOMAIN b |-> FromJson(b[i], s)],
                      at |-> Len(b), rx |-> <<>>, to |-> s]]
    /\ UNCHANGED <<store, post, copy, faults, history>>

\* The events the program holds are written, to their stream or to the other.
UserWrite(s) ==
    /\ UserFree /\ hand["user"].list # <<>>
    /\ hand' = [hand EXCEPT !["user"] = [@ EXCEPT !.at = 0, !.rx = <<>>, !.to = s]]
    /\ UNCHANGED <<store, post, copy, faults, history>>

\* event_stream_remove.
UserRemove(s, start, end) ==
    /\ UserFree
    /\ table' = RemoveEvents(s, start, end)
    /\ gone' = IF s = Dest THEN gone \cup {r.event : r \in table[s] \ Kept(s, start, end)} ELSE gone
    /\ UNCHANGED <<setup, events, far, seq, clients, faults, raced, steady, plain>>

-----------------------------------------------------------------------------

Serve(c) == Reserve(c) \/ SetSequence(c) \/ Insert(c) \/ Update(c) \/ Reply(c)

Next ==
    \/ \E c \in Clients : Serve(c) \/ Send(c) \/ Retry(c) \/ Abort(c)
    \/ \E action \in {"replace", "ignore", "prompt"}, new \in BOOLEAN, b \in setup.bounds :
          CopyStart(action, new, b[1], b[2])
    \/ CopyRead \/ CopyNext \/ CopyFail
    \/ \E s \in Streams : UserRead(s) \/ UserWrite(s)
    \/ \E s \in Streams, t \in setup.new : UserNew(t, s)
    \/ \E s \in Streams, b \in setup.bounds : UserRemove(s, b[1], b[2])

\* The node answers, and the copy goes on; nobody is made to start one.
Fairness ==
    /\ \A c \in Clients : WF_vars(Serve(c)) /\ WF_vars(Send(c)) /\ WF_vars(Abort(c))
    /\ WF_vars(CopyRead) /\ WF_vars(CopyNext)

Spec == Init /\ [][Next]_vars /\ Fairness

-----------------------------------------------------------------------------

\* No write replaces another event than the one it is about, although ids mean
\* something in one table only and several writers take them from one sequence
\* (event_controller.py:write_events, event.py:to_json).  Known to break it: two
\* reservations that overlap, and an event written again after a write to
\* another stream, or in a later block, has given it an id that is not its own.
EventsKept ==
    \A s \in Streams : \A r \in table[s] :
       r.event # r.made => r.mixed \/ s \in raced

\* No other event starts when e does.
Alone(e) == \A x \in DOMAIN events : x # e => events[x].start # events[e].start

\* A copy that ends well has stored every event of the source that was there
\* all the time and started in the interval, whatever was written and removed
\* meanwhile (copy.py:_run over event_stream_read).  Known to break it: events
\* that start together, cut by the end of a block, an end without a start, which
\* makes the first block the last one, and a user who overwrites a copied event.
CopyComplete ==
    copy.pc = "done" /\ ~copy.open =>
       \A e \in steady :
          Alone(e) => e \in Contents(Dest) \cup gone

\* However often copies of new events are interrupted and started again, none
\* stores an event twice (copy.py:_run with --new after a failure).
NewOnce ==
    plain => \A r, x \in table[Dest] : r.event = x.event => r = x

\* A copy ends: every block begins after the one before (event_stream_read).
CopyEnds == copy.pc = "read" ~> copy.pc \in {"done", "failed"}

=============================================================================
