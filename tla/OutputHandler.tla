---------------------------- MODULE OutputHandler ----------------------------
(***************************************************************************)
(* joule/models/worker.py: the fan-out of one module output.  The worker   *)
(* task _output_handler reads blocks from the child process and writes     *)
(* each to every subscriber of the stream, while subscribers come and go:  *)
(* a consuming module gets a new OutputPipe every time its own worker      *)
(* spawns it (Worker.subscribe, DataConnection.disconnect), the inserter   *)
(* and the remote outputs use a LocalPipe.                                 *)
(*                                                                         *)
(* A pipe object is used once.  A block is its number in the order the     *)
(* handler reads them.  Steps end at the awaits of the code.               *)
(***************************************************************************)
EXTENDS Naturals, Sequences, SequencesExt

CONSTANTS
    OsPipes,     \* OutputPipe objects: OS pipes to the consuming modules
    Locals,      \* LocalPipe objects: inserters and remote outputs
    Disordered,  \* TRUE: the child may also write rows that go back in time
    MaxBlocks,   \* bound: blocks read from the child
    MaxSpawns    \* bound: times the child is spawned

Pipes == OsPipes \cup Locals

ASSUME HandlerConstants ==
    /\ Disordered \in BOOLEAN
    /\ MaxBlocks \in Nat /\ MaxSpawns \in Nat
    /\ OsPipes \cap Locals = {}

VARIABLES
    subscribers,  \* the worker's list of pipes for this stream
    st,           \* of each pipe: "new", "open", "closing" (OutputPipe.close
                  \* waits), "closed", "left" (LocalPipe nobody reads)
    broken,       \* OS pipes whose reading process is gone
    busy,         \* OS pipes whose transport buffer is over its high-water mark
    child,        \* the producing process: "up", "down"
    spawns,       \* times it was spawned
    hpc,          \* handler: "read", "send", "wait" (for drain), "nonmono",
                  \* "nmwait" (for drain there), "restart", "done"
                  \* (it returned), "raised" (it ended with an exception)
    todo,         \* pipes of the copied list still to be written
    idx,          \* index of the loop over the live list (non-monotonic data),
                  \* 0 outside of it
    cur,          \* number of blocks read
    eoi,          \* child_output.end_of_interval after the last read
    runDied,      \* run() ended with the exception of the handler
    last,         \* of each pipe: the last block written to it, NoBlock when none
                  \* was, a break was written since or the pipe is given up
    prodBreaks    \* which of the last two blocks the producer closed its
                  \* interval after

hvars == <<hpc, todo, idx, cur, eoi, prodBreaks>>
vars == <<subscribers, st, broken, busy, child, spawns, runDied, last, hvars>>

NoBlock == 0

Init ==
    /\ subscribers = <<>>
    /\ st = [p \in Pipes |-> "new"]
    /\ broken = {} /\ busy = {}
    /\ child = "up" /\ spawns = 1
    /\ hpc = "read" /\ todo = <<>> /\ idx = 0 /\ cur = 0
    /\ eoi = FALSE /\ runDied = FALSE
    /\ last = [p \in Pipes |-> NoBlock]
    /\ prodBreaks = {}

-----------------------------------------------------------------------------
(* The subscribers *)

\* A consumer's worker, the inserter or the supervisor subscribes a new pipe.
Subscribe(p) ==
    /\ st[p] = "new"
    /\ st' = [st EXCEPT ![p] = "open"]
    /\ subscribers' = Append(subscribers, p)
    /\ UNCHANGED <<broken, busy, child, spawns, runDied, last, hvars>>

\* The consuming process falls behind, and catches up.
ConsumerStalls(p) ==
    /\ st[p] = "open" /\ p \notin broken \cup busy
    /\ busy' = busy \cup {p}
    /\ UNCHANGED <<subscribers, st, broken, child, spawns, runDied, last, hvars>>

ConsumerReads(p) ==
    /\ p \in busy
    /\ busy' = busy \ {p}
    /\ UNCHANGED <<subscribers, st, broken, child, spawns, runDied, last, hvars>>

\* The consuming process ends: its end of the pipe is gone.
ConsumerExits(p) ==
    /\ st[p] = "open" /\ p \notin broken
    /\ broken' = broken \cup {p}
    /\ busy' = busy \ {p}
    /\ UNCHANGED <<subscribers, st, child, spawns, runDied, last, hvars>>

\* Mutant: disconnect closes the pipe and leaves the subscription in place.
DisconnectNoUnsubscribe(p) ==
    /\ st[p] = "open" /\ p \in broken
    /\ st' = [st EXCEPT ![p] = "closing"]
    /\ last' = [last EXCEPT ![p] = NoBlock]
    /\ UNCHANGED <<subscribers, broken, busy, child, spawns, runDied, hvars>>

\* DataConnection.disconnect: unsubscribe (which tolerates that the handler
\* has removed the pipe), then OutputPipe.close up to its wait_closed.
Disconnect(p) ==
    /\ st[p] = "open" /\ p \in broken
    /\ subscribers' = RemoveFirst(subscribers, p)
    /\ st' = [st EXCEPT ![p] = "closing"]
    /\ last' = [last EXCEPT ![p] = NoBlock]
    /\ UNCHANGED <<broken, busy, child, spawns, runDied, hvars>>

\* OutputPipe.close after wait_closed.  (When the connection was lost with an
\* error wait_closed raises and the pipe is never marked closed.)
PipeClosed(p) ==
    /\ st[p] = "closing"
    /\ st' = [st EXCEPT ![p] = "closed"]
    /\ UNCHANGED <<subscribers, broken, busy, child, spawns, runDied, last, hvars>>

\* daemon._spawn_inserter after a DataError: the pipe is dropped, not closed.
InserterLeaves(p) ==
    /\ st[p] = "open"
    /\ subscribers' = RemoveFirst(subscribers, p)
    /\ st' = [st EXCEPT ![p] = "left"]
    /\ last' = [last EXCEPT ![p] = NoBlock]
    /\ UNCHANGED <<broken, busy, child, spawns, runDied, hvars>>

\* supervisor._handle_remote_output ends (any error but ConfigurationError):
\* its finally closes src_pipe, which nobody unsubscribes.
RemoteEnds(p) ==
    /\ st[p] = "open"
    /\ st' = [st EXCEPT ![p] = "closed"]
    /\ last' = [last EXCEPT ![p] = NoBlock]
    /\ UNCHANGED <<subscribers, broken, busy, child, spawns, runDied, hvars>>

-----------------------------------------------------------------------------
(* The handler *)

\* The handler returns ("done": end of output, cancelled, restart, PipeError)
\* or ends with any other exception ("raised").
HandlerEnds(how) ==
    /\ hpc' = how
    /\ todo' = <<>> /\ idx' = 0 /\ eoi' = FALSE
    /\ UNCHANGED <<cur, prodBreaks>>

\* close_interval_nowait on every pipe of the list: a LocalPipe takes the break
\* even when closed, an OutputPipe raises PipeError when closed.
NowaitRaises == \E i \in 1..Len(subscribers) :
                    subscribers[i] \in OsPipes /\ st[subscribers[i]] = "closed"

BreakToAll ==
    last' = [p \in Pipes |-> IF p \in ToSet(subscribers) THEN NoBlock
                                                         ELSE last[p]]

\* A block of rows in order, e telling whether the interval ends with it; the
\* list of subscribers is copied.
ReadBlock(e) ==
    /\ hpc = "read" /\ child = "up" /\ cur < MaxBlocks
    /\ cur' = cur + 1
    /\ eoi' = e
    /\ prodBreaks' = (prodBreaks \cap {cur}) \cup (IF e THEN {cur'} ELSE {})
    /\ todo' = subscribers
    /\ hpc' = "send"
    /\ UNCHANGED <<subscribers, st, broken, busy, child, spawns, runDied, last,
                   idx>>

\* An interval token with no rows before it.
ReadBreak ==
    /\ hpc = "read" /\ child = "up" /\ cur \notin prodBreaks
    /\ eoi' = TRUE
    /\ prodBreaks' = prodBreaks \cup {cur}
    /\ hpc' = "send"
    /\ UNCHANGED <<subscribers, st, broken, busy, child, spawns, runDied, last,
                   todo, idx, cur>>

\* Rows whose timestamps do not increase: they are dropped, every subscriber's
\* interval is closed and the child is restarted.
ReadNonMonotonic ==
    /\ Disordered
    /\ hpc = "read" /\ child = "up" /\ cur < MaxBlocks
    /\ cur' = cur + 1
    /\ hpc' = "nonmono" /\ idx' = 1
    /\ UNCHANGED <<subscribers, st, broken, busy, child, spawns, runDied, last,
                   todo, eoi, prodBreaks>>

\* End of the child's output: not_empty returns False.
ReadEof ==
    /\ hpc = "read" /\ child = "down"
    /\ HandlerEnds("done")
    /\ UNCHANGED <<subscribers, st, broken, busy, child, spawns, runDied, last>>

\* The write of the block to p is accepted.
SendOk(p) ==
    /\ hpc = "send" /\ todo # <<>> /\ p = Head(todo)
    /\ p \notin broken \cup busy
    /\ st[p] \in {"open", "left"}
    /\ last' = [last EXCEPT ![p] = cur]
    /\ todo' = Tail(todo)
    /\ UNCHANGED <<subscribers, st, broken, busy, child, spawns, runDied, hpc,
                   idx, cur, eoi, prodBreaks>>

\* The transport takes the block into its buffer and drain has to wait.
SendWaits(p) ==
    /\ hpc = "send" /\ todo # <<>> /\ p = Head(todo)
    /\ st[p] = "open" /\ p \in busy
    /\ last' = [last EXCEPT ![p] = cur]
    /\ hpc' = "wait"
    /\ UNCHANGED <<subscribers, st, broken, busy, child, spawns, runDied,
                   todo, idx, cur, eoi, prodBreaks>>

SendDrained(p) ==
    /\ hpc = "wait" /\ p = Head(todo)
    /\ st[p] = "open" /\ p \notin busy \cup broken
    /\ hpc' = "send" /\ todo' = Tail(todo)
    /\ UNCHANGED <<subscribers, st, broken, busy, child, spawns, runDied, last,
                   idx, cur, eoi, prodBreaks>>

\* Mutant: the write to a subscriber is awaited without wait_for.
SendTimeoutNever(p) ==
    /\ FALSE
    /\ UNCHANGED vars

\* SUBSCRIBER_TIMEOUT: the interval of this subscriber is closed.
SendTimeout(p) ==
    /\ hpc = "wait" /\ p = Head(todo)
    /\ st[p] = "open" /\ p \in busy
    /\ last' = [last EXCEPT ![p] = NoBlock]
    /\ hpc' = "send" /\ todo' = Tail(todo)
    /\ UNCHANGED <<subscribers, st, broken, busy, child, spawns, runDied,
                   idx, cur, eoi, prodBreaks>>

\* A closing transport drops what is written and may report no error.
SendDropped(p) ==
    /\ hpc \in {"send", "wait"} /\ todo # <<>> /\ p = Head(todo)
    /\ p \in OsPipes /\ st[p] = "closing"
    /\ hpc' = "send" /\ todo' = Tail(todo)
    /\ UNCHANGED <<subscribers, st, broken, busy, child, spawns, runDied, last,
                   idx, cur, eoi, prodBreaks>>

\* ConnectionResetError or BrokenPipeError: the handler removes the pipe, and
\* list.remove raises ValueError when the consumer has unsubscribed already.
SendReset(p) ==
    /\ hpc \in {"send", "wait"} /\ todo # <<>> /\ p = Head(todo)
    /\ p \in OsPipes
    /\ st[p] = "closing" \/ (st[p] = "open" /\ p \in broken)
    /\ IF p \in ToSet(subscribers)
       THEN /\ subscribers' = RemoveFirst(subscribers, p)
            /\ hpc' = "send" /\ todo' = Tail(todo)
            /\ UNCHANGED <<idx, cur, eoi, prodBreaks>>
       ELSE HandlerEnds("raised") /\ UNCHANGED subscribers
    /\ UNCHANGED <<st, broken, busy, child, spawns, runDied, last>>

\* The pipe was closed since the list was copied: write raises PipeError, or
\* (drain in progress) the closed connection lets the write return.
SendClosed(p) ==
    /\ hpc = "send" /\ todo # <<>> /\ p = Head(todo)
    /\ st[p] = "closed"
    /\ HandlerEnds("done")
    /\ UNCHANGED <<subscribers, st, broken, busy, child, spawns, runDied, last>>

WaitClosed(p) ==
    /\ hpc = "wait" /\ p = Head(todo)
    /\ st[p] = "closed"
    /\ hpc' = "send" /\ todo' = Tail(todo)
    /\ UNCHANGED <<subscribers, st, broken, busy, child, spawns, runDied, last,
                   idx, cur, eoi, prodBreaks>>

\* Mutant: the interval break is forwarded to the copied list, which is empty
\* by now, instead of to the subscribers.
SendDoneNoBreak ==
    /\ hpc = "send" /\ todo = <<>>
    /\ hpc' = "read" /\ eoi' = FALSE
    /\ UNCHANGED <<subscribers, st, broken, busy, child, spawns, runDied, last,
                   todo, idx, cur, prodBreaks>>

\* All pipes written: the break, if any, goes to the live list.
SendDone ==
    /\ hpc = "send" /\ todo = <<>>
    /\ hpc' = IF eoi /\ NowaitRaises THEN "done" ELSE "read"
    /\ IF eoi /\ ~NowaitRaises THEN BreakToAll ELSE UNCHANGED last
    /\ eoi' = FALSE
    /\ UNCHANGED <<subscribers, st, broken, busy, child, spawns, runDied, todo,
                   idx, cur, prodBreaks>>

\* close_interval on the pipe at idx of the live list.
NonMonotonicBreak ==
    /\ hpc = "nonmono" /\ idx <= Len(subscribers)
    /\ LET p == subscribers[idx]
       IN \/ /\ st[p] = "closed"
             /\ HandlerEnds("done") /\ UNCHANGED last
          \/ /\ st[p] = "open" /\ p \in broken
             /\ HandlerEnds("raised") /\ UNCHANGED last
          \/ /\ st[p] = "open" /\ p \notin broken
             /\ last' = [last EXCEPT ![p] = NoBlock]
             /\ idx' = idx + 1
             /\ IF p \in busy THEN hpc' = "nmwait" /\ todo' = <<p>>
                              ELSE UNCHANGED <<hpc, todo>>
             /\ UNCHANGED <<cur, eoi, prodBreaks>>
    /\ UNCHANGED <<subscribers, st, broken, busy, child, spawns, runDied>>

\* The drain of that close_interval, which has no timeout, returns or raises.
NonMonotonicDrained ==
    /\ hpc = "nmwait" /\ todo[1] \notin busy
    /\ IF todo[1] \in broken
       THEN HandlerEnds("raised")
       ELSE /\ hpc' = "nonmono" /\ todo' = <<>>
            /\ UNCHANGED <<idx, cur, eoi, prodBreaks>>
    /\ UNCHANGED <<subscribers, st, broken, busy, child, spawns, runDied, last>>

\* The loop is over: restart() terminates the child and waits for it.
NonMonotonicRestart ==
    /\ hpc = "nonmono" /\ idx > Len(subscribers)
    /\ hpc' = "restart" /\ idx' = 0
    /\ UNCHANGED <<subscribers, st, broken, busy, child, spawns, runDied, last,
                   todo, cur, eoi, prodBreaks>>

RestartDone ==
    /\ hpc = "restart" /\ child = "down"
    /\ HandlerEnds("done")
    /\ UNCHANGED <<subscribers, st, broken, busy, child, spawns, runDied, last>>

-----------------------------------------------------------------------------
(* The worker around it *)

\* The child ends: by itself, by an operator's restart, or terminated.
ChildExits ==
    /\ child = "up"
    /\ child' = "down"
    /\ UNCHANGED <<subscribers, st, broken, busy, spawns, runDied, last, hvars>>

\* _spawn_child unwinds: the handler task is cancelled at whatever it awaits.
CancelHandler ==
    /\ child = "down" /\ hpc \notin {"done", "raised"}
    /\ HandlerEnds("done")
    /\ UNCHANGED <<subscribers, st, broken, busy, child, spawns, runDied, last>>

\* _spawn_child awaits the handler task: its exception ends run() for good.
HandlerRaised ==
    /\ child = "down" /\ hpc = "raised" /\ ~runDied
    /\ runDied' = TRUE
    /\ UNCHANGED <<subscribers, st, broken, busy, child, spawns, last, hvars>>

\* run() after RESTART_INTERVAL: every subscriber's interval is closed, then a
\* new child and a new handler are started.
Respawn ==
    /\ child = "down" /\ hpc = "done" /\ ~runDied /\ spawns < MaxSpawns
    /\ IF NowaitRaises
       THEN runDied' = TRUE /\ UNCHANGED <<last, child, spawns, hpc>>
       ELSE /\ BreakToAll
            /\ child' = "up" /\ spawns' = spawns + 1
            /\ hpc' = "read"
            /\ UNCHANGED runDied
    /\ UNCHANGED <<subscribers, st, broken, busy, todo, idx, cur, eoi, prodBreaks>>

-----------------------------------------------------------------------------
SubscriberNext ==
    \/ \E p \in Pipes : Subscribe(p)
    \/ \E p \in OsPipes : \/ ConsumerStalls(p) \/ ConsumerReads(p)
                          \/ ConsumerExits(p) \/ Disconnect(p) \/ PipeClosed(p)
    \/ \E p \in Locals : InserterLeaves(p) \/ RemoteEnds(p)

SendStep ==
    \E p \in Pipes : \/ SendOk(p) \/ SendWaits(p) \/ SendDrained(p)
                     \/ SendTimeout(p) \/ SendDropped(p) \/ SendReset(p)
                     \/ SendClosed(p) \/ WaitClosed(p)

HandlerNext ==
    \/ \E e \in BOOLEAN : ReadBlock(e)
    \/ ReadBreak \/ ReadNonMonotonic \/ ReadEof
    \/ SendStep \/ SendDone
    \/ NonMonotonicBreak \/ NonMonotonicDrained \/ NonMonotonicRestart \/ RestartDone

WorkerNext == ChildExits \/ CancelHandler \/ HandlerRaised \/ Respawn

Next == SubscriberNext \/ HandlerNext \/ WorkerNext

Spec == Init /\ [][Next]_vars

\* The event loop runs a handler that can go on, and the timer of wait_for
\* fires; nothing is assumed of the consumers.
FairSpec == Spec /\ WF_vars(SendStep) /\ WF_vars(SendDone)

-----------------------------------------------------------------------------
(* Properties *)

\* Types of the state; a pipe is subscribed at most once.
TypeOK ==
    /\ subscribers \in Seq(Pipes) /\ todo \in Seq(Pipes)
    /\ \A i, j \in DOMAIN subscribers : i # j => subscribers[i] # subscribers[j]
    /\ st \in [Pipes -> {"new", "open", "closing", "closed", "left"}]
    /\ broken \subseteq OsPipes /\ busy \subseteq OsPipes
    /\ child \in {"up", "down"} /\ spawns \in Nat
    /\ hpc \in {"read", "send", "wait", "nonmono", "nmwait", "restart", "done",
               "raised"}
    /\ idx \in Nat /\ cur \in Nat /\ eoi \in BOOLEAN /\ runDied \in BOOLEAN
    /\ last \in [Pipes -> Nat]
    /\ prodBreaks \subseteq Nat

\* What a subscriber receives is cut into intervals of consecutive blocks: two
\* blocks with no break between them follow each other in the child's output,
\* with no break of the producer between them either.  So whatever is lost to a
\* subscriber (a timeout, an abandoned fan-out, a dropped block, a restart of
\* the producer) is marked as missing data, and nothing is repeated.
IntervalsKept ==
    [][\A p \in Pipes : last[p] # NoBlock /\ last'[p] \notin {NoBlock, last[p]} =>
          last'[p] = last[p] + 1 /\ last[p] \notin prodBreaks]_vars

\* The list of subscribers holds no module pipe that is being closed, so the
\* close_interval_nowait of run() and of the handler never raises and run()
\* dies of nothing but the handler's own exception.
RunSurvivesBreaks == ~NowaitRaises /\ (runDied => hpc = "raised")

\* A consumer that does not read cannot stop the others from being served:
\* the fan-out of a block always comes to an end.
FanOutEnds == (hpc \in {"send", "wait"}) ~> (hpc \in {"read", "done", "raised"})

=============================================================================
