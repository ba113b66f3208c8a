-------------------------------- MODULE Remote --------------------------------
(***************************************************************************)
(* joule/models/supervisor.py: the streams a node takes from, and writes   *)
(* to, other nodes, with the network pipes of joule/api/data.py.           *)
(*                                                                         *)
(* One remote input stream, whose data several local pipes want, and one   *)
(* remote output stream, fed by a local worker.  What is kept of them is   *)
(* in RemoteStreams.                                                       *)
(***************************************************************************)
EXTENDS RemoteStreams, SequencesExt

source == <<node, made, skips>>
conn == <<wire, up, link, linkOpen>>
subs == <<first, attached, pipe>>
inputs == <<source, conn, inTask, subs, got>>
outputs == <<wrote, src, outTask, hand, dest, sender, stored>>
vars == <<inputs, outputs, phase, fails>>

Rows(s) == SelectSeq(s, LAMBDA i : i # Break)
InRunning == inTask \in {"connect", "up", "sleep"}
OutRunning == outTask \in {"connect", "read", "put"}

Init ==
    /\ node \in Setups
    /\ made = 0 /\ skips = {} /\ wire = <<>> /\ up = FALSE
    /\ link = <<>> /\ linkOpen = FALSE /\ inTask = "off"
    /\ first = None /\ attached = {}
    /\ pipe = [p \in Pipes |-> "new"] /\ got = [p \in Pipes |-> <<>>]
    /\ wrote = 0 /\ src = <<>> /\ hand = <<>>
    /\ dest = <<>> /\ sender = "off" /\ stored = <<>>
    /\ outTask = IF node.wrote = 0 THEN "ended" ELSE "connect"
    /\ phase = "run" /\ fails = 0

-----------------------------------------------------------------------------
(* The remote node that produces the input *)

\* A row of the producer; a subscribed connection carries it.
Make ==
    /\ made < node.made
    /\ made' = made + 1
    /\ wire' = IF up THEN Append(wire, made + 1) ELSE wire
    /\ UNCHANGED <<node, skips, up, link, linkOpen, inTask, subs, got, outputs, phase, fails>>

\* The producer restarts, or a subscriber fell behind and missed a row.
Skip ==
    /\ made \in 1..(node.made - 1)
    /\ \E lost \in {0, 1} : made + lost < node.made /\ made' = made + lost
    /\ skips' = skips \cup {made}
    /\ wire' = IF up THEN Append(wire, Break) ELSE wire
    /\ made \notin skips
    /\ UNCHANGED <<node, up, link, linkOpen, inTask, subs, got, outputs, phase, fails>>

\* The connection breaks; what had not arrived is lost.
Drop ==
    /\ up /\ fails < node.fails
    /\ up' = FALSE /\ fails' = fails + 1
    /\ \E k \in 0..Len(wire) : wire' = SubSeq(wire, 1, k)
    /\ UNCHANGED <<source, link, linkOpen, inTask, subs, got, outputs, phase>>

-----------------------------------------------------------------------------
(* data_subscribe and _live_reader *)

\* pipe_in.read, then write and close_interval on the LocalPipe.
LiveRead ==
    /\ linkOpen /\ wire # <<>> /\ Len(link) < WriteLimit
    /\ link' = Append(link, Head(wire)) /\ wire' = Tail(wire)
    /\ UNCHANGED <<source, up, linkOpen, inTask, subs, got, outputs, phase, fails>>

\* The response ends or raises: the pipe is closed.
LiveEnd ==
    /\ linkOpen /\ wire = <<>> /\ ~up
    /\ linkOpen' = FALSE
    /\ UNCHANGED <<source, wire, up, link, inTask, subs, got, outputs, phase, fails>>

-----------------------------------------------------------------------------
(* _connect_remote_input and the pipes of the workers *)

\* The first subscriber's pipe is fed by a new task, the others attach to it.
\* The task ends at once when the remote node is not a follower.
Subscribe(p) ==
    /\ phase = "run" /\ pipe[p] = "new" /\ p \in node.pipes
    /\ pipe' = [pipe EXCEPT ![p] = "open"]
    /\ \/ /\ first = None
          /\ first' = p /\ inTask' \in {"connect", "refused"}
          /\ UNCHANGED attached
       \/ /\ first # None
          /\ attached' = attached \cup {p}
          /\ UNCHANGED <<first, inTask>>
    /\ UNCHANGED <<source, conn, got, outputs, phase, fails>>

\* DataConnection.disconnect when a worker's child has ended: the first
\* subscriber has no unsubscribe callback.
Disconnect(p) ==
    /\ pipe[p] = "open"
    /\ attached' = attached \ {p}
    /\ pipe' = [pipe EXCEPT ![p] = IF p = first THEN "closing" ELSE "closed"]
    /\ UNCHANGED <<source, conn, inTask, first, got, outputs, phase, fails>>

\* The end of OutputPipe.close: closed is set last, after the subscribers
\* were closed.
ClosedPipes(p) == [q \in Pipes |->
    IF q = p \/ (p = first /\ q \in attached) THEN "closed" ELSE pipe[q]]

Closed(p) ==
    /\ pipe[p] = "closing"
    /\ pipe' = ClosedPipes(p)
    /\ UNCHANGED <<source, conn, inTask, first, attached, got, outputs, phase, fails>>

-----------------------------------------------------------------------------
(* _handle_remote_input *)

\* data_subscribe: an ApiError is retried later.
InConnect ==
    /\ inTask = "connect"
    /\ \/ /\ inTask' = "up" /\ up' = TRUE /\ wire' = <<>>
          /\ link' = <<>> /\ linkOpen' = TRUE
          /\ UNCHANGED fails
       \/ /\ fails < node.fails
          /\ inTask' = "sleep" /\ fails' = fails + 1
          /\ UNCHANGED conn
    /\ UNCHANGED <<source, subs, got, outputs, phase>>

\* Everything the handler's finally closes.
InFinally(how) ==
    /\ inTask' = how
    /\ linkOpen' = FALSE /\ link' = <<>> /\ wire' = <<>> /\ up' = FALSE
    /\ pipe' = ClosedPipes(first)

Deliver(item) == got' = [p \in Pipes |->
    IF p = first \/ p \in attached THEN Append(got[p], item) ELSE got[p]]

\* read, write and consume.  The end_of_interval of src_pipe is not looked at;
\* the rows of a closed pipe are dropped; a pipe that is being closed drops them
\* or raises.
InRead ==
    /\ inTask = "up" /\ link # <<>>
    /\ \/ /\ Head(link) # Break /\ pipe[first] = "open"
          /\ Deliver(Head(link)) /\ link' = Tail(link)
          /\ UNCHANGED <<wire, up, linkOpen, inTask, pipe>>
       \/ /\ Head(link) = Break \/ pipe[first] # "open"
          /\ link' = Tail(link)
          /\ UNCHANGED <<wire, up, linkOpen, inTask, pipe, got>>
       \/ /\ Head(link) # Break /\ pipe[first] = "closing"
          /\ InFinally("died")
          /\ UNCHANGED got
    /\ UNCHANGED <<source, first, attached, outputs, phase, fails>>

\* Mutant: the loop reconnects without closing the interval.
InEndUnmarked ==
    /\ inTask = "up" /\ link = <<>> /\ ~linkOpen
    /\ inTask' = "sleep"
    /\ UNCHANGED <<source, conn, subs, got, outputs, phase, fails>>

\* Mutant: the loop asks whether src_pipe is closed, not whether it is empty.
InEndClosed ==
    /\ inTask = "up" /\ ~linkOpen
    /\ got' = [got EXCEPT ![first] = Append(@, Break)]
    /\ inTask' = "sleep"
    /\ UNCHANGED <<source, conn, subs, outputs, phase, fails>>

\* src_pipe is empty: close the interval of the first pipe (not of its
\* subscribers) and try again later; a closed pipe raises a PipeError.
InEnd ==
    /\ inTask = "up" /\ link = <<>> /\ ~linkOpen
    /\ \/ /\ pipe[first] # "closed"
          /\ got' = [got EXCEPT ![first] = Append(@, Break)]
          /\ inTask' = "sleep"
          /\ UNCHANGED <<conn, pipe>>
       \/ /\ pipe[first] = "closed"
          /\ InFinally("died")
          /\ UNCHANGED got
    /\ UNCHANGED <<source, first, attached, outputs, phase, fails>>

\* sleep(REMOTE_HANDLER_RESTART_INTERVAL)
InRetry ==
    /\ inTask = "sleep"
    /\ inTask' = "connect"
    /\ UNCHANGED <<source, conn, subs, got, outputs, phase, fails>>

-----------------------------------------------------------------------------
(* _connect_remote_outputs and _handle_remote_output *)

\* The worker's output handler writes into src_pipe until it is closed.
Produce ==
    /\ phase = "run" /\ wrote < node.wrote
    /\ wrote' = wrote + 1
    /\ src' = IF OutRunning THEN Append(src, wrote + 1) ELSE src
    /\ UNCHANGED <<inputs, outTask, hand, dest, sender, stored, phase, fails>>

\* data_write: an ApiError is not a ConfigurationError and ends the task.
OutConnect ==
    /\ outTask = "connect"
    /\ \/ /\ outTask' = "read" /\ sender' = "send"
          /\ UNCHANGED fails
       \/ /\ fails < node.fails
          /\ outTask' = "died" /\ fails' = fails + 1
          /\ UNCHANGED sender
    /\ UNCHANGED <<inputs, wrote, src, hand, dest, stored, phase>>

\* src_pipe.read and dest_pipe.write: a pipe that failed raises.
OutRead ==
    /\ outTask = "read" /\ src # <<>>
    /\ \/ /\ sender = "failed"
          /\ outTask' = "died"
          /\ UNCHANGED <<src, hand>>
       \/ /\ sender # "failed"
          /\ outTask' = "put" /\ hand' = <<Head(src)>> /\ src' = Tail(src)
    /\ UNCHANGED <<inputs, wrote, dest, sender, stored, phase, fails>>

\* queue.put of that write, and consume.
OutPut ==
    /\ outTask = "put" /\ Len(dest) < WriteLimit
    /\ outTask' = "read" /\ dest' = dest \o hand /\ hand' = <<>>
    /\ UNCHANGED <<inputs, wrote, src, sender, stored, phase, fails>>

\* _data_sender yields the rows of dest_pipe to the request.
Send ==
    /\ sender = "send" /\ dest # <<>>
    /\ stored' = Append(stored, Head(dest)) /\ dest' = Tail(dest)
    /\ UNCHANGED <<inputs, wrote, src, outTask, hand, sender, phase, fails>>

\* The request raises: pipe.fail().
SendFail ==
    /\ sender = "send" /\ fails < node.fails
    /\ sender' = "failed" /\ fails' = fails + 1
    /\ UNCHANGED <<inputs, wrote, src, outTask, hand, dest, stored, phase>>

\* TcpSession._request retries a status above 500 with the same generator,
\* which has ended: the second request is empty and succeeds.
SendEmpty ==
    /\ sender = "send" /\ fails < node.fails
    /\ sender' = "done" /\ fails' = fails + 1
    /\ UNCHANGED <<inputs, wrote, src, outTask, hand, dest, stored, phase>>

\* Mutant: LocalPipe.close runs its callback before it marks the pipe closed.
SendEndAfterClose ==
    /\ outTask = "ended" /\ sender = "send" /\ dest = <<>>
    /\ sender' = "done" /\ stored' = Append(stored, Break)
    /\ UNCHANGED <<inputs, wrote, src, outTask, hand, dest, phase, fails>>

\* dest_pipe is closed and empty: the last interval token.
SendEnd ==
    /\ outTask = "flush" /\ sender = "send" /\ dest = <<>>
    /\ sender' = "done" /\ stored' = Append(stored, Break)
    /\ UNCHANGED <<inputs, wrote, src, outTask, hand, dest, phase, fails>>

\* The end of finally: dest_pipe.close awaits _send_data and raises what it
\* raised.
OutClose ==
    /\ outTask = "flush" /\ sender # "send"
    /\ outTask' = IF sender = "failed" THEN "died" ELSE "ended"
    /\ UNCHANGED <<inputs, wrote, src, hand, dest, sender, stored, phase, fails>>

-----------------------------------------------------------------------------
(* Supervisor.stop *)

\* The workers are stopped, which closes their pipes, and awaited.
StopWorkers ==
    /\ phase = "run"
    /\ phase' = "stop"
    /\ pipe' = [p \in Pipes |-> "closed"] /\ attached' = {}
    /\ UNCHANGED <<source, conn, inTask, first, got, outputs, fails>>

\* task.cancel() and await: a task that died makes stop raise.  A write that
\* waits loses its rows.
CancelOut ==
    /\ phase = "stop"
    /\ \/ /\ OutRunning
          /\ outTask' = IF sender = "off" THEN "ended" ELSE "flush"
          /\ hand' = <<>>
          /\ UNCHANGED phase
       \/ /\ outTask = "ended" /\ phase' = "in"
          /\ UNCHANGED <<outTask, hand>>
       \/ /\ outTask = "died" /\ phase' = "raised"
          /\ UNCHANGED <<outTask, hand>>
    /\ UNCHANGED <<inputs, wrote, src, dest, sender, stored, fails>>

CancelIn ==
    /\ phase = "in"
    /\ \/ /\ InRunning /\ InFinally("ended") /\ phase' = "stopped"
       \/ /\ inTask \in {"off", "refused"} /\ phase' = "stopped"
          /\ UNCHANGED <<conn, inTask, pipe>>
       \/ /\ inTask = "died" /\ phase' = "raised"
          /\ UNCHANGED <<conn, inTask, pipe>>
    /\ UNCHANGED <<source, first, attached, got, outputs, fails>>

-----------------------------------------------------------------------------
Network == Make \/ Skip \/ Drop
LiveReader == LiveRead \/ LiveEnd
HandleRemoteInput == InConnect \/ InRead \/ InEnd \/ InRetry
HandleRemoteOutput == OutConnect \/ OutRead \/ OutPut \/ OutClose
SendData == Send \/ SendEnd
Stop == CancelOut \/ CancelIn

Next ==
    \/ Network \/ LiveReader \/ HandleRemoteInput
    \/ Produce \/ HandleRemoteOutput \/ SendData \/ SendFail \/ SendEmpty
    \/ StopWorkers \/ Stop
    \/ \E p \in Pipes : Subscribe(p) \/ Disconnect(p) \/ Closed(p)

Spec == Init /\ [][Next]_vars

\* The event loop runs every task that can go on; producers, failures and stop
\* come when they like.
FairSpec ==
    /\ Spec
    /\ WF_vars(LiveReader) /\ WF_vars(HandleRemoteInput)
    /\ WF_vars(HandleRemoteOutput) /\ WF_vars(SendData) /\ WF_vars(Stop)
    /\ \A p \in Pipes : WF_vars(Closed(p))

-----------------------------------------------------------------------------
(* Properties *)

\* A row that has arrived over the network reaches every pipe that is subscribed,
\* through the first pipe or attached to it, unless the pipe is closed or the
\* supervisor stops: a connection that breaks loses nothing it had received.  The
\* exception is a first pipe that closes, whose place nobody takes.
ReceivedDelivered ==
    \A p \in Pipes, n \in 1..Max({s.made : s \in Setups}) :
        (n \in ToSet(link) /\ (p = first \/ p \in attached)) ~>
            (n \in ToSet(got[p]) \/ pipe[p] # "open" \/ pipe[first] # "open" \/ phase # "run")

\* stop ends: it waits for no task for ever, although it raises, with the tasks
\* behind it still running, when a task had died.
StopReturns == (phase = "stop") ~> (phase \in {"stopped", "raised"})

=============================================================================
