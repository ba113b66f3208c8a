------------------------------- MODULE Workers -------------------------------
(***************************************************************************)
(* joule/models/worker.py (run, _spawn_child, _stop_child, connections) and *)
(* joule/models/supervisor.py (start, stop, restart_producer, subscribe):   *)
(* the life of the module processes.  Every worker is a task run(); all    *)
(* share one popen_lock, so that the descriptors opened for one child are  *)
(* not inherited by another.  Steps end at the awaits of the code.         *)
(***************************************************************************)
EXTENDS Naturals, Sequences

CONSTANTS
    Workers,
    Produced,   \* [Workers -> Seq(BOOLEAN)]: for each input of the module, in
                \* order, whether some worker produces the stream
    HasOutputs, \* modules with outputs, each read by an output handler
    Fragile     \* modules whose outputs and command may fail to be set up (an
                \* exec_cmd shlex cannot split, no descriptors left)

ASSUME WorkersConstants ==
    /\ Produced \in [Workers -> Seq(BOOLEAN)]
    /\ HasOutputs \subseteq Workers /\ Fragile \subseteq Workers

Nobody == "nobody"
ASSUME NobodyAssumption == Nobody \notin Workers

VARIABLES
    pc,       \* run() of each worker: "start", "lock", "subscribe", "create",
              \* "running", "close", "unwind", "sleep", "ended", "died"
    mode,     \* why it closes its connections: "exit", "fail", "abandon"
    proc,     \* self.process: "none", "up", "dead"
    sig,      \* the signal sent to it while it is up: "none", "term", "kill"
    stop_requested,
    fds,      \* the descriptors meant for the child are open in jouled
    conns,    \* inputs (by index) that are subscribed to their producer
    popen_lock,   \* the holder, or Nobody
    lockq,        \* workers waiting for popen_lock
    sup,      \* Supervisor.stop: "run", "stop" (between two workers), "wait"
              \* (for a process), "stopped"
    tostop    \* workers whose stop() has not been called yet

vars == <<pc, mode, proc, sig, stop_requested, fds, conns, popen_lock, lockq,
          sup, tostop>>
supvars == <<sup, tostop>>
lockvars == <<popen_lock, lockq>>

Init ==
    /\ pc = [w \in Workers |-> "start"]
    /\ mode = [w \in Workers |-> "exit"]
    /\ proc = [w \in Workers |-> "none"]
    /\ sig = [w \in Workers |-> "none"]
    /\ stop_requested = [w \in Workers |-> FALSE]
    /\ fds = [w \in Workers |-> FALSE]
    /\ conns = [w \in Workers |-> {}]
    /\ popen_lock = Nobody /\ lockq = <<>>
    /\ sup = "run" /\ tostop = Workers

-----------------------------------------------------------------------------
(* run and _spawn_child *)

Goto(w, l) == pc' = [pc EXCEPT ![w] = l]

\* The task starts and asks for the lock.
Begin(w) ==
    /\ pc[w] = "start"
    /\ Goto(w, "lock")
    /\ lockq' = Append(lockq, w)
    /\ UNCHANGED <<mode, proc, sig, stop_requested, fds, conns, popen_lock, supvars>>

\* asyncio.Lock serves its waiters in order.
Acquire(w) ==
    /\ pc[w] = "lock" /\ popen_lock = Nobody /\ lockq # <<>> /\ Head(lockq) = w
    /\ popen_lock' = w /\ lockq' = Tail(lockq)
    /\ Goto(w, "subscribe")
    /\ UNCHANGED <<mode, proc, sig, stop_requested, fds, conns, supvars>>

\* _subscribe_to_inputs: the next input, in order, gets a pipe of which the
\* child's end is inheritable, and is subscribed to the stream's producer.
SubscribeInput(w) ==
    /\ pc[w] = "subscribe"
    /\ \E i \in DOMAIN Produced[w] :
          /\ conns[w] = 1..(i - 1) /\ Produced[w][i]
          /\ conns' = [conns EXCEPT ![w] = conns[w] \cup {i}]
    /\ fds' = [fds EXCEPT ![w] = TRUE]
    /\ UNCHANGED <<pc, mode, proc, sig, stop_requested, lockvars, supvars>>

\* Mutant: the descriptors of the inputs before the missing one stay open.
SubscriptionErrorLeak(w) ==
    /\ pc[w] = "subscribe"
    /\ \E i \in DOMAIN Produced[w] : conns[w] = 1..(i - 1) /\ ~Produced[w][i]
    /\ UNCHANGED fds
    /\ popen_lock' = Nobody
    /\ Goto(w, "close") /\ mode' = [mode EXCEPT ![w] = "abandon"]
    /\ UNCHANGED <<proc, sig, stop_requested, conns, lockq, supvars>>

\* A stream nobody produces: SubscriptionError.  The descriptors are closed and
\* the lock released before the connections are closed.
SubscriptionError(w) ==
    /\ pc[w] = "subscribe"
    /\ \E i \in DOMAIN Produced[w] : conns[w] = 1..(i - 1) /\ ~Produced[w][i]
    /\ fds' = [fds EXCEPT ![w] = FALSE]
    /\ popen_lock' = Nobody
    /\ Goto(w, "close") /\ mode' = [mode EXCEPT ![w] = "abandon"]
    /\ UNCHANGED <<proc, sig, stop_requested, conns, lockq, supvars>>

\* _spawn_outputs and _compose_cmd, up to the await of the new process.
SpawnOutputs(w) ==
    /\ pc[w] = "subscribe" /\ conns[w] = DOMAIN Produced[w]
    /\ fds' = [fds EXCEPT ![w] = TRUE]
    /\ Goto(w, "create")
    /\ UNCHANGED <<mode, proc, sig, stop_requested, conns, lockvars, supvars>>

\* The same when one of them raises: nothing catches the exception, and nothing
\* releases the lock.
SpawnRaises(w) ==
    /\ pc[w] = "subscribe" /\ conns[w] = DOMAIN Produced[w] /\ w \in Fragile
    /\ fds' = [fds EXCEPT ![w] = TRUE]
    /\ Goto(w, "died")
    /\ UNCHANGED <<mode, proc, sig, stop_requested, conns, lockvars, supvars>>

\* The process exists: its descriptors are closed here, the lock is released.
Created(w) ==
    /\ pc[w] = "create"
    /\ proc' = [proc EXCEPT ![w] = "up"]
    /\ fds' = [fds EXCEPT ![w] = FALSE]
    /\ popen_lock' = Nobody
    /\ Goto(w, "running")
    /\ UNCHANGED <<mode, sig, stop_requested, conns, lockq, supvars>>

\* Mutant: the error path of create keeps the lock.
CreateFailsKeepsLock(w) ==
    /\ pc[w] = "create"
    /\ proc' = [proc EXCEPT ![w] = "none"]
    /\ fds' = [fds EXCEPT ![w] = FALSE]
    /\ Goto(w, "close") /\ mode' = [mode EXCEPT ![w] = "fail"]
    /\ UNCHANGED <<sig, stop_requested, conns, lockvars, supvars>>

CreateFails(w) ==
    /\ pc[w] = "create"
    /\ proc' = [proc EXCEPT ![w] = "none"]
    /\ fds' = [fds EXCEPT ![w] = FALSE]
    /\ popen_lock' = Nobody
    /\ Goto(w, "close") /\ mode' = [mode EXCEPT ![w] = "fail"]
    /\ UNCHANGED <<sig, stop_requested, conns, lockq, supvars>>

\* process.wait() returns.
ProcessEnded(w) ==
    /\ pc[w] = "running" /\ proc[w] = "dead"
    /\ Goto(w, "close") /\ mode' = [mode EXCEPT ![w] = "exit"]
    /\ UNCHANGED <<proc, sig, stop_requested, fds, conns, lockvars, supvars>>

\* _close_connections: the inputs are disconnected one after the other;
\* unsubscribe comes before the wait for the pipe to close.
DisconnectInput(w) ==
    /\ pc[w] = "close"
    /\ \E i \in conns[w] :
          /\ \A j \in conns[w] : i <= j
          /\ conns' = [conns EXCEPT ![w] = conns[w] \ {i}]
    /\ UNCHANGED <<pc, mode, proc, sig, stop_requested, fds, lockvars, supvars>>

\* The same when the pipe was lost with rows in its buffer: wait_closed raises
\* BrokenPipeError, which neither _spawn_child nor run catches.
DisconnectRaises(w) ==
    /\ pc[w] = "close"
    /\ \E i \in conns[w] :
          /\ \A j \in conns[w] : i <= j
          /\ conns' = [conns EXCEPT ![w] = conns[w] \ {i}]
    /\ Goto(w, "died")
    /\ UNCHANGED <<mode, proc, sig, stop_requested, fds, lockvars, supvars>>

\* The connections are closed: after a missing input run() is over.
ConnectionsClosed(w) ==
    /\ pc[w] = "close" /\ conns[w] = {}
    /\ Goto(w, CASE mode[w] = "exit" -> "unwind" [] mode[w] = "fail" -> "sleep"
                 [] mode[w] = "abandon" -> "ended")
    /\ mode' = [mode EXCEPT ![w] = "exit"]
    /\ UNCHANGED <<proc, sig, stop_requested, fds, conns, lockvars, supvars>>

\* The output task is cancelled and awaited; an exception of an output handler
\* (module OutputHandler) ends run().
Unwind(w, l) ==
    /\ pc[w] = "unwind"
    /\ l = "sleep" \/ (l = "died" /\ w \in HasOutputs)
    /\ Goto(w, l)
    /\ UNCHANGED <<mode, proc, sig, stop_requested, fds, conns, lockvars, supvars>>

\* RESTART_INTERVAL is over.
Restart(w) ==
    /\ pc[w] = "sleep"
    /\ IF stop_requested[w] THEN Goto(w, "ended") /\ UNCHANGED lockq
       ELSE Goto(w, "lock") /\ lockq' = Append(lockq, w)
    /\ UNCHANGED <<mode, proc, sig, stop_requested, fds, conns, popen_lock, supvars>>

-----------------------------------------------------------------------------
(* The processes, restart and stop *)

\* The child ends, by itself or because of a signal.
ProcessExits(w) ==
    /\ proc[w] = "up"
    /\ proc' = [proc EXCEPT ![w] = "dead"] /\ sig' = [sig EXCEPT ![w] = "none"]
    /\ UNCHANGED <<pc, mode, stop_requested, fds, conns, lockvars, supvars>>

\* restart(), called by an output handler or by Supervisor.restart_producer;
\* with no process, or an ended one, it does nothing.
RestartChild(w) ==
    /\ proc[w] = "up" /\ sig[w] = "none"
    /\ sig' = [sig EXCEPT ![w] = "term"]
    /\ UNCHANGED <<pc, mode, proc, stop_requested, fds, conns, lockvars, supvars>>

\* Mutant: a process that ignores SIGTERM is not killed.
KillNever(w) ==
    /\ proc[w] = "up" /\ sig[w] = "term" /\ FALSE
    /\ UNCHANGED vars

\* SIGTERM_TIMEOUT is over and the process still there.
Kill(w) ==
    /\ proc[w] = "up" /\ sig[w] = "term"
    /\ sig' = [sig EXCEPT ![w] = "kill"]
    /\ UNCHANGED <<pc, mode, proc, stop_requested, fds, conns, lockvars, supvars>>

\* jouled is told to stop.
BeginStop ==
    /\ sup = "run" /\ \A w \in Workers : pc[w] # "start"
    /\ sup' = "stop"
    /\ UNCHANGED <<pc, mode, proc, sig, stop_requested, fds, conns, lockvars, tostop>>

\* Worker.stop of the next worker: its process, if there is one, is told to
\* terminate and waited for.
StopWorker(w) ==
    /\ sup = "stop" /\ w \in tostop
    /\ tostop' = tostop \ {w}
    /\ stop_requested' = [stop_requested EXCEPT ![w] = TRUE]
    /\ IF proc[w] = "up"
       THEN /\ sig' = [sig EXCEPT ![w] = IF sig[w] = "kill" THEN "kill" ELSE "term"]
            /\ sup' = "wait"
       ELSE UNCHANGED <<sig, sup>>
    /\ UNCHANGED <<pc, mode, proc, fds, conns, lockvars>>

\* The process has ended, or was killed: stop() returns.
StopNext ==
    /\ sup = "wait"
    /\ \A w \in Workers \ tostop : proc[w] = "up" => sig[w] # "term"
    /\ sup' = "stop"
    /\ UNCHANGED <<pc, mode, proc, sig, stop_requested, fds, conns, lockvars, tostop>>

\* await self.task: the gathered run()s are all over, or one has died.
StopGather ==
    /\ sup = "stop" /\ tostop = {}
    /\ \/ \A w \in Workers : pc[w] = "ended"
       \/ \E w \in Workers : pc[w] = "died"
    /\ sup' = "stopped"
    /\ UNCHANGED <<pc, mode, proc, sig, stop_requested, fds, conns, lockvars, tostop>>

-----------------------------------------------------------------------------
\* What a worker's task does next; it never blocks but for the lock and the
\* process.
RunStep(w) ==
    \/ Begin(w) \/ SubscribeInput(w) \/ SubscriptionError(w) \/ SpawnOutputs(w)
    \/ SpawnRaises(w) \/ Created(w) \/ CreateFails(w) \/ ProcessEnded(w)
    \/ DisconnectInput(w) \/ DisconnectRaises(w) \/ ConnectionsClosed(w)
    \/ (\E l \in {"sleep", "died"} : Unwind(w, l)) \/ Restart(w)

StopStep == StopNext \/ StopGather \/ \E w \in Workers : StopWorker(w)

Next ==
    \/ \E w \in Workers : RunStep(w) \/ Acquire(w) \/ ProcessExits(w)
                          \/ RestartChild(w) \/ Kill(w)
    \/ BeginStop \/ StopStep

Spec == Init /\ [][Next]_vars

\* The event loop runs every task that can go on, timers fire, and a killed
\* process ends; a process that is only asked to terminate may go on.
Fairness ==
    /\ \A w \in Workers :
          /\ WF_vars(RunStep(w)) /\ WF_vars(Acquire(w)) /\ WF_vars(Kill(w))
          /\ WF_vars(sig[w] = "kill" /\ ProcessExits(w))
    /\ WF_vars(StopStep)

FairSpec == Spec /\ Fairness

-----------------------------------------------------------------------------
(* Properties *)

\* Types of the state.
TypeOK ==
    /\ pc \in [Workers -> {"start", "lock", "subscribe", "create", "running",
                           "close", "unwind", "sleep", "ended", "died"}]
    /\ mode \in [Workers -> {"exit", "fail", "abandon"}]
    /\ proc \in [Workers -> {"none", "up", "dead"}]
    /\ sig \in [Workers -> {"none", "term", "kill"}]
    /\ stop_requested \in [Workers -> BOOLEAN]
    /\ fds \in [Workers -> BOOLEAN]
    /\ conns \in [Workers -> SUBSET Nat]
    /\ \A w \in Workers : conns[w] \subseteq DOMAIN Produced[w]
    /\ popen_lock \in Workers \cup {Nobody}
    /\ lockq \in Seq(Workers)
    /\ sup \in {"run", "stop", "wait", "stopped"}
    /\ tostop \subseteq Workers

\* "lock so fd's don't pollute other modules": while a process is being
\* created no descriptor meant for another module is open, on whatever path
\* the other worker left _spawn_child.
FdsNotShared ==
    \A v, w \in Workers : v # w /\ pc[w] = "create" => ~fds[v]

\* The lock is handed on: the only worker that keeps it died with it.
LockReleased ==
    \A w \in Workers : (popen_lock = w) ~> (popen_lock # w \/ pc[w] = "died")

\* Shutdown comes to an end, unless a process was created after its worker's
\* stop() had found none to terminate.
StopEnds ==
    (sup = "stop") ~>
        \/ sup = "stopped"
        \/ \E w \in Workers : stop_requested[w] /\ proc[w] = "up" /\ sig[w] = "none"

=============================================================================
