-------------------------------- MODULE Daemon --------------------------------
(***************************************************************************)
(* joule/daemon.py with the configuration services: jouled processes that  *)
(* start, read their configuration into the database, run, stop and crash. *)
(* The pid file and the API socket are all that keeps two of them apart.   *)
(*                                                                         *)
(* A layout stands for a datatype and element names.  Reading the stream   *)
(* and module files is one transaction of one process, so one step.        *)
(***************************************************************************)
EXTENDS Integers, Sequences, FiniteSets, SequencesExt

CONSTANTS
    Daemons,      \* processes, each with a pid of its own
    Streams, Layouts, Modules,
    None,         \* no file, no stream, no inline configuration
    Configs,      \* bound: contents of the configuration directories
    MaxCrashes    \* bound: processes that are killed

Pipe == [stream : Streams, inline : Layouts \cup {None}, node : {"local", "follower", "stranger"}]
Config == [files : [Streams -> Layouts \cup {None}],
           mods : [Modules -> [ok : BOOLEAN, outs : Seq(Pipe), ins : Seq(Pipe)]],
           order : Seq(Modules)]

ASSUME DaemonConstants ==
    /\ IsFiniteSet(Streams) /\ None \notin Layouts \cup Daemons /\ MaxCrashes \in Nat
    /\ \A c \in Configs : c \in Config /\ ToSet(c.order) = Modules

VARIABLES
    pc,        \* where each process is
    pidfile,   \* the pid in the file, "empty", or None: no such file
    socket,    \* the process that listens on the api socket
    left,      \* files of the socket directory a process is about to unlink
    layout,    \* the streams of the database
    flags,     \* is_configured, is_destination, is_source: sets of streams
    loaded,    \* modules of each process, with the streams of their pipes
    config,    \* the directories as the running processes read them
    failed,    \* an inserter or a remote task of the process ended with an exception
    raced,     \* a process passed the check while another one was in a window
    crashes

files == <<pidfile, socket, left>>
db == <<layout, flags>>
vars == <<pc, files, db, loaded, config, failed, raced, crashes>>

Alive(d) == pc[d] \notin {"off", "dead"}
Goto(d, where) == pc' = [pc EXCEPT ![d] = where]
Forget(d) == /\ loaded' = [loaded EXCEPT ![d] = {}]
             /\ config' = [config EXCEPT ![d] = None]
             /\ failed' = [failed EXCEPT ![d] = FALSE]
\* between the check of the pid file and the end of its writing, or while the
\* files are being removed
InWindow(d) == pc[d] \in {"clear", "open", "write", "unlink"}

Init ==
    /\ pc = [d \in Daemons |-> "off"]
    /\ pidfile = None /\ socket = None /\ left = [d \in Daemons |-> {}]
    /\ layout = [s \in Streams |-> None]
    /\ flags = [conf |-> {}, dest |-> {}, src |-> {}]
    /\ loaded = [d \in Daemons |-> {}] /\ config = [d \in Daemons |-> None]
    /\ failed = [d \in Daemons |-> FALSE]
    /\ raced = FALSE /\ crashes = 0

-----------------------------------------------------------------------------
(* main and the first half of initialize *)

\* load_config.run accepts the main configuration, or the process exits.
LoadConfig(d) ==
    /\ pc[d] = "off"
    /\ Goto(d, "check") \/ Goto(d, "dead")
    /\ UNCHANGED <<files, db, loaded, config, failed, raced, crashes>>

\* Mutant: a pid file is trusted only while its process listens.
CheckSocket(d) ==
    /\ pc[d] = "check"
    /\ \/ /\ pidfile = None \/ socket = None
          /\ Goto(d, "clear")
          /\ raced' = (raced \/ \E e \in Daemons \ {d} : InWindow(e))
       \/ /\ pidfile # None /\ socket # None
          /\ Goto(d, "dead") /\ UNCHANGED raced
    /\ UNCHANGED <<files, db, loaded, config, failed, crashes>>

\* The pid file: no file or the pid of no process lets the process go on; an
\* empty file is a ValueError.
Check(d) ==
    /\ pc[d] = "check"
    /\ \/ /\ \/ pidfile = None
             \/ \E e \in Daemons : pidfile = e /\ ~Alive(e)
          /\ Goto(d, "clear")
          /\ raced' = (raced \/ \E e \in Daemons \ {d} : InWindow(e))
       \/ /\ pidfile = "empty" \/ \E e \in Daemons : pidfile = e /\ Alive(e)
          /\ Goto(d, "dead")
          /\ UNCHANGED raced
    /\ UNCHANGED <<files, db, loaded, config, failed, crashes>>

\* The socket directory is emptied.
Clear(d) ==
    /\ pc[d] = "clear"
    /\ pidfile' = None /\ socket' = None /\ Goto(d, "open")
    /\ UNCHANGED <<left, db, loaded, config, failed, raced, crashes>>

\* open(pid_file, 'w') truncates; the pid is there when the file is closed.
OpenPid(d) ==
    /\ pc[d] = "open"
    /\ pidfile' = "empty" /\ Goto(d, "write")
    /\ UNCHANGED <<socket, left, db, loaded, config, failed, raced, crashes>>

WritePid(d) ==
    /\ pc[d] = "write"
    /\ pidfile' = d /\ Goto(d, "init")
    /\ UNCHANGED <<socket, left, db, loaded, config, failed, raced, crashes>>

-----------------------------------------------------------------------------
(* load_streams, parse_pipe_config and load_modules, on [layout, conf] *)

\* _save_stream: a stream that exists keeps its layout, and is not configured by
\* a file with another one.
SaveStream(x, s, l) ==
    IF x.layout[s] \in {None, l}
    THEN [x EXCEPT !.layout[s] = l, !.conf = @ \cup {s}]
    ELSE x

LoadStream(x, c, s) == IF c.files[s] = None THEN x ELSE SaveStream(x, s, c.files[s])
LoadStreams(x, c) == FoldLeft(LAMBDA y, s : LoadStream(y, c, s), x, SetToSeq(Streams))

\* parse_pipe_config.run does not raise: a local stream exists with the inline
\* layout, if there is one, or can be created from it; a remote one has an inline
\* layout and its node is a follower.
Fits(x, p) ==
    CASE p.node = "stranger" -> FALSE
      [] p.node = "follower" -> p.inline # None
      [] OTHER -> \/ x.layout[p.stream] # None /\ p.inline \in {None, x.layout[p.stream]}
                  \/ x.layout[p.stream] = None /\ p.inline # None

\* One pipe of _connect_outputs and _connect_inputs; the first one that does not
\* fit ends the module, the streams created before stay.
Connect(x, p) ==
    IF ~x.ok \/ ~Fits(x, p) THEN [x EXCEPT !.ok = FALSE]
    ELSE IF p.node = "local" /\ x.layout[p.stream] = None
    THEN [x EXCEPT !.layout[p.stream] = p.inline]
    ELSE x

\* One side ("outs", "ins") of a module that is left, and a pass of load_modules
\* over that side of all modules, in order.
ConnectPipes(x, pipes) == FoldLeft(Connect, [x EXCEPT !.ok = TRUE], pipes)

LoadModule(x, c, side, m) ==
    IF m \notin x.mods THEN x
    ELSE LET y == ConnectPipes(x, c.mods[m][side])
         IN  [y EXCEPT !.mods = IF y.ok THEN @ ELSE @ \ {m}]

Pass(x, c, side) == FoldLeft(LAMBDA y, m : LoadModule(y, c, side, m), x, c.order)

\* Parameters, outputs, then inputs: a module may read what another one creates.
LoadModules(x, c) ==
    LET parsed == [layout |-> x.layout, conf |-> x.conf, ok |-> TRUE,
                   mods |-> {m \in Modules : c.mods[m].ok}]
        outs == Pass(parsed, c, "outs")
    IN Pass(outs, c, "ins")

Local(pipes) == {p.stream : p \in {q \in ToSet(pipes) : q.node = "local"}}
OutsOf(c, mods) == UNION {Local(c.mods[m].outs) : m \in mods}
InsOf(c, mods) == UNION {Local(c.mods[m].ins) : m \in mods}

\* Mutant: is_destination is not reset.
StaleFlags(x, c) ==
    [conf |-> x.conf, dest |-> flags.dest \cup OutsOf(c, x.mods), src |-> InsOf(c, x.mods)]

\* All flags are reset, and set again from the files and the loaded modules.
Flags(x, c) ==
    [conf |-> x.conf, dest |-> OutsOf(c, x.mods), src |-> InsOf(c, x.mods)]

\* The rest of initialize, committed at its end, and the start of run up to the
\* API server.
Configure(d) ==
    /\ pc[d] = "init"
    /\ \E c \in Configs :
        LET x == LoadModules(LoadStreams([layout |-> layout, conf |-> {}], c), c)
        IN /\ config' = [config EXCEPT ![d] = c]
           /\ layout' = x.layout /\ flags' = Flags(x, c)
           /\ loaded' = [loaded EXCEPT ![d] = x.mods]
    /\ socket' = d /\ Goto(d, "run")
    /\ UNCHANGED <<pidfile, left, failed, raced, crashes>>

-----------------------------------------------------------------------------
(* run and the end of main *)

\* An inserter, or a remote task of the supervisor, ends with an exception.
TaskDies(d) ==
    /\ pc[d] = "run" /\ ~failed[d]
    /\ failed' = [failed EXCEPT ![d] = TRUE]
    /\ UNCHANGED <<pc, files, db, loaded, config, raced, crashes>>

\* SIGTERM: the workers, the inserters, the store and the server are stopped, and
\* main lists the socket directory.  The exception of a task that died is raised
\* again here, which ends the process with its files in place.
Stop(d) ==
    /\ pc[d] = "run"
    /\ \/ /\ failed[d] /\ Goto(d, "dead")
          /\ UNCHANGED left
       \/ /\ ~failed[d] /\ Goto(d, "unlink")
          /\ left' = [left EXCEPT ![d] = (IF pidfile = None THEN {} ELSE {"pid"})
                                          \cup (IF socket = None THEN {} ELSE {"api"})]
    /\ Forget(d)
    /\ UNCHANGED <<pidfile, socket, db, raced, crashes>>

\* os.unlink, one file at a time, whoever's file it is by then; a file that has
\* gone is a FileNotFoundError.
Unlink(d) ==
    /\ pc[d] = "unlink"
    /\ \/ /\ left[d] = {} /\ Goto(d, "dead")
          /\ UNCHANGED files
       \/ \E f \in left[d] :
            /\ left' = [left EXCEPT ![d] = @ \ {f}]
            /\ pc' = [pc EXCEPT ![d] =
                        IF (f = "pid" /\ pidfile = None) \/ (f = "api" /\ socket = None)
                        THEN "dead" ELSE "unlink"]
            /\ pidfile' = IF f = "pid" THEN None ELSE pidfile
            /\ socket' = IF f = "api" THEN None ELSE socket
    /\ UNCHANGED <<db, loaded, config, failed, raced, crashes>>

\* kill -9 or a power failure; the database rolls back what is not committed.
Crash(d) ==
    /\ Alive(d) /\ crashes < MaxCrashes
    /\ Goto(d, "dead") /\ crashes' = crashes + 1
    /\ Forget(d)
    /\ UNCHANGED <<files, db, raced>>

-----------------------------------------------------------------------------
Next == \E d \in Daemons :
    \/ LoadConfig(d) \/ Check(d) \/ Clear(d) \/ OpenPid(d) \/ WritePid(d)
    \/ Configure(d) \/ TaskDies(d) \/ Stop(d) \/ Unlink(d) \/ Crash(d)

Spec == Init /\ [][Next]_vars

-----------------------------------------------------------------------------
(* Properties *)

Running == {d \in Daemons : pc[d] \in {"init", "run"}}

\* One daemon runs at a time, and it is the one whose socket clients find, whoever
\* crashed before and whatever files were left behind.  The exception is a
\* process that passes the check of the pid file while another is between its own
\* check and the writing of the file, or is removing its files.
OneDaemon ==
    ~raced => /\ Cardinality(Running) <= 1
              /\ \A d \in Daemons : pc[d] = "run" => socket = d /\ pidfile = d

\* While a daemon runs the flags of the streams are those of its own modules and
\* files, whatever the last run left: a stream is a destination exactly when a
\* loaded module produces it, so an inserter finds its producer
\* (_spawn_inserter) and an inactive stream is not locked.
FlagsMatch ==
    \A d \in Daemons : pc[d] = "run" /\ ~raced =>
        /\ flags.dest = OutsOf(config[d], loaded[d])
        /\ flags.src = InsOf(config[d], loaded[d])
        /\ flags.conf \subseteq {s \in Streams : config[d].files[s] = layout[s]}

=============================================================================
