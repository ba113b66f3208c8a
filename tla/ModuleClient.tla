----------------------------- MODULE ModuleClient -----------------------------
(***************************************************************************)
(* joule/client: the life of a module process.  A filter works off the     *)
(* intervals its inputs have and its outputs lack, a reader or a composite *)
(* opens its pipes once; a signal stops either.  With it                   *)
(* joule/cli/data/copy.py, which works off the intervals of one stream     *)
(* that another lacks.                                                     *)
(*                                                                         *)
(* A stream on the node is the set of the seconds it has data for.  The    *)
(* code of the module itself (setup, run) is external: it copies its input *)
(* and may honour stop_requested or not.                                   *)
(***************************************************************************)
EXTENDS Integers, FiniteSets, FiniteSetsExt, IntervalTools

CONSTANTS
    Inputs, Outputs,   \* the streams of the module's configuration
    Seconds,           \* bound: the last second of a stream
    Bounds,            \* start_time and end_time of the command line, 0 when not given
    MaxSignals         \* bound: SIGINT and SIGTERM

ASSUME ModuleClientConstants ==
    /\ Inputs \cap Outputs = {} /\ Inputs # {} /\ Outputs # {}
    /\ Seconds \in Nat \ {0} /\ MaxSignals \in Nat
    /\ Bounds \subseteq (0..(Seconds + 1)) \X (0..(Seconds + 1))

VARIABLES
    args,      \* the command line
    data,      \* the streams on the node
    pc,        \* where the task of the module is
    known,     \* _compute_missing_intervals: streams asked, and their common intervals
    pending,   \* the intervals of _task that are not done
    range,     \* start and end of the pipes that are open
    next,      \* the next second of the input
    held,      \* what each output pipe holds and has not sent
    stop_requested, timers,   \* stop_task: the flag and the calls of task.cancel
    had,       \* seconds every output had when the module started
    signals

life == <<stop_requested, timers, signals>>
vars == <<args, data, pc, known, pending, range, next, held, life, had>>

Streams == Inputs \cup Outputs
\* A copy has one source and one destination.
Ins == IF args.kind = "copy" THEN {CHOOSE i \in Inputs : TRUE} ELSE Inputs
Outs == IF args.kind = "copy" THEN {CHOOSE o \in Outputs : TRUE} ELSE Outputs
Mine == Ins \cup Outs
Cells == 1..Seconds
None == 0
NoRange == [lo |-> None, hi |-> None]
Common(S) == {c \in Cells : \A s \in S : c \in data[s]}
Clip(cells) == {c \in cells : (args.lo = None \/ c >= args.lo) /\ (args.hi = None \/ c < args.hi)}
Covered(intervals) == UNION {i.lo..(i.hi - 1) : i \in ToSet(intervals)}

\* live: --live or the pipes of jouled, which both run the filter once.
Init ==
    /\ \E kind \in {"filter", "pipes", "copy"}, live, new, force, clash \in BOOLEAN, b \in Bounds :
        /\ kind = "filter" => ~new /\ ~force
        /\ kind = "pipes" => ~new   \* it arrives as live, which is not used
        /\ kind = "pipes" /\ live => ~force
        /\ kind = "copy" => ~live /\ ~force
        /\ args = [kind |-> kind, live |-> live, new |-> new, force |-> force,
                   lo |-> b[1], hi |-> b[2], clash |-> clash]
    /\ data \in [Streams -> SUBSET Cells]
    /\ pc = "parse" /\ pending = <<>>
    /\ known = [asked |-> {}, ins |-> <<>>, outs |-> <<>>]
    /\ range = NoRange /\ next = None
    /\ held = [o \in Outputs |-> {}]
    /\ stop_requested = FALSE /\ timers = 0 /\ signals = 0
    /\ had = Common(Outputs)

-----------------------------------------------------------------------------
(* Intervals of the node's streams *)

\* The answer of data_intervals: the runs of a stream between the two times.
DataIntervals(s) ==
    LET cells == Clip(data[s])
        starts == {c \in cells : c - 1 \notin cells}
        nth(n) == CHOOSE c \in starts : Cardinality({d \in starts : d <= c}) = n
    IN [n \in 1..Cardinality(starts) |->
            [lo |-> nth(n), hi |-> Min({e \in 1..(Seconds + 1) : e > nth(n) /\ e \notin cells})]]

\* The first stream's intervals, then the intersection with each further one's.
With(S, list, s) ==
    LET meet(mine) == IF known.asked \cap S = {} THEN mine ELSE IntervalIntersection(list, mine)
    IN Let(meet, DataIntervals(s))

\* Mutant: what the outputs have is filtered again.
MissingSwapped == IntervalDifference(known.outs, known.ins)

\* interval_difference at the end of _compute_missing_intervals
Missing == IntervalDifference(known.ins, known.outs)

\* An interval of one second or less is a boundary error.
Long(i) == i.hi - i.lo > 1

-----------------------------------------------------------------------------
(* start, run_as_task and FilterModule._task *)

\* _parse_streams and read_module_config: a ConfigurationError leads to _cleanup,
\* any other exception (an ApiError of the node) out of start.
ParseStreams ==
    /\ pc = "parse" /\ args.kind = "filter"
    /\ \/ ~args.clash /\ pc' = "plan"
       \/ args.clash /\ pc' = "cleanup"
       \/ pc' = "crash"
    /\ UNCHANGED <<args, data, known, pending, range, next, held, life, had>>

\* _build_pipes: the configuration is read, or the pipes come from jouled.
BuildPipes ==
    /\ pc = "parse" /\ args.kind = "pipes"
    /\ pc' \in {IF args.live THEN "fds" ELSE "warn", "cleanup"}
    /\ UNCHANGED <<args, data, known, pending, range, next, held, life, had>>

\* _run of a copy: the source has data, the streams have one layout, and a copy
\* of new data no start.
CopyStart ==
    /\ pc = "parse" /\ args.kind = "copy"
    /\ \/ /\ ~args.clash /\ \A i \in Ins : data[i] # {}
          /\ args.new => args.lo = None
          /\ pc' = IF args.new THEN "new" ELSE "plan"
       \/ pc' = "crash"
    /\ UNCHANGED <<args, data, known, pending, range, next, held, life, had>>

\* A copy of new data starts where the last interval of the destination ends.
CopyNew ==
    /\ pc = "new"
    /\ LET there == UNION {data[o] : o \in Outs} IN
       args' = IF there = {} THEN args ELSE [args EXCEPT !.lo = Max(there) + 1]
    /\ pc' = "plan"
    /\ UNCHANGED <<data, known, pending, range, next, held, life, had>>

\* Mutant: one stream stands for all of its side.
AskFirstOnly ==
    /\ pc = "plan" /\ known.asked # Mine
    /\ known' = [asked |-> Mine,
                 ins |-> DataIntervals(CHOOSE i \in Ins : TRUE),
                 outs |-> DataIntervals(CHOOSE o \in Outs : TRUE)]
    /\ UNCHANGED <<args, data, pc, pending, range, next, held, life, had>>

\* _compute_missing_intervals asks for the intervals of one stream at a time, the
\* inputs first; it does not when the data is live.
Ask ==
    /\ pc = "plan" /\ ~args.live /\ known.asked # Mine
    /\ LET left == IF Ins \subseteq known.asked THEN Outs \ known.asked
                   ELSE Ins \ known.asked
           s == CHOOSE s \in left : TRUE
       IN known' = [asked |-> known.asked \cup {s},
                    ins |-> IF s \in Inputs THEN With(Inputs, known.ins, s) ELSE known.ins,
                    outs |-> IF s \in Outputs THEN With(Outputs, known.outs, s) ELSE known.outs]
    /\ UNCHANGED <<args, data, pc, pending, range, next, held, life, had>>

\* The intervals, of a filter those that are long enough; none of them is
\* "Nothing to do".
Plan ==
    /\ pc = "plan" /\ (args.live \/ known.asked = Mine)
    /\ pending' = IF args.live THEN <<NoRange>>
                  ELSE IF args.kind = "copy" THEN Missing ELSE SelectSeq(Missing, Long)
    /\ pc' = IF pending' = <<>> THEN "cleanup" ELSE "build"
    /\ UNCHANGED <<args, data, known, range, next, held, life, had>>

\* data_write with time bounds removes the output's data between them.
DataWrite(r, outputs) ==
    LET gone(o) == {c \in data[o] : r # NoRange /\ (r.lo = None \/ c >= r.lo)
                                                /\ (r.hi = None \/ c < r.hi)}
    IN data' = [s \in Streams |-> IF s \in outputs THEN data[s] \ gone(s) ELSE data[s]]

Open(r) ==
    /\ pc' = "setup" /\ range' = r
    /\ next' = IF r.lo = None THEN 1 ELSE r.lo
    /\ DataWrite(r, Outputs)

\* A stream is refused, or the node fails: the outputs before it were opened, and
\* have lost their data.
Refused(r) ==
    /\ \E outputs \in SUBSET Outputs : outputs # Outputs /\ DataWrite(r, outputs)
    /\ pc' = "cleanup" /\ UNCHANGED <<range, next>>

\* _build_pipes_new: an ApiError ends the task.
BuildPipesNew ==
    /\ pc = "build" /\ args.kind = "filter"
    /\ Open(Head(pending)) \/ Refused(Head(pending))
    /\ UNCHANGED <<args, known, pending, held, life, had>>

\* build_fd_pipes: nothing is removed.
BuildFdPipes ==
    /\ pc = "fds"
    /\ Open(NoRange) \/ Refused(NoRange)
    /\ UNCHANGED <<args, known, pending, held, life, had>>

\* _copy_interval: the source answers, or the copy ends.  Nothing is removed from
\* the destination.
CopyInterval ==
    /\ pc = "build" /\ args.kind = "copy"
    /\ \/ /\ pc' = "run" /\ range' = Head(pending) /\ next' = Head(pending).lo
       \/ /\ pc' = "crash" /\ UNCHANGED <<range, next>>
    /\ UNCHANGED <<args, data, known, pending, held, life, had>>

\* A connection breaks: some of what was sent is stored.
CopyBreaks ==
    /\ pc = "run" /\ args.kind = "copy"
    /\ \E c \in 0..Seconds :
          data' = [s \in Streams |-> IF s \in Outs THEN data[s] \cup {d \in held[s] : d <= c}
                                      ELSE data[s]]
    /\ held' = [o \in Outputs |-> {}]
    /\ pc' = "crash"
    /\ UNCHANGED <<args, known, pending, range, next, life, had>>

\* _display_warning.  _build_pipes passes new and force one place too early:
\* build_network_pipes takes them for live and new, and its force is FALSE.
Warn ==
    /\ pc = "warn"
    /\ \/ /\ args.lo # None \/ args.hi # None
          /\ pc' \in {"network", "exit"}
       \/ /\ args.lo = None /\ args.hi = None
          /\ pc' = "network"
    /\ UNCHANGED <<args, data, known, pending, range, next, held, life, had>>

\* _compute_new_interval: from the last output to the last input.
NewInterval ==
    [lo |-> Max(UNION {data[o] : o \in Outputs}) + 1,
     hi |-> Max(UNION {data[i] : i \in Inputs}) + 1]

\* What arrives as new has the bounds computed for each input, which is refused
\* when they are given or were computed before.
Computable ==
    /\ args.lo = None /\ Cardinality(Inputs) = 1
    /\ \A i \in Inputs : data[i] # {}
    /\ \E o \in Outputs : data[o] # {}

\* build_network_pipes: live data without bounds, else a read and a write
\* between them.  Computing the bounds raises a TypeError when a stream without
\* data follows another, or is all there is.  An ApiError closes the pipes.
BuildNetworkPipes ==
    LET bounds == IF ~args.force THEN [lo |-> args.lo, hi |-> args.hi]
                  ELSE IF Computable THEN NewInterval ELSE NoRange
    IN
    /\ pc = "network"
    /\ \/ ~args.clash /\ (args.force => Computable) /\ Open(bounds)
       \/ /\ args.force /\ args.lo = None
          /\ \E s \in Streams : data[s] = {}
          /\ pc' = "crash"
          /\ UNCHANGED <<data, range, next>>
       \/ Refused(bounds)
    /\ UNCHANGED <<args, known, pending, held, life, had>>

\* setup, an external coroutine
Setup ==
    /\ pc = "setup"
    /\ pc' = "run"
    /\ UNCHANGED <<args, data, known, pending, range, next, held, life, had>>

AtEnd == next > Seconds \/ (range.hi # None /\ next >= range.hi)

\* run, and _data_sender of a copy, copy the seconds that all inputs have between
\* the bounds.
Copy ==
    /\ pc = "run" /\ ~args.live /\ ~AtEnd
    /\ held' = [o \in Outputs |-> IF next \in Common(Ins) /\ o \in Outs
                                  THEN held[o] \cup {next} ELSE held[o]]
    /\ next' = next + 1
    /\ UNCHANGED <<args, data, pc, known, pending, range, life, had>>

\* run returns at the end of its input, or because it honours stop_requested.
RunReturns ==
    /\ pc = "run" /\ (AtEnd \/ stop_requested)
    /\ pc' = IF args.kind = "pipes" THEN "cleanup" ELSE "close"
    /\ UNCHANGED <<args, data, known, pending, range, next, held, life, had>>

Flush == [s \in Streams |-> IF s \in Outputs THEN data[s] \cup held[s] ELSE data[s]]

\* Mutant: the pipes of an interval are left open, and replaced.
ClosePipesLater ==
    /\ pc = "close"
    /\ held' = [o \in Outputs |-> {}]
    /\ pending' = Tail(pending)
    /\ pc' = IF Tail(pending) = <<>> THEN "cleanup" ELSE "build"
    /\ UNCHANGED <<args, known, data, range, next, life, had>>

\* The output pipes are closed, which sends what they hold, and the loop of
\* _task goes on: also after a stop.
ClosePipes ==
    /\ pc = "close"
    /\ data' = Flush /\ held' = [o \in Outputs |-> {}]
    /\ pending' = Tail(pending)
    /\ pc' = IF Tail(pending) = <<>> THEN "cleanup" ELSE "build"
    /\ UNCHANGED <<args, known, range, next, life, had>>

\* _cleanup closes self.pipes
Cleanup ==
    /\ pc = "cleanup"
    /\ data' = Flush /\ held' = [o \in Outputs |-> {}]
    /\ pc' = "exit"
    /\ UNCHANGED <<args, known, pending, range, next, life, had>>

-----------------------------------------------------------------------------
(* Signals: the handlers are installed once run_as_task has returned *)

InTask == args.kind # "copy" /\ pc \in {"build", "setup", "run", "close"}
          /\ (args.kind = "pipes" => pc = "run")

\* stop_task
Signal ==
    /\ InTask /\ signals < MaxSignals
    /\ signals' = signals + 1 /\ timers' = timers + 1 /\ stop_requested' = TRUE
    /\ UNCHANGED <<args, data, pc, known, pending, range, next, held, had>>

\* Mutant: the task is not cancelled, only asked.
CancelNothing ==
    /\ InTask /\ timers > 0
    /\ timers' = timers - 1
    /\ UNCHANGED <<args, data, pc, known, pending, range, next, held, stop_requested, signals, had>>

\* task.cancel after STOP_TIMEOUT: _task swallows it in run; elsewhere it ends the
\* task.  A close that is cancelled loses what the pipe holds.
Cancel ==
    /\ InTask /\ timers > 0
    /\ timers' = timers - 1
    /\ pc' = IF pc = "run" /\ args.kind = "filter" THEN "close" ELSE "cleanup"
    /\ held' = IF pc = "close" THEN [o \in Outputs |-> {}] ELSE held
    /\ UNCHANGED <<args, data, known, pending, range, next, stop_requested, signals, had>>

-----------------------------------------------------------------------------
Task ==
    \/ CopyNew \/ CopyInterval \/ Ask \/ Plan
    \/ BuildPipesNew \/ BuildFdPipes \/ Warn \/ BuildNetworkPipes
    \/ Setup \/ Copy \/ ClosePipes \/ Cleanup

Next ==
    \/ ParseStreams \/ BuildPipes \/ CopyStart \/ CopyBreaks
    \/ Task \/ RunReturns \/ Signal \/ Cancel

Spec == Init /\ [][Next]_vars

\* The event loop runs the task and fires its timers; a filter of historic data
\* reads to the end of its input.  Whether run honours stop_requested is up to it.
FairSpec ==
    /\ Spec
    /\ WF_vars(Task) /\ WF_vars(Cancel) /\ WF_vars(RunReturns /\ AtEnd)

-----------------------------------------------------------------------------
(* Properties *)

\* The one pass of _interval_math_helper over the merged starts and ends finds
\* exactly the seconds all inputs have and some output lacks, in disjoint
\* intervals in order (_compute_missing_intervals).
MissingExact ==
    pc = "plan" /\ known.asked = Mine =>
        /\ Covered(Missing) = Clip(Common(Ins) \ Common(Outs))
        /\ \A i \in 1..(Len(Missing) - 1) : Missing[i].hi < Missing[i + 1].lo

\* What every output had when a filter started is never removed, although it
\* removes the data of its outputs interval by interval, and may be stopped at
\* any point between.
FilteredKept ==
    args.kind = "filter" => \A o \in Outputs : had \subseteq data[o]

\* A filter, or a copy, that ran to its end leaves nothing to do, so that no
\* interval is worked off twice; a filter leaves single seconds.
NothingLeft ==
    pc = "exit" /\ args.kind # "pipes" /\ known.asked = Mine /\ pending = <<>>
    /\ ~stop_requested =>
        LET left == Clip(Common(Ins) \ Common(Outs))
        IN \A c \in left : args.kind = "filter" /\ c + 1 \notin left

\* A signal ends the process, even when run does not honour stop_requested.
StopEnds == (signals > 0) ~> (pc = "exit")

=============================================================================
