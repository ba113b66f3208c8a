------------------------------- MODULE MCDaemon -------------------------------
EXTENDS Daemon
CONSTANTS a, b, m1, m2, float32, int16

In(s, l) == [stream |-> s, inline |-> l, node |-> "local"]
Absent == [ok |-> FALSE, outs |-> <<>>, ins |-> <<>>]
Mod(outs, ins) == [ok |-> TRUE, outs |-> outs, ins |-> ins]

\* A reader of stream a, with and without an inline layout; a filter from a to b,
\* which may describe its input, and not its output; one with a remote pipe.
Readers == {Absent, Mod(<<In(a, float32)>>, <<>>), Mod(<<In(a, None)>>, <<>>)}
Filters == {Absent, Mod(<<In(b, float32)>>, <<In(a, None)>>), Mod(<<In(a, int16), In(b, None)>>, <<>>),
            Mod(<<In(b, float32)>>, <<In(a, int16)>>),
            Mod(<<[stream |-> b, inline |-> float32, node |-> "follower"]>>, <<In(a, float32)>>),
            Mod(<<[stream |-> b, inline |-> float32, node |-> "stranger"]>>, <<>>)}

MCConfigs == {[files |-> [s \in Streams |-> IF s = a THEN f ELSE None],
               mods |-> [m \in Modules |-> IF m = m1 THEN r ELSE g],
               order |-> o] :
                 f \in {None, float32, int16}, r \in Readers, g \in Filters,
                 o \in {<<m1, m2>>, <<m2, m1>>}}

=============================================================================
