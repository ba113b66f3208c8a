------------------------------- MODULE MCEvents -------------------------------
EXTENDS Events

\* Events that overlap; and events that start together, with one in Dest whose
\* id is also used in Source.
Overlapping == [source |-> << <<1, 2>>, <<2, 4>>, <<3, 4>> >>, dest |-> <<>>]
Together == [source |-> << <<1, 3>>, <<2, 3>>, <<2, 4>> >>, dest |-> << <<1, 2>> >>]

Two == [source |-> << <<1, 2>>, <<2, 3>> >>, dest |-> <<>>]

\* The user's new event; one of them ends before it starts.
Valids == {<<4, 5>>}
Some == {<<4, 5>>, <<3, 3>>}

All == {<<None, None>>}
Ends == {<<None, None>>, <<2, 4>>}
Parts == {<<None, None>>, <<None, 3>>, <<2, 4>>}

With(h, n, b, r, o, f) ==
    [source |-> h.source, dest |-> h.dest, new |-> n, bounds |-> b, runs |-> r, ops |-> o, faults |-> f]

\* A copy taken up again after a failure, or after the user changed something;
\* one copy beside a user, with and without failures; a user alone; and a copy
\* beside three operations, which is what it takes until an id used twice harms.
MCSetups ==
    {With(Overlapping, Some, Parts, 2, 0, 1), With(Overlapping, Valids, Parts, 2, 1, 0),
     With(Overlapping, Some, Parts, 1, 1, 1), With(Together, Valids, Ends, 1, 2, 0),
     With(Together, Some, Parts, 0, 4, 0), With(Two, Valids, All, 1, 3, 0)}
=============================================================================
