---------------------------- MODULE IntervalTools ----------------------------
(***************************************************************************)
(* joule/utilities/interval_tools.py: set operations on sorted lists of    *)
(* half-open intervals, each a record [lo, hi].                             *)
(***************************************************************************)
EXTENDS Naturals, Sequences, SequencesExt

\* decorate: the starts and ends of a list in order, tagged 0/2 for the source
\* and 1/3 for the destination.
Decorate(list, side) ==
    [n \in 1..(2 * Len(list)) |->
        IF n % 2 = 1 THEN [ts |-> list[(n + 1) \div 2].lo, k |-> side]
        ELSE [ts |-> list[n \div 2].hi, k |-> side + 2]]

\* f(x), with x evaluated once.
Let(f(_), x) == CHOOSE y \in {f(z) : z \in {x}} : TRUE

\* The order of the heap: by time, then by tag.
Precedes(a, b) == a.ts < b.ts \/ (a.ts = b.ts /\ a.k <= b.k)

\* imerge: the heap holds the head of each list, the order within a list is kept.
Imerge(a, b) ==
    LET next(st) ==
            IF st.j > Len(b) \/ (st.i <= Len(a) /\ Precedes(a[st.i], b[st.j]))
            THEN [st EXCEPT !.out = Append(@, a[st.i]), !.i = @ + 1]
            ELSE [st EXCEPT !.out = Append(@, b[st.j]), !.j = @ + 1]
        take(st, _n) == Let(next, st)
    IN FoldLeft(take, [i |-> 1, j |-> 1, out |-> <<>>],
                [n \in 1..(Len(a) + Len(b)) |-> n]).out

\* _interval_math_helper: one pass over the events with the two "inside" flags,
\* on which op says whether a time belongs to the result.
IntervalMath(src, dest, op) ==
    LET event(st, ev) ==
            LET s == IF ev.k \in {0, 2} THEN ev.k = 0 ELSE st.src
                d == IF ev.k \in {1, 3} THEN ev.k = 1 ELSE st.dest
                closes == ~op[s, d] /\ st.open /\ st.start # ev.ts
            IN [src |-> s, dest |-> d, open |-> op[s, d],
                start |-> IF st.open THEN st.start ELSE ev.ts,
                out |-> IF closes THEN Append(st.out, [lo |-> st.start, hi |-> ev.ts])
                        ELSE st.out]
        step(st, ev) == Let(LAMBDA x : event(x, ev), st)
        pass(events) ==
            FoldLeft(step,
                     [src |-> FALSE, dest |-> FALSE, open |-> FALSE, start |-> 0, out |-> <<>>],
                     events).out
    IN Let(pass, Imerge(Decorate(src, 0), Decorate(dest, 1)))

IntervalDifference(src, dest) ==
    IntervalMath(src, dest, [s, d \in BOOLEAN |-> s /\ ~d])

IntervalIntersection(src, dest) ==
    IntervalMath(src, dest, [s, d \in BOOLEAN |-> s /\ d])
=============================================================================
