--------------------------- MODULE IntervalChannel ---------------------------
(***************************************************************************)
(* What a Joule pipe promises, whatever its transport: the rows written    *)
(* arrive in order, and the consumer is told of every interval break       *)
(* before it sees a row from the other side of it.                         *)
(*                                                                         *)
(* Rows are identified by their position in the stream, so the rows sent   *)
(* so far are 1..sent and the rows consumed are 1..got.  A break is the    *)
(* position of the last row before it.                                     *)
(***************************************************************************)
EXTENDS Naturals

VARIABLES
    sent,      \* number of rows the producer has put into the pipe
    brks,      \* positions at which the producer closed the interval
    got,       \* number of rows the consumer has consumed
    flagged,   \* break positions the consumer has been told about
    shut,      \* the pipe is closed
    ended      \* the consumer has been told that the pipe is empty

vars == <<sent, brks, got, flagged, shut, ended>>

Init ==
    /\ sent = 0 /\ got = 0
    /\ brks = {} /\ flagged = {}
    /\ shut = FALSE /\ ended = FALSE

Send ==
    /\ ~shut
    /\ sent' \in {n \in Nat : n > sent}
    /\ UNCHANGED <<brks, got, flagged, shut, ended>>

\* A break may still be recorded on a closed pipe (close_interval_nowait).
Break ==
    /\ brks' = brks \cup {sent}
    /\ UNCHANGED <<sent, got, flagged, shut, ended>>

\* The consumer never receives a row beyond a break it was not told about.
Receive ==
    /\ got' \in Nat /\ got < got' /\ got' <= sent
    /\ \A b \in brks : b < got' => b \in flagged
    /\ UNCHANGED <<sent, brks, flagged, shut, ended>>

\* A break is announced once every row before it has been handed over, and
\* never in advance of a row.
Announce ==
    /\ \E b \in brks : got <= b /\ flagged' = flagged \cup {b}
    /\ UNCHANGED <<sent, brks, got, shut, ended>>

Shut ==
    /\ shut' = TRUE
    /\ UNCHANGED <<sent, brks, got, flagged, ended>>

\* The end is reported on a closed pipe once all rows are consumed; the pipe
\* may also report it when the consumer stands exactly at a break.
End ==
    /\ shut
    /\ got = sent \/ got \in brks
    /\ ended' = TRUE
    /\ UNCHANGED <<sent, brks, got, flagged, shut>>

Next == Send \/ Break \/ Receive \/ Announce \/ Shut \/ End

Spec == Init /\ [][Next]_vars
=============================================================================
