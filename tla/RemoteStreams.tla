---------------------------- MODULE RemoteStreams -----------------------------
(***************************************************************************)
(* The streams a node shares with other nodes: what there is of them while *)
(* the tasks of supervisor.py run (Remote says how these change it), and   *)
(* what a subscriber is promised about the rows it gets.                   *)
(*                                                                         *)
(* Rows are numbered in the order they are produced; Break is an interval  *)
(* token or a closed interval.                                             *)
(***************************************************************************)
EXTENDS Integers, Sequences, FiniteSets

CONSTANTS
    Pipes,        \* the input pipes of the workers that want the remote stream
    None,         \* no pipe: nobody has asked for the stream
    WriteLimit,   \* write_limit of the network pipes
    Setups        \* bounds: the pipes, the rows in and out, and the failures

ASSUME RemoteConstants ==
    /\ None \notin Pipes /\ WriteLimit \in Nat \ {0}
    /\ Setups \subseteq [pipes : SUBSET Pipes, made : Nat, wrote : Nat, fails : Nat]

VARIABLES
    node,       \* what this node is configured for, a member of Setups
    made,       \* rows the remote node produced
    skips,      \* rows after which the remote producer marked a break
    wire,       \* the response of the subscription
    up,         \* the connection of the subscription
    link,       \* src_pipe of _handle_remote_input: a LocalPipe
    linkOpen,   \* it is not closed
    inTask,     \* _handle_remote_input
    first,      \* remote_inputs[stream]
    attached,   \* the subscribers of that pipe
    pipe,       \* "new", "open", "closing" or "closed"
    got,        \* what went through each pipe
    wrote,      \* rows the local worker produced
    src,        \* src_pipe of _handle_remote_output
    outTask,    \* _handle_remote_output
    hand,       \* the rows of a write that waits for a place in the queue
    dest,       \* dest_pipe of _handle_remote_output: a LocalPipe
    sender,     \* _send_data: "off", "send", "failed" or "done"
    stored,     \* what the remote node was sent
    phase,      \* Supervisor.stop
    fails       \* connections and requests that failed

Break == 0

\* Between two rows that reach the first subscriber and are not neighbours there
\* is a closed interval, whatever connections broke in between
\* (_handle_remote_input closes the interval of every connection it loses); the
\* exception is a break of the producer itself, which the handler does not pass
\* on.
LossMarked ==
    first # None =>
        LET s == got[first] IN
        \A i \in 1..(Len(s) - 1) :
            s[i] # Break /\ s[i + 1] # Break =>
                \/ s[i + 1] = s[i] + 1
                \/ \E k \in skips : k \in s[i]..(s[i + 1] - 1)

=============================================================================
