-------------------------------- MODULE Nodes --------------------------------
(***************************************************************************)
(* joule/controllers/master_controller.py, follower_controller.py,         *)
(* update_users.py and cli/admin/authorize.py: who may control a node.     *)
(*                                                                         *)
(* A node lists its masters (users, Joule nodes and Lumen servers, each    *)
(* with an API key) and its followers (the nodes it may control, with the  *)
(* keys they gave it).  Adding a Joule node as a master takes a            *)
(* conversation: a row with a temporary name is committed, its key is      *)
(* posted to the other node, which calls back with that key before it      *)
(* lists the follower, and the row is renamed.  Requests fail, are         *)
(* repeated by TcpSession, outlive the requester, and meet each other.     *)
(***************************************************************************)
EXTENDS Integers, FiniteSets, Functions

CONSTANTS
    Nodes,       \* Joule nodes, each the name it reports
    Joining,     \* the nodes whose masters change
    Lumens,      \* Lumen servers, each the identifier it is added by
    Users,       \* user names
    Pending,     \* the name "pending_<hex>" of a row that is not settled
    Addresses,   \* where a node can be reached, a set of numbers
    MaxKeys,     \* bound on the API keys ever made
    MaxOps,      \* bound on the additions under way
    MaxFaults    \* bound on failures: lost or repeated requests, restarts, moves

ASSUME NodesConstants ==
    /\ Joining \subseteq Nodes /\ Pending \notin Nodes \cup Lumens \cup Users
    /\ IsFiniteSet(Nodes) /\ IsFiniteSet(Addresses) /\ Lumens \cap Nodes = {}
    /\ Cardinality(Nodes) =< Cardinality(Addresses) /\ 0 \notin Addresses
    /\ MaxKeys \in Nat /\ MaxOps \in Nat /\ MaxFaults \in Nat

VARIABLES
    masters,     \* node -> rows of its master table
    followers,   \* node -> rows of its follower table
    loc,         \* node -> its address
    ops,         \* calls of _add_device and the requests they sent
    cli,         \* node -> the row "joule admin authorize" has not committed
    held,        \* keys that reached their owners
    watching,    \* nodes whose watch_users_file has not died
    made,        \* keys and rows made so far
    faults,      \* failures so far
    granted,     \* <<node, master, key>> reported as granted and not touched since
    purged       \* nodes that lost masters to the users file

tables == <<masters, followers>>
history == <<granted, purged>>
vars == <<tables, loc, ops, cli, held, watching, made, faults, history>>

NoGrantor == 0
Url(m) == <<m>>
Keys(n) == {r.key : r \in masters[n]}
Grants(n, r) == \E s \in masters[n] : s.by = r.id
Row(name, type, by) ==
    [id |-> made + 1, name |-> name, type |-> type, key |-> made + 1, by |-> by]

\* Rows gone from a table take with them what was reported as granted by them.
Without(rows) == {g \in granted : g[3] \notin {r.key : r \in rows}}

\* Installed nodes: each has one user, authorized on its own machine.
Init ==
    LET first == CHOOSE f \in [Nodes -> 1 .. Cardinality(Nodes)] : IsInjective(f)
    IN  /\ loc = CHOOSE f \in [Nodes -> Addresses] : IsInjective(f)
        /\ \E u \in Users :
             masters = [n \in Nodes |->
                 {[id |-> first[n], name |-> u, type |-> "user", key |-> first[n], by |-> NoGrantor]}]
        /\ followers = [n \in Nodes |-> {}]
        /\ ops = {} /\ cli = [n \in Nodes |-> {}]
        /\ made = Cardinality(Nodes) /\ held = 1 .. made
        /\ watching = Nodes /\ faults = 0 /\ granted = {} /\ purged = {}

\* A request g may make of n: its key is known to its owner and opens the node.
Authorize(n, g) == g \in masters[n] /\ g.key \in held

\* master_controller._add_user
AddUser(n, g, u) ==
    /\ made < MaxKeys
    /\ Authorize(n, g)
    /\ ~\E r \in masters[n] : r.type = "user" /\ r.name = u
    /\ masters' = [masters EXCEPT ![n] = @ \cup {Row(u, "user", g.id)}]
    /\ made' = made + 1 /\ held' = held \cup {made'}
    /\ UNCHANGED <<followers, loc, ops, cli, watching, faults, history>>

\* _add_device up to the await: the row is committed under a temporary name.
Start(n, to, ident, by) ==
    /\ made < MaxKeys /\ Cardinality(ops) < MaxOps
    /\ masters' = [masters EXCEPT ![n] = @ \cup
           {Row(Pending, IF to \in Nodes THEN "joule" ELSE "lumen", by)}]
    /\ made' = made + 1
    /\ ops' = {[o EXCEPT !.solo = @ /\ <<o.at, o.to>> # <<n, to>>] : o \in ops} \cup
           {[at |-> n, to |-> to, ident |-> ident, key |-> made', side |-> "post", loc |-> 0,
             waiting |-> TRUE, solo |-> ~\E o \in ops : o.to = to /\ (o.at = n \/ o.loc = loc[n])]}
    /\ granted' = {t \in granted : <<t[1], t[2]>> # <<n, to>>}
    /\ UNCHANGED <<followers, loc, cli, held, watching, faults, purged>>

\* add and _add_device: a Joule node by its name or its URL, or a Lumen server.
AddDevice(n, g, to, ident) == Authorize(n, g) /\ Start(n, to, ident, g.id)

\* The request of o reaches the other node, which notes where it came from.
Arrive(o) ==
    /\ o.side = "post" /\ o.to \in Nodes
    /\ ops' = (ops \ {o}) \cup {[o EXCEPT !.side = "call", !.loc = loc[o.at]]}
    /\ held' = held \cup {o.key}
    /\ UNCHANGED <<tables, loc, cli, watching, made, faults, history>>

\* follower_controller.add calls node.info() at that address with the key.
Callback(o) ==
    /\ o.side = "call"
    /\ ops' = (ops \ {o}) \cup
           {[o EXCEPT !.side = IF loc[o.at] = o.loc /\ o.key \in Keys(o.at) THEN "save" ELSE "no"]}
    /\ UNCHANGED <<tables, loc, cli, held, watching, made, faults, history>>

\* The rest of follower_controller.add: names, keys and locations are unique columns.
Save(o) ==
    LET others == {f \in followers[o.to] : f.loc # o.loc}
        clash == \E f \in others : f.name = o.at \/ f.key = o.key
    IN  /\ o.side = "save"
        /\ followers' = IF clash THEN followers ELSE
               [followers EXCEPT ![o.to] = others \cup {[name |-> o.at, key |-> o.key, loc |-> o.loc]}]
        /\ ops' = (ops \ {o}) \cup {[o EXCEPT !.side = IF clash THEN "no" ELSE "ok"]}
        /\ UNCHANGED <<masters, loc, cli, held, watching, made, faults, history>>

\* A Lumen server takes the key, or refuses it.
LumenAnswer(o, answer) ==
    /\ o.side = "post" /\ o.to \in Lumens
    /\ ops' = (ops \ {o}) \cup {[o EXCEPT !.side = answer]}
    /\ held' = held \cup {o.key}
    /\ UNCHANGED <<tables, loc, cli, watching, made, faults, history>>

\* Rename first, then delete the rows of that name.
SettleThenDelete(n, my, name) ==
    {r \in (masters[n] \ {my}) \cup {[my EXCEPT !.name = name]} : ~(r.type = my.type /\ r.name = name)}

\* The rows of n once the row my has its name: it replaces the one that had it.
Settle(n, my, name) ==
    {r \in masters[n] \ {my} : ~(r.type = my.type /\ r.name = name)} \cup {[my EXCEPT !.name = name]}

\* _add_device after the await.  A row that was deleted meanwhile, or an old row
\* that granted others, makes the commit fail.
Finish(o, ok, rest) ==
    LET n == o.at
        name == IF ok /\ o.to \in Nodes THEN o.to ELSE o.ident
        mine == {r \in masters[n] : r.key = o.key}
        old == {r \in masters[n] : r.name = name /\ \E my \in mine : r.type = my.type}
        fails == mine = {} \/ \E r \in old : Grants(n, r)
    IN  /\ o.waiting
        /\ masters' = IF fails THEN masters ELSE
               [masters EXCEPT ![n] = Settle(n, CHOOSE r \in mine : TRUE, name)]
        /\ granted' = IF fails THEN granted ELSE Without(old) \cup
               IF ok /\ o.solo /\ o.to \in Nodes THEN {<<n, o.to, o.key>>} ELSE {}
        /\ ops' = (ops \ {o}) \cup rest
        /\ UNCHANGED <<followers, loc, cli, held, watching, made, purged>>

\* The answer arrives, or an ApiError; an unanswered request may live on.
Answer(o) == o.side \in {"ok", "no"} /\ Finish(o, o.side = "ok", {}) /\ UNCHANGED faults
Fail(o) ==
    /\ faults < MaxFaults /\ faults' = faults + 1
    /\ \E rest \in {{}, {[o EXCEPT !.waiting = FALSE]}} : Finish(o, FALSE, rest)

\* TcpSession repeats a request that a gateway gave up on; detect_url times out.
Retry(o) ==
    /\ faults < MaxFaults /\ faults' = faults + 1
    /\ o.waiting
    /\ ops' = (ops \ {o}) \cup {[o EXCEPT !.waiting = FALSE], [o EXCEPT !.side = "post", !.loc = 0]}
    /\ UNCHANGED <<tables, loc, cli, held, watching, made, history>>
Abandon(o) ==
    /\ faults < MaxFaults /\ faults' = faults + 1
    /\ o.side = "post" /\ o.ident # Url(o.to)
    /\ ops' = ops \ {o}
    /\ UNCHANGED <<tables, loc, cli, held, watching, made, history>>

\* A request nobody waits for is over.
Forget(o) ==
    /\ ~o.waiting /\ o.side \in {"ok", "no"}
    /\ ops' = ops \ {o}
    /\ UNCHANGED <<tables, loc, cli, held, watching, made, faults, history>>

\* Any master may delete any master.
DeleteSelf(n, g, r) ==
    /\ Authorize(n, g) /\ r \in masters[n]
    /\ ~Grants(n, r)
    /\ masters' = [masters EXCEPT ![n] = @ \ {r}]
    /\ granted' = Without({r})
    /\ UNCHANGED <<followers, loc, ops, cli, held, watching, made, faults, purged>>

\* master_controller.delete: not yourself; the row of a grantor is referred to.
Delete(n, g, r) ==
    /\ Authorize(n, g) /\ r \in masters[n]
    /\ r.key # g.key
    /\ ~Grants(n, r)
    /\ masters' = [masters EXCEPT ![n] = @ \ {r}]
    /\ granted' = Without({r})
    /\ UNCHANGED <<followers, loc, ops, cli, held, watching, made, faults, purged>>

\* follower_controller.delete: the filter compares the name with itself, and every
\* row goes.
DeleteFollower(m, f) ==
    /\ f \in followers[m]
    /\ followers' = [followers EXCEPT ![m] = {}]
    /\ granted' = {t \in granted : t[2] # m}
    /\ ops' = {[o EXCEPT !.solo = @ /\ o.to # m] : o \in ops}
    /\ UNCHANGED <<masters, loc, cli, held, watching, made, faults, purged>>

\* update_users.add_user: a new user, or another key for one the node has.
FileAdd(n, u) ==
    LET has == {r \in masters[n] : r.type = "user" /\ r.name = u}
        old == IF has = {} THEN has ELSE {CHOOSE r \in has : \A s \in has : r.id =< s.id}
    IN  /\ made < MaxKeys /\ n \in watching
        /\ masters' = [masters EXCEPT ![n] = (@ \ old) \cup
               IF old = {} THEN {Row(u, "user", NoGrantor)} ELSE {[r EXCEPT !.key = made + 1] : r \in old}]
        /\ made' = made + 1 /\ held' = held \cup {made'}
        /\ UNCHANGED <<followers, loc, ops, cli, watching, faults, history>>

\* remove_user and remove_user_like: whoever has one of the names.  Deleting the row
\* of a grantor raises, and nobody watches the file any longer.
FileRemove(n, names) ==
    LET gone == {r \in masters[n] : r.name \in names}
    IN  /\ gone # {} /\ n \in watching
        /\ IF \E r \in gone : Grants(n, r)
           THEN watching' = watching \ {n} /\ UNCHANGED <<masters, history>>
           ELSE /\ masters' = [masters EXCEPT ![n] = @ \ gone]
                /\ granted' = Without(gone) /\ purged' = purged \cup {n}
                /\ UNCHANGED watching
        /\ UNCHANGED <<followers, loc, ops, cli, held, made, faults>>

\* joule admin authorize, in a process of its own: it looks for the user, finds the
\* URL, saves the key and only then commits.
AuthorizeCli(n, u) ==
    /\ made < MaxKeys /\ cli[n] = {}
    /\ ~\E r \in masters[n] : r.type = "user" /\ r.name = u
    /\ cli' = [cli EXCEPT ![n] = {Row(u, "user", NoGrantor)}]
    /\ made' = made + 1
    /\ UNCHANGED <<tables, loc, ops, held, watching, faults, history>>
CommitCli(n) ==
    /\ cli[n] # {}
    /\ masters' = [masters EXCEPT ![n] = @ \cup cli[n]]
    /\ held' = held \cup {r.key : r \in cli[n]}
    /\ cli' = [cli EXCEPT ![n] = {}]
    /\ UNCHANGED <<followers, loc, ops, watching, made, faults, history>>

\* The daemon of n starts again: what its handlers waited for is lost.
Restart(n) ==
    /\ faults < MaxFaults /\ faults' = faults + 1
    /\ ops' = {[o EXCEPT !.waiting = @ /\ o.at # n,
                         !.side = IF o.to = n /\ @ \in {"call", "save"} THEN "no" ELSE @] : o \in ops}
    /\ watching' = watching \cup {n}
    /\ UNCHANGED <<tables, loc, cli, held, made, history>>

\* n gets another address.
Move(n, a) ==
    /\ faults < MaxFaults /\ faults' = faults + 1
    /\ \A m \in Nodes : loc[m] # a
    /\ loc' = [loc EXCEPT ![n] = a]
    /\ ops' = {[o EXCEPT !.solo = @ /\ o.at # n] : o \in ops}
    /\ granted' = {t \in granted : t[1] # n}
    /\ UNCHANGED <<tables, cli, held, watching, made, purged>>

Add(n) ==
    \E g \in masters[n] :
        \/ \E u \in Users : AddUser(n, g, u)
        \/ \E to \in Lumens : AddDevice(n, g, to, to)
        \/ \E to \in Nodes \ {n} : \E ident \in {to, Url(to)} : AddDevice(n, g, to, ident)
        \/ \E r \in masters[n] : Delete(n, g, r)

Request(o) ==
    \/ Arrive(o) \/ Callback(o) \/ Save(o) \/ Answer(o) \/ Forget(o)
    \/ \E answer \in {"ok", "no"} : LumenAnswer(o, answer)
    \/ Fail(o) \/ Retry(o) \/ Abandon(o)

Local(n) ==
    \/ \E u \in Users : FileAdd(n, u) \/ AuthorizeCli(n, u)
    \/ \E names \in SUBSET {r.name : r \in masters[n]} : FileRemove(n, names)
    \/ CommitCli(n)
    \/ \E a \in Addresses : Move(n, a)

Next ==
    \/ \E n \in Joining : Add(n) \/ Local(n)
    \/ \E n \in Nodes : Restart(n) \/ \E f \in followers[n] : DeleteFollower(n, f)
    \/ \E o \in ops : Request(o)

Spec == Init /\ [][Next]_vars

\* The requests of masters never lock a node's users out: whatever they add, replace
\* and delete, someone who was not let in by another master still is in, unless the
\* users file itself removed people (master_controller.py:214, "this would lock you
\* out of the node", and the grantor every added row refers to).
NotLockedOut ==
    \A n \in Nodes \ purged : \E r \in masters[n] : r.type = "user" /\ r.by = NoGrantor /\ r.key \in held

\* A grant that was reported works: the master lists the node at its address with a
\* key that opens it, until somebody deletes either row, adds that master again or
\* moves the node; lost answers, repeated requests, restarts and other masters'
\* requests in between do not break it (master_controller.py:102-119,
\* follower_controller.py:47-60).  An addition is not followed when an earlier one of
\* the same two nodes, or of the node that had this address before, is still under
\* way: the one that is saved last wins.
GrantWorks ==
    \A t \in granted :
        /\ t[3] \in Keys(t[1])
        /\ \E f \in followers[t[2]] : f.key = t[3] /\ f.loc = loc[t[1]]
====
