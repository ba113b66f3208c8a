--------------------------- MODULE SupervisorProof ---------------------------
(***************************************************************************)
(* Proofs about the two parts of the supervisor, for every value of their  *)
(* constants.  Workers: the state is well typed and the descriptors of one *)
(* child are never inherited by another.  Remote (the instance R): rows    *)
(* that are lost with a connection leave a closed interval behind.         *)
(***************************************************************************)
EXTENDS Workers, RemoteStreams, SequenceTheorems, TLAPS

-----------------------------------------------------------------------------
(* The inductive invariant *)

\* A worker between its acquire and the release has the lock, and whoever has
\* descriptors open has it too, a worker that died with them included.
LockGuards ==
    \A w \in Workers :
        /\ pc[w] \in {"subscribe", "create"} => popen_lock = w
        /\ fds[w] => popen_lock = w /\ pc[w] \in {"subscribe", "create", "died"}

Inv == TypeOK /\ LockGuards

\* The values of TypeOK that a step of one worker replaces.
Places == {"start", "lock", "subscribe", "create", "running", "close", "unwind",
           "sleep", "ended", "died"}

-----------------------------------------------------------------------------
USE WorkersConstants, NobodyAssumption DEF Nobody

LEMMA InitInv == Init => Inv
  <1> SUFFICES ASSUME Init PROVE Inv
    OBVIOUS
  <1>1. TypeOK
    BY DEF Init, TypeOK
  <1>2. LockGuards
    BY DEF Init, LockGuards
  <1> QED BY <1>1, <1>2 DEF Inv

LEMMA StutterInv == Inv /\ UNCHANGED vars => Inv'
  BY DEF vars, Inv, TypeOK, LockGuards

\* The first half of an action's proof: every step keeps the types.
LEMMA RunTypeOK ==
  ASSUME TypeOK, NEW w \in Workers,
         RunStep(w) \/ Acquire(w) \/ ProcessExits(w) \/ RestartChild(w) \/ Kill(w)
  PROVE  TypeOK'
  <1> USE DEF TypeOK, Goto, lockvars, supvars
  <1>1. CASE Begin(w)
    BY <1>1 DEF Begin
  <1>2. CASE SubscribeInput(w)
    <2>1. PICK i \in DOMAIN Produced[w] : conns' = [conns EXCEPT ![w] = conns[w] \cup {i}]
      BY <1>2 DEF SubscribeInput
    <2>2. DOMAIN Produced[w] \subseteq Nat
      <3>1. Produced[w] \in Seq(BOOLEAN)
        OBVIOUS
      <3> QED BY <3>1
    <2>3. conns' \in [Workers -> SUBSET Nat]
      BY <2>1, <2>2
    <2>4. \A v \in Workers : conns'[v] \subseteq DOMAIN Produced[v]
      BY <2>1, <2>2
    <2> QED BY <1>2, <2>3, <2>4 DEF SubscribeInput
  <1>3. CASE SubscriptionError(w)
    BY <1>3 DEF SubscriptionError
  <1>4. CASE SpawnOutputs(w)
    BY <1>4 DEF SpawnOutputs
  <1>5. CASE SpawnRaises(w)
    BY <1>5 DEF SpawnRaises
  <1>6. CASE Created(w)
    BY <1>6 DEF Created
  <1>7. CASE CreateFails(w)
    BY <1>7 DEF CreateFails
  <1>8. CASE ProcessEnded(w)
    BY <1>8 DEF ProcessEnded
  <1>9. CASE DisconnectInput(w) \/ DisconnectRaises(w)
    <2>1. PICK i \in conns[w] : conns' = [conns EXCEPT ![w] = conns[w] \ {i}]
      BY <1>9 DEF DisconnectInput, DisconnectRaises
    <2>2. /\ conns' \in [Workers -> SUBSET Nat]
          /\ \A v \in Workers : conns'[v] \subseteq DOMAIN Produced[v]
      BY <2>1
    <2>3. CASE DisconnectInput(w)
      BY <2>2, <2>3 DEF DisconnectInput
    <2>4. CASE DisconnectRaises(w)
      BY <2>2, <2>4 DEF DisconnectRaises
    <2> QED BY <1>9, <2>3, <2>4
  <1>10. CASE ConnectionsClosed(w)
    <2>1. PICK l \in {"unwind", "sleep", "ended"} : Goto(w, l)
      <3>1. mode[w] \in {"exit", "fail", "abandon"}
        OBVIOUS
      <3>2. CASE mode[w] = "exit"
        BY <1>10, <3>2 DEF ConnectionsClosed
      <3>3. CASE mode[w] = "fail"
        BY <1>10, <3>3 DEF ConnectionsClosed
      <3>4. CASE mode[w] = "abandon"
        BY <1>10, <3>4 DEF ConnectionsClosed
      <3> QED BY <3>1, <3>2, <3>3, <3>4
    <2> QED BY <1>10, <2>1 DEF ConnectionsClosed
  <1>11. CASE \E l \in {"sleep", "died"} : Unwind(w, l)
    BY <1>11 DEF Unwind
  <1>12. CASE Restart(w)
    <2>1. CASE stop_requested[w]
      BY <1>12, <2>1 DEF Restart
    <2>2. CASE ~stop_requested[w]
      <3>1. Append(lockq, w) \in Seq(Workers)
        OBVIOUS
      <3>2. lockq' \in Seq(Workers)
        BY <1>12, <2>2, <3>1 DEF Restart
      <3>3. pc' = [pc EXCEPT ![w] = "lock"]
        BY <1>12, <2>2 DEF Restart
      <3> QED BY <1>12, <3>2, <3>3 DEF Restart
    <2> QED BY <2>1, <2>2
  <1>13. CASE Acquire(w)
    <2>1. Tail(lockq) \in Seq(Workers)
      BY <1>13 DEF Acquire
    <2> QED BY <1>13, <2>1 DEF Acquire
  <1>14. CASE ProcessExits(w) \/ RestartChild(w) \/ Kill(w)
    <2>1. proc' \in [Workers -> {"none", "up", "dead"}]
      <3>1. proc' = [proc EXCEPT ![w] = "dead"] \/ proc' = proc
        BY <1>14 DEF ProcessExits, RestartChild, Kill
      <3> QED BY <3>1
    <2>2. sig' \in [Workers -> {"none", "term", "kill"}]
      <3>1. PICK x \in {"none", "term", "kill"} : sig' = [sig EXCEPT ![w] = x]
        BY <1>14 DEF ProcessExits, RestartChild, Kill
      <3> QED BY <3>1
    <2> QED BY <1>14, <2>1, <2>2 DEF ProcessExits, RestartChild, Kill
  <1> QED
    BY <1>1, <1>2, <1>3, <1>4, <1>5, <1>6, <1>7, <1>8, <1>9, <1>10, <1>11, <1>12,
       <1>13, <1>14 DEF RunStep

LEMMA StopTypeOK ==
  ASSUME TypeOK, BeginStop \/ StopStep
  PROVE  TypeOK'
  <1> USE DEF TypeOK, lockvars
  <1>1. CASE BeginStop \/ StopNext \/ StopGather
    BY <1>1 DEF BeginStop, StopNext, StopGather
  <1>2. CASE \E w \in Workers : StopWorker(w)
    BY <1>2 DEF StopWorker
  <1> QED BY <1>1, <1>2 DEF StopStep

-----------------------------------------------------------------------------
(* The lock *)

\* A worker that has the lock and gives it up: nobody else had descriptors.
LEMMA ReleaseInv ==
  ASSUME Inv, NEW w \in Workers, NEW l \in {"running", "close"},
         pc[w] \in {"subscribe", "create"}, popen_lock' = Nobody,
         fds' = [fds EXCEPT ![w] = FALSE], Goto(w, l)
  PROVE  LockGuards'
  <1>1. popen_lock = w
    BY DEF Inv, LockGuards
  <1>2. ASSUME NEW v \in Workers
        PROVE  /\ pc'[v] \notin {"subscribe", "create"}
               /\ ~fds'[v]
    <2>1. CASE v = w
      BY <2>1 DEF Inv, TypeOK, Goto
    <2>2. CASE v # w
      BY <1>1, <2>2 DEF Inv, TypeOK, LockGuards, Goto
    <2> QED BY <2>1, <2>2
  <1> QED BY <1>2 DEF LockGuards

\* A worker that opens descriptors has the lock already.
LEMMA OpenInv ==
  ASSUME Inv, NEW w \in Workers, NEW l \in {"subscribe", "create", "died"},
         pc[w] = "subscribe", UNCHANGED popen_lock,
         fds' = [fds EXCEPT ![w] = TRUE], pc' = [pc EXCEPT ![w] = l]
  PROVE  LockGuards'
  <1>1. popen_lock = w
    BY DEF Inv, LockGuards
  <1> QED BY <1>1 DEF Inv, TypeOK, LockGuards

\* Any other step of a worker: it is outside the lock before and after.
LEMMA OutsideInv ==
  ASSUME Inv, NEW w \in Workers, NEW l \in Places \ {"subscribe", "create"},
         pc[w] \notin {"subscribe", "create", "died"},
         UNCHANGED <<popen_lock, fds>>, Goto(w, l)
  PROVE  LockGuards'
  BY DEF Inv, TypeOK, LockGuards, Goto

LEMMA RunLock ==
  ASSUME Inv, NEW w \in Workers, RunStep(w)
  PROVE  LockGuards'
  <1> USE DEF lockvars
  <1>1. CASE Begin(w)
    BY <1>1, OutsideInv DEF Begin, Places
  <1>2. CASE SubscribeInput(w)
    <2>1. pc' = [pc EXCEPT ![w] = "subscribe"]
      BY <1>2 DEF SubscribeInput, Inv, TypeOK
    <2> QED BY <1>2, <2>1, OpenInv DEF SubscribeInput
  <1>3. CASE SubscriptionError(w)
    BY <1>3, ReleaseInv DEF SubscriptionError
  <1>4. CASE SpawnOutputs(w)
    BY <1>4, OpenInv DEF SpawnOutputs, Goto
  <1>5. CASE SpawnRaises(w)
    BY <1>5, OpenInv DEF SpawnRaises, Goto
  <1>6. CASE Created(w)
    BY <1>6, ReleaseInv DEF Created
  <1>7. CASE CreateFails(w)
    BY <1>7, ReleaseInv DEF CreateFails
  <1>8. CASE ProcessEnded(w)
    BY <1>8, OutsideInv DEF ProcessEnded, Places
  <1>9. CASE DisconnectInput(w)
    BY <1>9 DEF DisconnectInput, Inv, LockGuards
  <1>10. CASE DisconnectRaises(w)
    BY <1>10, OutsideInv DEF DisconnectRaises, Places
  <1>11. CASE ConnectionsClosed(w)
    BY <1>11, OutsideInv DEF ConnectionsClosed, Places, Inv, TypeOK
  <1>12. CASE \E l \in {"sleep", "died"} : Unwind(w, l)
    BY <1>12, OutsideInv DEF Unwind, Places
  <1>13. CASE Restart(w)
    BY <1>13, OutsideInv DEF Restart, Places
  <1> QED
    BY <1>1, <1>2, <1>3, <1>4, <1>5, <1>6, <1>7, <1>8, <1>9, <1>10, <1>11, <1>12,
       <1>13 DEF RunStep

LEMMA AcquireLock ==
  ASSUME Inv, NEW w \in Workers, Acquire(w)
  PROVE  LockGuards'
  BY DEF Inv, TypeOK, LockGuards, Acquire, Goto

LEMMA NextInv == Inv /\ Next => Inv'
  <1> SUFFICES ASSUME Inv, Next PROVE Inv'
    OBVIOUS
  <1>1. TypeOK'
    BY RunTypeOK, StopTypeOK DEF Inv, Next
  <1>2. LockGuards'
    <2>1. CASE \E w \in Workers : RunStep(w)
      BY <2>1, RunLock
    <2>2. CASE \E w \in Workers : Acquire(w)
      BY <2>2, AcquireLock
    <2>3. CASE \E w \in Workers : ProcessExits(w) \/ RestartChild(w) \/ Kill(w)
      BY <2>3 DEF ProcessExits, RestartChild, Kill, lockvars, Inv, LockGuards
    <2>4. CASE BeginStop \/ StopStep
      BY <2>4 DEF BeginStop, StopStep, StopNext, StopGather, StopWorker, lockvars,
                  Inv, LockGuards
    <2> QED BY <2>1, <2>2, <2>3, <2>4 DEF Next
  <1> QED BY <1>1, <1>2 DEF Inv

-----------------------------------------------------------------------------
(* The theorems *)

\* The invariant of the proofs holds in every state of the workers.
THEOREM InvHolds == Spec => []Inv
  BY InitInv, StutterInv, NextInv, PTL DEF Spec

\* The state is well typed: in particular a worker is subscribed to inputs of
\* its own module only, and the lock is free or held by a worker.
THEOREM TypeCorrect == Spec => []TypeOK
  <1>1. Inv => TypeOK
    BY DEF Inv
  <1> QED BY InvHolds, <1>1, PTL

\* While a child is created no descriptor of another module is open, on
\* whatever path the other worker left _spawn_child: a worker that keeps
\* descriptors keeps popen_lock.
THEOREM FdsPrivate == Spec => []FdsNotShared
  <1>1. Inv => FdsNotShared
    BY DEF Inv, LockGuards, FdsNotShared
  <1> QED BY InvHolds, <1>1, PTL

\* No step opens descriptors or creates a process for one worker while another
\* one is inside popen_lock.
LockExcludes ==
    \A v, w \in Workers : v # w /\ pc[v] \in {"subscribe", "create"} =>
        ~(fds'[w] /\ ~fds[w]) /\ ~(proc'[w] = "up" /\ proc[w] # "up")

\* The step a worker takes between two of its neighbour's awaits: only the holder
\* of popen_lock opens descriptors and creates a process.
THEOREM OnlyHolderSpawns == Spec => [][LockExcludes]_vars
  <1>1. Inv /\ Next => LockExcludes
    <2> SUFFICES ASSUME Inv, Next, NEW v \in Workers, NEW w \in Workers,
                        v # w, pc[v] \in {"subscribe", "create"}
                 PROVE  ~(fds'[w] /\ ~fds[w]) /\ ~(proc'[w] = "up" /\ proc[w] # "up")
      BY DEF LockExcludes
    <2>1. pc[w] \notin {"subscribe", "create"}
      BY DEF Inv, LockGuards
    <2> USE DEF Inv, TypeOK, Goto, lockvars, supvars
    <2>2. CASE \E u \in Workers : RunStep(u)
      <3>1. PICK u \in Workers : RunStep(u)
        BY <2>2
      <3> USE <2>1, <3>1
      <3>2. CASE \/ Begin(u) \/ ProcessEnded(u) \/ DisconnectInput(u)
                 \/ DisconnectRaises(u) \/ ConnectionsClosed(u)
                 \/ (\E l \in {"sleep", "died"} : Unwind(u, l)) \/ Restart(u)
        <4>1. UNCHANGED <<fds, proc>>
          BY <3>2 DEF Begin, ProcessEnded, DisconnectInput, DisconnectRaises,
                      ConnectionsClosed, Unwind, Restart
        <4> QED BY <4>1
      <3>3. CASE \/ SubscribeInput(u) \/ SubscriptionError(u) \/ SpawnOutputs(u)
                 \/ SpawnRaises(u) \/ Created(u) \/ CreateFails(u)
        <4>1. u # w
          BY <3>3 DEF SubscribeInput, SubscriptionError, SpawnOutputs, SpawnRaises,
                      Created, CreateFails
        <4>2. fds'[w] = fds[w] /\ proc'[w] = proc[w]
          BY <3>3, <4>1 DEF SubscribeInput, SubscriptionError, SpawnOutputs,
                            SpawnRaises, Created, CreateFails
        <4> QED BY <4>2
      <3> QED BY <3>2, <3>3 DEF RunStep
    <2>3. CASE \E u \in Workers : ProcessExits(u)
      BY <2>3 DEF ProcessExits
    <2>4. CASE \/ \E u \in Workers : Acquire(u) \/ RestartChild(u) \/ Kill(u)
               \/ BeginStop \/ StopStep
      <3>1. UNCHANGED <<fds, proc>>
        BY <2>4 DEF Acquire, RestartChild, Kill, BeginStop, StopStep, StopNext,
                    StopGather, StopWorker
      <3> QED BY <3>1
    <2> QED BY <2>2, <2>3, <2>4 DEF Next
  <1> QED BY InvHolds, <1>1, PTL DEF Spec

-----------------------------------------------------------------------------
(* The remote streams: the second component of the supervisor *)

\* Its constants and variables are those of RemoteStreams.
R == INSTANCE Remote

\* The rows of a stretch of the stream, which may hold breaks; they rise.
RowsIn(s) == {s[i] : i \in 1..Len(s)} \ {R!Break}
Rising(s) ==
    \A i, j \in 1..Len(s) : i < j /\ s[i] # R!Break /\ s[j] # R!Break => s[i] < s[j]

\* Received or still in the network.
Flight == RowsIn(link) \cup RowsIn(wire)

RemoteShape ==
    /\ made \in Nat /\ skips \subseteq Nat /\ up \in BOOLEAN /\ linkOpen \in BOOLEAN
    /\ link \in Seq(Nat) /\ wire \in Seq(Nat)
    /\ first \in Pipes \cup {None} /\ got \in [Pipes -> Seq(Nat)] /\ DOMAIN pipe = Pipes

\* A pipe nobody has subscribed has carried nothing, and the task is off before
\* the first subscription.
Unasked ==
    /\ \A p \in Pipes : pipe[p] = "new" => p # first /\ p \notin attached /\ got[p] = <<>>
    /\ first = None => inTask = "off"

\* A connection that is gone, and one that is over, leave nothing behind.
Emptied ==
    /\ inTask # "up" => link = <<>> /\ ~linkOpen
    /\ ~linkOpen => wire = <<>> /\ ~up

\* The row the first pipe has carried last, unless a closed interval follows it.
Newest ==
    IF first = None \/ got[first] = <<>> THEN {}
    ELSE {got[first][Len(got[first])]} \ {R!Break}

\* What is in flight is in order.
InOrder ==
    /\ Rising(link) /\ Rising(wire)
    /\ \A a \in RowsIn(link), b \in RowsIn(wire) : a < b
    /\ \A a \in Flight : a <= made

\* A row is followed by its neighbour, or by a break of the producer, or by
\* nothing: then it is the last one made, or its connection broke.
Followed(a) ==
    \/ a \in skips
    \/ a + 1 \in Flight
    \/ /\ \A b \in Flight : b <= a
       /\ up => made = a

Chained ==
    /\ InOrder
    /\ \A a \in Newest : a <= made /\ \A b \in Flight : a < b
    /\ \A a \in Newest \cup Flight : Followed(a)

\* While the first pipe is open: between two connections its interval is closed,
\* and during one nothing that it will carry is missing without a mark.
Carried ==
    first # None /\ pipe[first] = "open" =>
        IF inTask = "up" THEN Chained ELSE Newest = {}

RemoteInv == RemoteShape /\ Unasked /\ Emptied /\ Carried /\ R!LossMarked

-----------------------------------------------------------------------------
(* The rows of a queue from which the first item is taken, to which one is
   added, or whose end is lost *)

LEMMA RowsOfTail ==
  ASSUME NEW s \in Seq(Nat), s # <<>>
  PROVE  /\ Head(s) \in Nat /\ Tail(s) \in Seq(Nat)
         /\ RowsIn(s) = RowsIn(Tail(s)) \cup ({Head(s)} \ {R!Break})
         /\ Rising(s) => /\ Rising(Tail(s))
                         /\ Head(s) # R!Break => \A b \in RowsIn(Tail(s)) : Head(s) < b
  <1>1. PICK n \in Nat : n = Len(s)
    OBVIOUS
  <1>2. /\ Head(s) = s[1] /\ n >= 1 /\ Tail(s) \in Seq(Nat) /\ Len(Tail(s)) = n - 1
        /\ \A i \in 1..n : s[i] \in Nat
        /\ \A i \in 1..(n - 1) : Tail(s)[i] = s[i + 1]
    BY <1>1, EmptySeq, HeadTailProperties
  <1>3. PICK t \in Seq(Nat) : t = Tail(s) /\ Len(t) = n - 1 /\ \A i \in 1..(n - 1) : t[i] = s[i + 1]
    BY <1>2
  <1>4. RowsIn(s) = RowsIn(t) \cup ({s[1]} \ {R!Break})
    <2>1. ASSUME NEW x \in RowsIn(s) PROVE x \in RowsIn(t) \cup ({s[1]} \ {R!Break})
      <3>1. PICK i \in 1..n : x = s[i] /\ x # R!Break
        BY <1>1 DEF RowsIn
      <3>2. CASE i = 1
        BY <3>1, <3>2
      <3>3. CASE i # 1
        <4>1. PICK k \in 1..(n - 1) : k + 1 = i
          BY <3>3
        <4>2. k \in 1..Len(t) /\ x = t[k]
          BY <1>3, <3>1, <4>1
        <4> QED BY <3>1, <4>2 DEF RowsIn
      <3> QED BY <3>2, <3>3
    <2>2. ASSUME NEW x \in RowsIn(t) PROVE x \in RowsIn(s)
      <3>1. PICK i \in 1..(n - 1) : x = t[i] /\ x # R!Break
        BY <1>3 DEF RowsIn
      <3>2. i + 1 \in 1..n /\ x = s[i + 1]
        BY <1>3, <3>1
      <3> QED BY <1>1, <3>1, <3>2 DEF RowsIn
    <2>3. s[1] # R!Break => s[1] \in RowsIn(s)
      <3>1. 1 \in 1..Len(s)
        BY <1>1, <1>2
      <3> QED BY <3>1 DEF RowsIn
    <2> QED BY <2>1, <2>2, <2>3
  <1>5. ASSUME Rising(s), s[1] # R!Break, NEW b \in RowsIn(t) PROVE s[1] < b
    <2>1. PICK i \in 1..(n - 1) : b = s[i + 1] /\ b # R!Break
      BY <1>3 DEF RowsIn
    <2>2. 1 \in 1..n /\ i + 1 \in 1..n /\ 1 < i + 1
      BY <1>2
    <2> QED BY <1>1, <1>5, <2>1, <2>2 DEF Rising
  <1>6. ASSUME Rising(s) PROVE Rising(t)
    <2>1. ASSUME NEW i \in 1..(n - 1), NEW j \in 1..(n - 1), i < j, t[i] # R!Break, t[j] # R!Break
          PROVE  t[i] < t[j]
      <3>1. i + 1 \in 1..n /\ j + 1 \in 1..n /\ i + 1 < j + 1
        BY <2>1
      <3> QED BY <1>1, <1>3, <1>6, <2>1, <3>1 DEF Rising
    <2> QED BY <1>3, <2>1 DEF Rising
  <1> QED BY <1>1, <1>2, <1>3, <1>4, <1>5, <1>6

LEMMA RowsOfAppend ==
  ASSUME NEW s \in Seq(Nat), NEW x \in Nat
  PROVE  /\ Append(s, x) \in Seq(Nat) /\ Append(s, x) # <<>>
         /\ Append(s, x)[Len(Append(s, x))] = x
         /\ RowsIn(Append(s, x)) = RowsIn(s) \cup ({x} \ {R!Break})
         /\ Rising(s) /\ (x # R!Break => \A a \in RowsIn(s) : a < x) => Rising(Append(s, x))
  <1>1. PICK n \in Nat : n = Len(s)
    OBVIOUS
  <1>2. PICK t \in Seq(Nat) : /\ t = Append(s, x) /\ Len(t) = n + 1 /\ t # <<>>
                              /\ \A i \in 1..n : t[i] = s[i]
                              /\ t[n + 1] = x
    <2>1. PICK t \in Seq(Nat) : t = Append(s, x)
      BY AppendProperties
    <2>2. /\ Len(t) = n + 1 /\ t # <<>> /\ t[n + 1] = x
          /\ \A i \in 1..n : t[i] = s[i]
      BY <1>1, <2>1, AppendProperties
    <2> QED BY <2>1, <2>2
  <1>3. RowsIn(t) = RowsIn(s) \cup ({x} \ {R!Break})
    <2>1. ASSUME NEW y \in RowsIn(t) PROVE y \in RowsIn(s) \cup ({x} \ {R!Break})
      <3>1. PICK i \in 1..(n + 1) : y = t[i] /\ y # R!Break
        BY <1>2 DEF RowsIn
      <3>2. CASE i \in 1..n
        BY <1>1, <1>2, <3>1, <3>2 DEF RowsIn
      <3>3. CASE i = n + 1
        BY <1>2, <3>1, <3>3
      <3> QED BY <3>2, <3>3
    <2>2. ASSUME NEW y \in RowsIn(s) PROVE y \in RowsIn(t)
      <3>1. PICK i \in 1..n : y = s[i] /\ y # R!Break
        BY <1>1 DEF RowsIn
      <3>2. i \in 1..Len(t) /\ y = t[i]
        BY <1>2, <3>1
      <3> QED BY <3>1, <3>2 DEF RowsIn
    <2>3. x # R!Break => x \in RowsIn(t)
      <3>1. n + 1 \in 1..Len(t)
        BY <1>2
      <3> QED BY <1>2, <3>1 DEF RowsIn
    <2> QED BY <2>1, <2>2, <2>3
  <1>4. ASSUME Rising(s), x # R!Break => \A a \in RowsIn(s) : a < x PROVE Rising(t)
    <2>1. ASSUME NEW i \in 1..(n + 1), NEW j \in 1..(n + 1), i < j, t[i] # R!Break, t[j] # R!Break
          PROVE  t[i] < t[j]
      <3>1. i \in 1..n /\ t[i] = s[i]
        BY <1>2, <2>1
      <3>2. CASE j \in 1..n
        BY <1>1, <1>2, <1>4, <2>1, <3>1, <3>2 DEF Rising
      <3>3. CASE j = n + 1
        <4>1. s[i] \in RowsIn(s)
          BY <1>1, <2>1, <3>1 DEF RowsIn
        <4> QED BY <1>2, <1>4, <2>1, <3>1, <3>3, <4>1
      <3> QED BY <3>2, <3>3
    <2> QED BY <1>2, <2>1 DEF Rising
  <1> QED BY <1>2, <1>3, <1>4

\* What the network had not delivered is the end of what was sent.
LEMMA RowsOfPrefix ==
  ASSUME NEW s \in Seq(Nat), Rising(s), NEW k \in 0..Len(s), NEW t, t = SubSeq(s, 1, k)
  PROVE  /\ t \in Seq(Nat) /\ Rising(t) /\ RowsIn(t) \subseteq RowsIn(s)
         /\ \A a \in RowsIn(t), b \in RowsIn(s) \ RowsIn(t) : a < b
  <1>1. PICK n \in Nat : n = Len(s)
    OBVIOUS
  <1>2. k \in Nat /\ k <= n
    BY <1>1
  <1>3. t \in Seq(Nat) /\ Len(t) = k /\ \A i \in 1..k : t[i] = s[i]
    <2>1. 1 \in Nat /\ \A i \in 1..k : s[i] \in Nat
      BY <1>1, <1>2, ElementOfSeq
    <2> QED BY <1>1, <1>2, <2>1, SubSeqProperties
  <1>4. \A i \in 1..k : i \in 1..n
    BY <1>2
  <1>5. Rising(t)
    BY <1>1, <1>3, <1>4 DEF Rising
  <1>6. RowsIn(t) \subseteq RowsIn(s)
    BY <1>1, <1>3, <1>4 DEF RowsIn
  <1>7. ASSUME NEW a \in RowsIn(t), NEW b \in RowsIn(s) \ RowsIn(t) PROVE a < b
    <2>1. PICK i \in 1..k : a = s[i] /\ a # R!Break
      BY <1>3 DEF RowsIn
    <2>2. PICK j \in 1..n : b = s[j] /\ b # R!Break
      BY <1>1 DEF RowsIn
    <2>3. ~(j <= k)
      <3>1. ASSUME j <= k PROVE FALSE
        <4>1. j \in 1..k
          BY <3>1
        <4> QED BY <1>3, <1>7, <2>2, <4>1 DEF RowsIn
      <3> QED BY <3>1
    <2>4. i \in 1..n /\ i < j
      BY <1>2, <2>3
    <2> QED BY <1>1, <2>1, <2>2, <2>4 DEF Rising
  <1> QED BY <1>3, <1>5, <1>6, <1>7

LEMMA RowsOfNone == /\ <<>> \in Seq(Nat) /\ RowsIn(<<>>) = {} /\ Rising(<<>>)
  BY DEF RowsIn, Rising

\* Rows are numbers.
LEMMA NewestRow ==
  ASSUME RemoteInv PROVE Newest \subseteq Nat
  <1>1. CASE first = None \/ got[first] = <<>>
    BY <1>1 DEF Newest
  <1>2. CASE first # None /\ got[first] # <<>>
    <2>1. PICK s \in Seq(Nat) : s = got[first]
      BY <1>2 DEF RemoteInv, RemoteShape
    <2>2. PICK n \in Nat : n = Len(s) /\ n # 0
      BY <1>2, <2>1, EmptySeq
    <2>3. s[n] \in Nat
      BY <2>2, ElementOfSeq
    <2> QED BY <1>2, <2>1, <2>2, <2>3 DEF Newest
  <1> QED BY <1>1, <1>2

LEMMA FlightRows == ASSUME RemoteShape PROVE Flight \subseteq Nat
  <1>1. \A i \in 1..Len(link) : link[i] \in Nat
    BY DEF RemoteShape
  <1>2. \A i \in 1..Len(wire) : wire[i] \in Nat
    BY DEF RemoteShape
  <1> QED BY <1>1, <1>2 DEF Flight, RowsIn

-----------------------------------------------------------------------------
\* What the steps leave alone in which nothing happens to the stream.
streams == <<made, skips, wire, up, link, linkOpen, inTask, first, got>>

\* A pipe is never opened again.
PipesAge == /\ DOMAIN pipe' = Pipes
            /\ \A p \in Pipes : pipe'[p] # pipe[p] => pipe'[p] \notin {"new", "open"}

\* The steps of the output side, of stop, and of the pipes.
LEMMA ElsewhereKeeps ==
  ASSUME RemoteInv, UNCHANGED streams, PipesAge, attached' \subseteq attached
  PROVE  RemoteInv'
  <1> USE DEF streams
  <1>1. RemoteShape'
    BY DEF RemoteInv, RemoteShape, PipesAge
  <1>2. Unasked'
    BY DEF RemoteInv, Unasked, PipesAge
  <1>3. Emptied'
    BY DEF RemoteInv, Emptied
  <1>4. Flight' = Flight /\ Newest' = Newest
    BY DEF Flight, RowsIn, Newest
  <1>5. Chained => Chained'
    BY <1>4 DEF Chained, InOrder, Followed, Rising, RowsIn
  <1>6. Carried'
    <2>1. ASSUME first # None, pipe'[first] = "open"
          PROVE  IF inTask = "up" THEN Chained ELSE Newest = {}
      <3>1. first \in Pipes
        BY <2>1 DEF RemoteInv, RemoteShape
      <3>2. pipe[first] = "open"
        BY <2>1, <3>1 DEF PipesAge
      <3> QED BY <2>1, <3>2 DEF RemoteInv, Carried
    <2> QED BY <1>4, <1>5, <2>1 DEF Carried
  <1>7. R!LossMarked'
    BY DEF RemoteInv, R!LossMarked
  <1> QED BY <1>1, <1>2, <1>3, <1>6, <1>7 DEF RemoteInv

\* The parts of the invariant a step on the wire has to restore.
LEMMA StreamStep ==
  ASSUME RemoteInv, UNCHANGED <<inTask, first, attached, pipe, got>>, skips \subseteq skips',
         RemoteShape', Emptied',
         inTask = "up" /\ Chained => Chained'
  PROVE  RemoteInv'
  <1>1. Unasked'
    BY DEF RemoteInv, Unasked
  <1>2. Newest' = Newest
    BY DEF Newest
  <1>3. Carried'
    BY <1>2 DEF RemoteInv, Carried
  <1>4. R!LossMarked'
    BY DEF RemoteInv, R!LossMarked
  <1> QED BY <1>1, <1>3, <1>4 DEF RemoteInv

\* A new row is the neighbour of the one made before it.
LEMMA MakeKeeps == ASSUME RemoteInv, R!Make PROVE RemoteInv'
  <1> USE DEF R!subs
  <1>0. RemoteShape /\ Emptied
    BY DEF RemoteInv
  <1>1. /\ made' = made + 1 /\ wire' = IF up THEN Append(wire, made + 1) ELSE wire
        /\ UNCHANGED <<skips, up, link, linkOpen, inTask, first, attached, pipe, got>>
    BY DEF R!Make
  <1>2. made \in Nat /\ made + 1 \in Nat /\ made + 1 # R!Break
    BY <1>0 DEF RemoteShape, R!Break
  <1>3. RowsIn(link)' = RowsIn(link) /\ (Rising(link) => Rising(link)')
    BY <1>1 DEF RowsIn, Rising
  <1>4. ASSUME up
        PROVE /\ wire' \in Seq(Nat)
              /\ RowsIn(wire)' = RowsIn(wire) \cup {made + 1}
              /\ Rising(wire) /\ (\A a \in RowsIn(wire) : a < made + 1) => Rising(wire)'
    <2>1. wire \in Seq(Nat) /\ wire' = Append(wire, made + 1)
      BY <1>0, <1>1, <1>4 DEF RemoteShape
    <2>2. PICK w : w = Append(wire, made + 1)
      OBVIOUS
    <2>3. /\ w \in Seq(Nat) /\ RowsIn(w) = RowsIn(wire) \cup {made + 1}
          /\ Rising(wire) /\ (\A a \in RowsIn(wire) : a < made + 1) => Rising(w)
      BY <1>2, <2>1, <2>2, RowsOfAppend
    <2>4. RowsIn(wire)' = RowsIn(w) /\ (Rising(wire)' <=> Rising(w))
      BY <2>1, <2>2 DEF RowsIn, Rising
    <2> QED BY <2>1, <2>2, <2>3, <2>4
  <1>5. RemoteShape'
    BY <1>0, <1>1, <1>2, <1>4 DEF RemoteShape
  <1>6. Emptied'
    BY <1>0, <1>1 DEF Emptied
  <1>7. ASSUME Chained PROVE Chained'
    <2>1. Newest' = Newest
      BY <1>1 DEF Newest
    <2>2. RowsIn(link) \subseteq Nat /\ RowsIn(wire) \subseteq Nat
      BY <1>0 DEF RemoteShape, RowsIn
    <2>3. CASE up
      <3>1. Flight' = Flight \cup {made + 1}
        BY <1>3, <1>4, <2>3 DEF Flight
      <3>2. Flight \subseteq Nat /\ \A a \in Flight : a <= made /\ a < made + 1
        BY <1>2, <1>7, <2>2 DEF Flight, Chained, InOrder
      <3>3. InOrder'
        <4>1. Rising(wire)'
          BY <1>4, <1>7, <2>3, <3>2 DEF Chained, InOrder, Flight
        <4>2. \A a \in RowsIn(link)', b \in RowsIn(wire)' : a < b
          BY <1>3, <1>4, <1>7, <2>3, <3>2 DEF Chained, InOrder, Flight
        <4>3. \A a \in Flight' : a <= made'
          BY <1>1, <1>2, <3>1, <3>2
        <4> QED BY <1>3, <1>7, <4>1, <4>2, <4>3 DEF InOrder, Chained
      <3>4. \A a \in Newest : a \in Nat /\ a <= made' /\ \A b \in Flight' : a < b
        <4>1. Newest \subseteq Nat
          BY <1>0, NewestRow DEF RemoteInv
        <4> QED BY <1>1, <1>2, <1>7, <3>1, <4>1 DEF Chained
      <3>5. ASSUME NEW a \in Newest \cup Flight PROVE Followed(a)'
        <4>1. a \in Nat /\ Followed(a)
          BY <1>7, <3>2, <3>4 DEF Chained
        <4> QED BY <1>1, <2>3, <3>1, <4>1 DEF Followed
      <3>6. ASSUME NEW n \in Nat, n = made + 1 PROVE Followed(n)'
        BY <1>1, <1>2, <3>1, <3>2, <3>6 DEF Followed
      <3>7. PICK n \in Nat : n = made + 1
        BY <1>2
      <3>8. \A a \in Newest' \cup Flight' : Followed(a)'
        BY <2>1, <3>1, <3>5, <3>6, <3>7
      <3> QED BY <2>1, <3>3, <3>4, <3>8 DEF Chained
    <2>4. CASE ~up
      <3>1. wire' = wire
        BY <1>1, <2>4
      <3>2. Flight' = Flight
        BY <1>1, <3>1 DEF Flight, RowsIn
      <3>3. Flight \subseteq Nat /\ Newest \subseteq Nat
        BY <2>2, NewestRow DEF Flight
      <3>4. InOrder'
        BY <1>1, <1>2, <1>7, <3>1, <3>2, <3>3 DEF Chained, InOrder, Rising, RowsIn
      <3>5. \A a : Followed(a) => Followed(a)'
        BY <1>1, <2>4, <3>2 DEF Followed
      <3> QED BY <1>1, <1>2, <1>7, <2>1, <3>2, <3>3, <3>4, <3>5 DEF Chained
    <2> QED BY <2>3, <2>4
  <1> QED BY <1>1, <1>5, <1>6, <1>7, StreamStep

\* A break of the producer: the row before it is in skips from now on.
LEMMA SkipKeeps == ASSUME RemoteInv, R!Skip PROVE RemoteInv'
  <1> USE DEF R!subs
  <1>0. RemoteShape /\ Emptied
    BY DEF RemoteInv
  <1>1. PICK lost \in {0, 1} : made' = made + lost
    BY DEF R!Skip
  <1>2. /\ skips' = skips \cup {made} /\ wire' = IF up THEN Append(wire, R!Break) ELSE wire
        /\ UNCHANGED <<up, link, linkOpen, inTask, first, attached, pipe, got>>
    BY DEF R!Skip
  <1>3. made \in Nat /\ made' \in Nat /\ made <= made' /\ R!Break \in Nat
    BY <1>0, <1>1 DEF RemoteShape, R!Break
  <1>4. wire' \in Seq(Nat) /\ RowsIn(wire)' = RowsIn(wire) /\ (Rising(wire) => Rising(wire)')
    <2>1. PICK w : w = wire'
      OBVIOUS
    <2>2. CASE up
      <3>1. wire \in Seq(Nat) /\ w = Append(wire, R!Break)
        BY <1>0, <1>2, <2>1, <2>2 DEF RemoteShape
      <3>2. w \in Seq(Nat) /\ RowsIn(w) = RowsIn(wire) /\ (Rising(wire) => Rising(w))
        <4>1. PICK b \in Nat : b = R!Break
          BY <1>3
        <4>2. /\ w \in Seq(Nat) /\ RowsIn(w) = RowsIn(wire) \cup ({b} \ {R!Break})
              /\ Rising(wire) /\ (b # R!Break => \A a \in RowsIn(wire) : a < b) => Rising(w)
          BY <3>1, <4>1, RowsOfAppend
        <4>3. {b} \ {R!Break} = {}
          BY <4>1
        <4> QED BY <4>1, <4>2, <4>3
      <3> QED BY <2>1, <3>2 DEF RowsIn, Rising
    <2>3. CASE ~up
      BY <1>0, <1>2, <2>3 DEF RemoteShape, RowsIn, Rising
    <2> QED BY <2>2, <2>3
  <1>5. RowsIn(link)' = RowsIn(link) /\ (Rising(link) => Rising(link)')
    BY <1>2 DEF RowsIn, Rising
  <1>6. RemoteShape'
    BY <1>0, <1>2, <1>3, <1>4 DEF RemoteShape
  <1>7. Emptied'
    BY <1>0, <1>2 DEF Emptied
  <1>8. ASSUME Chained PROVE Chained'
    <2>1. Newest' = Newest /\ Flight' = Flight
      BY <1>2, <1>4, <1>5 DEF Newest, Flight
    <2>2. Newest \subseteq Nat /\ Flight \subseteq Nat
      BY <1>0, NewestRow, FlightRows
    <2>3. \A a \in Newest \cup Flight : a <= made'
      BY <1>3, <1>8, <2>2 DEF Chained, InOrder
    <2>4. InOrder'
      BY <1>4, <1>5, <1>8, <2>1, <2>3 DEF Chained, InOrder
    <2>5. ASSUME NEW a \in Newest \cup Flight PROVE Followed(a)'
      BY <1>2, <1>8, <2>1 DEF Chained, Followed
    <2> QED BY <1>8, <2>1, <2>3, <2>4, <2>5 DEF Chained
  <1> QED BY <1>2, <1>6, <1>7, <1>8, StreamStep

\* What is lost with a connection lies behind everything that arrived.
LEMMA DropKeeps == ASSUME RemoteInv, R!Drop PROVE RemoteInv'
  <1> USE DEF R!subs, R!source
  <1>0. RemoteShape /\ Emptied
    BY DEF RemoteInv
  <1>1. PICK k \in 0..Len(wire) : wire' = SubSeq(wire, 1, k)
    BY DEF R!Drop
  <1>2. /\ up /\ up' = FALSE
        /\ UNCHANGED <<made, skips, link, linkOpen, inTask, first, attached, pipe, got>>
    BY DEF R!Drop
  <1>3. linkOpen /\ inTask = "up"
    BY <1>0, <1>2 DEF Emptied
  <1>4. PICK w \in Seq(Nat) : w = wire' /\ w = SubSeq(wire, 1, k)
    <2>1. SubSeq(wire, 1, k) \in Seq(Nat)
      BY <1>0 DEF RemoteShape
    <2> QED BY <1>1, <2>1
  <1>5. RowsIn(link)' = RowsIn(link) /\ (Rising(link) => Rising(link)')
        /\ RowsIn(wire)' = RowsIn(w) /\ (Rising(w) => Rising(wire)')
    BY <1>2, <1>4 DEF RowsIn, Rising
  <1>6. RemoteShape'
    BY <1>0, <1>2, <1>4 DEF RemoteShape
  <1>7. Emptied'
    BY <1>2, <1>3 DEF Emptied
  <1>8. ASSUME Chained PROVE Chained'
    <2>1. wire \in Seq(Nat) /\ Rising(wire)
      BY <1>0, <1>8 DEF RemoteShape, Chained, InOrder
    <2>2. /\ Rising(w) /\ RowsIn(w) \subseteq RowsIn(wire)
          /\ \A a \in RowsIn(w), b \in RowsIn(wire) \ RowsIn(w) : a < b
      BY <1>4, <2>1, RowsOfPrefix
    <2>3. Newest' = Newest /\ Newest \subseteq Nat /\ Flight \subseteq Nat
      <3>1. Newest' = Newest
        BY <1>2 DEF Newest
      <3> QED BY <1>0, <3>1, NewestRow, FlightRows
    <2>4. /\ Flight' = RowsIn(link) \cup RowsIn(w) /\ Flight' \subseteq Flight
          /\ Flight \ Flight' \subseteq RowsIn(wire) \ RowsIn(w)
      BY <1>5, <2>2 DEF Flight
    <2>5. \A a \in Newest \cup Flight', b \in Flight \ Flight' : a < b
      BY <1>8, <2>2, <2>4 DEF Chained, InOrder, Flight
    <2>6. InOrder'
      BY <1>2, <1>5, <1>8, <2>2, <2>4 DEF Chained, InOrder
    <2>7. ASSUME NEW a \in Newest \cup Flight' PROVE Followed(a)'
      <3>1. a \in Nat /\ Followed(a)
        BY <1>8, <2>3, <2>4 DEF Chained
      <3>2. CASE a + 1 \in Flight \ Flight'
        <4>1. \A b \in Flight' : b \in Nat /\ b < a + 1
          BY <2>3, <2>4, <2>5, <3>2
        <4>2. \A b \in Flight' : b <= a
          BY <3>1, <4>1
        <4> QED BY <1>2, <4>2 DEF Followed
      <3>3. CASE a + 1 \notin Flight \ Flight'
        BY <1>2, <2>4, <3>1, <3>3 DEF Followed
      <3> QED BY <3>2, <3>3
    <2> QED BY <1>2, <1>8, <2>3, <2>4, <2>6, <2>7 DEF Chained
  <1> QED BY <1>2, <1>6, <1>7, <1>8, StreamStep

\* A row moves from the wire to the end of the local pipe.
LEMMA LiveReadKeeps == ASSUME RemoteInv, R!LiveRead PROVE RemoteInv'
  <1> USE DEF R!subs, R!source
  <1>0. RemoteShape /\ Emptied
    BY DEF RemoteInv
  <1>1. /\ linkOpen /\ wire # <<>> /\ link' = Append(link, Head(wire)) /\ wire' = Tail(wire)
        /\ UNCHANGED <<made, skips, up, linkOpen, inTask, first, attached, pipe, got>>
    BY DEF R!LiveRead
  <1>2. link \in Seq(Nat) /\ wire \in Seq(Nat)
    BY <1>0 DEF RemoteShape
  <1>3. PICK x, w : x = Head(wire) /\ w = Tail(wire)
    OBVIOUS
  <1>4. /\ x \in Nat /\ w \in Seq(Nat) /\ RowsIn(wire) = RowsIn(w) \cup ({x} \ {R!Break})
        /\ Rising(wire) => Rising(w) /\ (x # R!Break => \A b \in RowsIn(w) : x < b)
    BY <1>1, <1>2, <1>3, RowsOfTail
  <1>5. PICK l : l = Append(link, x)
    OBVIOUS
  <1>6. /\ l \in Seq(Nat) /\ RowsIn(l) = RowsIn(link) \cup ({x} \ {R!Break})
        /\ Rising(link) /\ (x # R!Break => \A a \in RowsIn(link) : a < x) => Rising(l)
    BY <1>2, <1>4, <1>5, RowsOfAppend
  <1>7. link' = l /\ wire' = w
    BY <1>1, <1>3, <1>5
  <1>8. /\ RowsIn(link)' = RowsIn(l) /\ (Rising(l) => Rising(link)')
        /\ RowsIn(wire)' = RowsIn(w) /\ (Rising(w) => Rising(wire)')
    BY <1>7 DEF RowsIn, Rising
  <1>9. RemoteShape'
    BY <1>0, <1>1, <1>4, <1>6, <1>7 DEF RemoteShape
  <1>10. Emptied'
    BY <1>0, <1>1 DEF Emptied
  <1>11. ASSUME Chained PROVE Chained'
    <2>1. Newest' = Newest /\ Flight' = Flight
      BY <1>1, <1>4, <1>6, <1>8 DEF Newest, Flight
    <2>2. x # R!Break => x \in RowsIn(wire)
      BY <1>4
    <2>3. Rising(l) /\ Rising(w)
      BY <1>4, <1>6, <1>11, <2>2 DEF Chained, InOrder
    <2>4. \A a \in RowsIn(l), b \in RowsIn(w) : a < b
      BY <1>4, <1>6, <1>11 DEF Chained, InOrder
    <2>5. InOrder'
      BY <1>1, <1>8, <1>11, <2>1, <2>3, <2>4 DEF Chained, InOrder
    <2>6. \A a : Followed(a)' <=> Followed(a)
      BY <1>1, <2>1 DEF Followed
    <2> QED BY <1>1, <1>11, <2>1, <2>5, <2>6 DEF Chained
  <1> QED BY <1>1, <1>9, <1>10, <1>11, StreamStep

LEMMA LiveEndKeeps == ASSUME RemoteInv, R!LiveEnd PROVE RemoteInv'
  <1> USE DEF R!subs, R!source
  <1>1. /\ linkOpen /\ wire = <<>> /\ ~up /\ linkOpen' = FALSE
        /\ UNCHANGED <<made, skips, wire, up, link, inTask, first, attached, pipe, got>>
    BY DEF R!LiveEnd
  <1>2. RemoteShape'
    BY <1>1 DEF RemoteInv, RemoteShape
  <1>3. Emptied'
    BY <1>1 DEF RemoteInv, Emptied
  <1>4. Chained => Chained'
    BY <1>1 DEF Chained, InOrder, Followed, Flight, Newest, RowsIn, Rising
  <1> QED BY <1>1, <1>2, <1>3, <1>4, StreamStep

\* Subscribing and starting the task: the first pipe has carried nothing yet.
LEMMA SubscribeKeeps ==
  ASSUME RemoteInv, None \notin Pipes, NEW p \in Pipes, R!Subscribe(p) PROVE RemoteInv'
  <1> USE DEF R!source, R!conn
  <1>0. RemoteShape /\ Unasked /\ Emptied
    BY DEF RemoteInv
  <1>1. /\ pipe[p] = "new" /\ pipe' = [pipe EXCEPT ![p] = "open"]
        /\ UNCHANGED <<made, skips, wire, up, link, linkOpen, got>>
    BY DEF R!Subscribe
  <1>2. /\ pipe'[p] = "open" /\ \A q \in Pipes : q # p => pipe'[q] = pipe[q]
        /\ DOMAIN pipe' = Pipes
    BY <1>0, <1>1 DEF RemoteShape
  <1>3. CASE first # None
    <2>1. first' = first /\ inTask' = inTask /\ attached' = attached \cup {p}
      BY <1>3 DEF R!Subscribe
    <2>2. first \in Pipes /\ first # p
      BY <1>0, <1>1, <1>3 DEF RemoteShape, Unasked
    <2>3. RemoteShape'
      BY <1>0, <1>1, <1>2, <2>1 DEF RemoteShape
    <2>4. Unasked'
      BY <1>0, <1>1, <1>2, <2>1 DEF Unasked
    <2>5. Emptied'
      BY <1>0, <1>1, <2>1 DEF Emptied
    <2>6. Newest' = Newest /\ Flight' = Flight /\ pipe'[first] = pipe[first]
      BY <1>1, <1>2, <2>1, <2>2 DEF Newest, Flight, RowsIn
    <2>7. Chained => Chained'
      BY <1>1, <2>6 DEF Chained, InOrder, Followed, Rising, RowsIn
    <2>8. Carried'
      BY <1>3, <2>1, <2>6, <2>7 DEF RemoteInv, Carried
    <2>9. R!LossMarked'
      BY <1>1, <2>1 DEF RemoteInv, R!LossMarked
    <2> QED BY <2>3, <2>4, <2>5, <2>8, <2>9 DEF RemoteInv
  <1>4. CASE first = None
    <2>1. /\ first' = p /\ inTask' \in {"connect", "refused"} /\ attached' = attached
          /\ inTask = "off" /\ first' # None
      BY <1>0, <1>4 DEF R!Subscribe, Unasked
    <2>2. got'[p] = <<>>
      BY <1>0, <1>1 DEF Unasked
    <2>3. RemoteShape'
      BY <1>0, <1>1, <1>2, <2>1 DEF RemoteShape
    <2>4. Unasked'
      BY <1>0, <1>1, <1>2, <2>1 DEF Unasked
    <2>5. Emptied'
      BY <1>0, <1>1, <2>1 DEF Emptied
    <2>6. Carried'
      BY <2>1, <2>2 DEF Carried, Newest
    <2>7. R!LossMarked'
      <3>1. Len(got'[p]) = 0
        BY <2>2, EmptySeq
      <3> QED BY <2>1, <3>1 DEF R!LossMarked
    <2> QED BY <2>3, <2>4, <2>5, <2>6, <2>7 DEF RemoteInv
  <1> QED BY <1>3, <1>4

\* The finally of the handler, after which the task is over.
LEMMA FinallyKeeps ==
  ASSUME RemoteInv, first # None, NEW how \in {"died", "ended"}, R!InFinally(how),
         UNCHANGED <<made, skips, first, attached, got>>
  PROVE  RemoteInv'
  <1>0. RemoteShape /\ Unasked /\ first \in Pipes
    BY DEF RemoteInv, RemoteShape
  <1>1. /\ inTask' = how /\ linkOpen' = FALSE /\ link' = <<>> /\ wire' = <<>> /\ up' = FALSE
        /\ pipe' = R!ClosedPipes(first)
    BY DEF R!InFinally
  <1>2. /\ DOMAIN pipe' = Pipes /\ pipe'[first] = "closed"
        /\ \A p \in Pipes : pipe'[p] # pipe[p] => pipe'[p] = "closed"
    BY <1>0, <1>1 DEF R!ClosedPipes
  <1>3. RemoteShape'
    BY <1>0, <1>1, <1>2, RowsOfNone DEF RemoteShape
  <1>4. Unasked'
    BY <1>0, <1>1, <1>2 DEF Unasked
  <1>5. Emptied'
    BY <1>1 DEF Emptied
  <1>6. Carried'
    BY <1>1, <1>2 DEF Carried
  <1>7. R!LossMarked'
    BY DEF RemoteInv, R!LossMarked
  <1> QED BY <1>3, <1>4, <1>5, <1>6, <1>7 DEF RemoteInv

\* A task that runs belongs to a first pipe.
LEMMA RunningAsked ==
  ASSUME RemoteInv, inTask # "off" PROVE first # None /\ first \in Pipes
  BY DEF RemoteInv, Unasked, RemoteShape

\* A new connection: nothing is in flight, and the interval is closed.
LEMMA InConnectKeeps == ASSUME RemoteInv, R!InConnect PROVE RemoteInv'
  <1> USE DEF R!source, R!conn, R!subs
  <1>0. RemoteShape /\ Unasked /\ Emptied /\ Carried /\ inTask = "connect"
    BY DEF RemoteInv, R!InConnect
  <1>1. UNCHANGED <<made, skips, first, attached, pipe, got>> /\ first # None
    BY <1>0, RunningAsked DEF R!InConnect
  <1>2. Newest' = Newest /\ R!LossMarked'
    BY <1>1 DEF Newest, RemoteInv, R!LossMarked
  <1>3. CASE inTask' = "up" /\ up' = TRUE /\ wire' = <<>> /\ link' = <<>> /\ linkOpen' = TRUE
    <2>1. RemoteShape'
      BY <1>0, <1>1, <1>3, RowsOfNone DEF RemoteShape
    <2>2. Unasked' /\ Emptied'
      BY <1>0, <1>1, <1>3 DEF Unasked, Emptied
    <2>3. RowsIn(link)' = {} /\ RowsIn(wire)' = {} /\ Rising(link)' /\ Rising(wire)'
      BY <1>3, RowsOfNone DEF RowsIn, Rising
    <2>4. pipe[first] = "open" => Newest = {}
      BY <1>0, <1>1 DEF Carried
    <2>5. Newest = {} => Chained'
      BY <1>2, <2>3 DEF Chained, InOrder, Flight
    <2>6. Carried'
      BY <1>1, <1>3, <2>4, <2>5 DEF Carried
    <2> QED BY <1>2, <2>1, <2>2, <2>6 DEF RemoteInv
  <1>4. CASE inTask' = "sleep" /\ UNCHANGED <<wire, up, link, linkOpen>>
    <2>1. RemoteShape' /\ Unasked' /\ Emptied'
      BY <1>0, <1>1, <1>4 DEF RemoteShape, Unasked, Emptied
    <2>2. Carried'
      BY <1>0, <1>1, <1>2, <1>4 DEF Carried
    <2> QED BY <1>2, <2>1, <2>2 DEF RemoteInv
  <1> QED BY <1>3, <1>4 DEF R!InConnect

LEMMA InRetryKeeps == ASSUME RemoteInv, R!InRetry PROVE RemoteInv'
  <1> USE DEF R!source, R!conn, R!subs
  <1>0. RemoteShape /\ Unasked /\ Emptied /\ Carried /\ first # None
    BY RunningAsked DEF RemoteInv, R!InRetry
  <1>1. /\ inTask = "sleep" /\ inTask' = "connect"
        /\ UNCHANGED <<made, skips, wire, up, link, linkOpen, first, attached, pipe, got>>
    BY DEF R!InRetry
  <1>2. Newest' = Newest /\ R!LossMarked'
    BY <1>1 DEF Newest, RemoteInv, R!LossMarked
  <1>3. RemoteShape' /\ Unasked' /\ Emptied'
    BY <1>0, <1>1 DEF RemoteShape, Unasked, Emptied
  <1>4. Carried'
    BY <1>0, <1>1, <1>2 DEF Carried
  <1> QED BY <1>2, <1>3, <1>4 DEF RemoteInv

\* Two rows that follow each other in a pipe and are not neighbours have a break
\* of the producer between them.
Near(a, b) ==
    a # R!Break /\ b # R!Break => b = a + 1 \/ \E k \in skips : k \in a..(b - 1)

\* LossMarked is Near for every two items that follow each other.
LEMMA MarkedPairs ==
  first # None =>
      (R!LossMarked <=> \A i \in 1..(Len(got[first]) - 1) : Near(got[first][i], got[first][i + 1]))
  BY DEF R!LossMarked, Near

\* It is kept by an item that is near the last one.
LEMMA NearAppend ==
  ASSUME NEW s \in Seq(Nat), NEW x \in Nat, NEW t, t = Append(s, x),
         \A i \in 1..(Len(s) - 1) : Near(s[i], s[i + 1]),
         s # <<>> => Near(s[Len(s)], x)
  PROVE  \A i \in 1..(Len(t) - 1) : Near(t[i], t[i + 1])
  <1>1. PICK n \in Nat : n = Len(s)
    OBVIOUS
  <1>2. Len(t) = n + 1 /\ (\A i \in 1..n : t[i] = s[i]) /\ t[n + 1] = x
    BY <1>1, AppendProperties
  <1>3. ASSUME NEW i \in 1..n PROVE Near(t[i], t[i + 1])
    <2>1. CASE i = n
      <3>1. s # <<>>
        BY <1>1, <2>1, EmptySeq
      <3> QED BY <1>1, <1>2, <2>1, <3>1
    <2>2. CASE i # n
      <3>1. i \in 1..(n - 1) /\ i + 1 \in 1..n
        BY <2>2
      <3> QED BY <1>1, <1>2, <3>1
    <2> QED BY <2>1, <2>2
  <1>4. (n + 1) - 1 = n
    OBVIOUS
  <1> QED BY <1>2, <1>3, <1>4

\* An item that goes through the first pipe.
LEMMA FirstCarries ==
  ASSUME RemoteInv, first # None, first' = first, skips' = skips, NEW x \in Nat,
         got'[first] = Append(got[first], x),
         \A a \in Newest : Near(a, x)
  PROVE  R!LossMarked' /\ Newest' = {x} \ {R!Break}
  <1>1. PICK s \in Seq(Nat) : s = got[first]
    BY DEF RemoteInv, RemoteShape
  <1>2. PICK t : t = Append(s, x)
    OBVIOUS
  <1>3. \A i \in 1..(Len(s) - 1) : Near(s[i], s[i + 1])
    BY <1>1, MarkedPairs DEF RemoteInv
  <1>4. s # <<>> => Near(s[Len(s)], x)
    <2>1. CASE s # <<>> /\ s[Len(s)] # R!Break
      BY <1>1, <2>1 DEF Newest
    <2>2. CASE s # <<>> /\ s[Len(s)] = R!Break
      BY <2>2 DEF Near
    <2> QED BY <2>1, <2>2
  <1>5. \A i \in 1..(Len(t) - 1) : Near(t[i], t[i + 1])
    BY <1>2, <1>3, <1>4, NearAppend
  <1>6. got'[first'] = t /\ first' # None
    BY <1>1, <1>2
  <1>7. R!LossMarked'
    <2>1. \A a, b : Near(a, b)' <=> Near(a, b)
      BY DEF Near
    <2>2. \A i \in 1..(Len(t) - 1) : Near(t[i], t[i + 1])'
      BY <1>5, <2>1
    <2> QED BY <1>6, <2>2 DEF R!LossMarked, Near
  <1>8. t # <<>> /\ t[Len(t)] = x
    BY <1>2, RowsOfAppend
  <1> QED BY <1>6, <1>7, <1>8 DEF Newest

\* A received row goes through the first pipe.
LEMMA InReadRow ==
  ASSUME RemoteInv, first # None, inTask = "up", link # <<>>, Head(link) # R!Break,
         pipe[first] = "open", R!Deliver(Head(link)), link' = Tail(link),
         UNCHANGED <<made, skips, wire, up, linkOpen, inTask, first, attached, pipe>>
  PROVE  RemoteInv'
  <1>0. RemoteShape /\ Unasked /\ Emptied /\ Chained /\ first \in Pipes
    BY DEF RemoteInv, Carried, RemoteShape
  <1>1. link \in Seq(Nat)
    BY <1>0 DEF RemoteShape
  <1>2. PICK x, l : x = Head(link) /\ l = Tail(link)
    OBVIOUS
  <1>3. /\ x \in Nat /\ x # R!Break /\ l \in Seq(Nat)
        /\ RowsIn(link) = RowsIn(l) \cup ({x} \ {R!Break})
        /\ Rising(link) => Rising(l) /\ (x # R!Break => \A b \in RowsIn(l) : x < b)
    BY <1>1, <1>2, RowsOfTail
  <1>4. /\ got' \in [Pipes -> Seq(Nat)] /\ got'[first] = Append(got[first], x)
        /\ \A p \in Pipes : p # first /\ p \notin attached => got'[p] = got[p]
    <2>1. got' = [p \in Pipes |-> IF p = first \/ p \in attached THEN Append(got[p], x) ELSE got[p]]
      BY <1>2 DEF R!Deliver
    <2>2. \A p \in Pipes : got[p] \in Seq(Nat) /\ Append(got[p], x) \in Seq(Nat)
      BY <1>0, <1>3, RowsOfAppend DEF RemoteShape
    <2> QED BY <1>0, <2>1, <2>2
  <1>5. link' = l
    BY <1>2
  <1>6. RowsIn(link)' = RowsIn(l) /\ (Rising(l) => Rising(link)') /\ RowsIn(wire)' = RowsIn(wire)
        /\ (Rising(wire) => Rising(wire)')
    BY <1>5 DEF RowsIn, Rising
  <1>7. /\ x \in Flight /\ x \in RowsIn(link) /\ Flight = Flight' \cup {x} /\ Flight \subseteq Nat
        /\ Newest \subseteq Nat
    <2>1. x \in RowsIn(link) /\ RowsIn(link) = RowsIn(l) \cup {x}
      BY <1>3
    <2>2. Flight' = RowsIn(l) \cup RowsIn(wire)
      BY <1>6 DEF Flight
    <2>3. Flight = RowsIn(link) \cup RowsIn(wire)
      BY DEF Flight
    <2>4. Flight \subseteq Nat
      BY <1>0, FlightRows
    <2>5. Newest \subseteq Nat
      BY NewestRow
    <2> QED BY <2>1, <2>2, <2>3, <2>4, <2>5
  <1>8. \A b \in Flight' : x < b
    BY <1>0, <1>3, <1>6, <1>7 DEF Chained, InOrder, Flight
  <1>9. ASSUME NEW a \in Newest PROVE Near(a, x)
    <2>1. a \in Nat /\ a < x /\ Followed(a)
      BY <1>0, <1>7 DEF Chained
    <2>2. CASE a \in skips
      <3>1. a \in a..(x - 1)
        BY <1>3, <2>1
      <3> QED BY <2>2, <3>1 DEF Near
    <2>3. CASE a + 1 \in Flight
      <3>1. a + 1 = x \/ x < a + 1
        BY <1>7, <1>8, <2>3
      <3>2. x = a + 1
        BY <1>3, <2>1, <3>1
      <3> QED BY <3>2 DEF Near
    <2>4. CASE \A b \in Flight : b <= a
      BY <1>3, <1>7, <2>1, <2>4
    <2> QED BY <2>1, <2>2, <2>3, <2>4 DEF Followed
  <1>10. R!LossMarked' /\ Newest' = {x}
    <2>1. R!LossMarked' /\ Newest' = {x} \ {R!Break}
      BY <1>3, <1>4, <1>9, FirstCarries
    <2> QED BY <1>3, <2>1
  <1>11. RemoteShape'
    BY <1>0, <1>3, <1>4, <1>5 DEF RemoteShape
  <1>12. Unasked' /\ Emptied'
    BY <1>0, <1>4 DEF Unasked, Emptied
  <1>13. Chained'
    <2>1. InOrder'
      BY <1>0, <1>3, <1>6, <1>7 DEF Chained, InOrder
    <2>2. x <= made'
      BY <1>0, <1>7 DEF Chained, InOrder
    <2>3. ASSUME NEW a \in Flight PROVE Followed(a)'
      <3>1. a \in Nat /\ x <= a /\ Followed(a)
        BY <1>0, <1>3, <1>7, <1>8, <2>3 DEF Chained
      <3>2. a + 1 # x
        BY <1>3, <3>1
      <3> QED BY <1>7, <3>1, <3>2 DEF Followed
    <2> QED BY <1>7, <1>8, <1>10, <2>1, <2>2, <2>3 DEF Chained
  <1>14. Carried'
    BY <1>13 DEF Carried
  <1> QED BY <1>10, <1>11, <1>12, <1>14 DEF RemoteInv

\* A break of the producer is not passed on, and the rows of a pipe that is not
\* open are dropped.
LEMMA InReadDropped ==
  ASSUME RemoteInv, first # None, inTask = "up", link # <<>>, Head(link) = R!Break \/ pipe[first] # "open",
         link' = Tail(link),
         UNCHANGED <<made, skips, wire, up, linkOpen, inTask, first, attached, pipe, got>>
  PROVE  RemoteInv'
  <1>0. RemoteShape /\ Unasked /\ Emptied
    BY DEF RemoteInv
  <1>1. PICK x, l : x = Head(link) /\ l = Tail(link)
    OBVIOUS
  <1>2. /\ x \in Nat /\ l \in Seq(Nat) /\ RowsIn(link) = RowsIn(l) \cup ({x} \ {R!Break})
        /\ Rising(link) => Rising(l)
    BY <1>0, <1>1, RowsOfTail DEF RemoteShape
  <1>3. link' = l
    BY <1>1
  <1>4. RemoteShape' /\ Unasked' /\ Emptied'
    BY <1>0, <1>2, <1>3 DEF RemoteShape, Unasked, Emptied
  <1>5. Newest' = Newest /\ R!LossMarked'
    BY DEF Newest, RemoteInv, R!LossMarked
  <1>6. ASSUME x = R!Break, Chained PROVE Chained'
    <2>1. RowsIn(link) = RowsIn(l)
      BY <1>2, <1>6
    <2>2. RowsIn(link)' = RowsIn(link) /\ RowsIn(wire)' = RowsIn(wire)
          /\ Rising(link)' /\ (Rising(wire) => Rising(wire)')
      BY <1>2, <1>3, <1>6, <2>1 DEF Chained, InOrder, RowsIn, Rising
    <2>3. Flight' = Flight
      BY <2>2 DEF Flight
    <2>4. InOrder'
      BY <1>6, <2>2, <2>3 DEF Chained, InOrder
    <2>5. \A a : Followed(a)' <=> Followed(a)
      BY <2>3 DEF Followed
    <2> QED BY <1>5, <1>6, <2>3, <2>4, <2>5 DEF Chained
  <1>7. Carried'
    BY <1>1, <1>6 DEF RemoteInv, Carried
  <1> QED BY <1>4, <1>5, <1>7 DEF RemoteInv

LEMMA InReadKeeps == ASSUME RemoteInv, R!InRead PROVE RemoteInv'
  <1> USE DEF R!source
  <1>1. first # None /\ first \in Pipes
    BY RunningAsked DEF R!InRead
  <1>2. /\ inTask = "up" /\ link # <<>>
        /\ UNCHANGED <<made, skips, first, attached>>
    BY DEF R!InRead
  <1>3. CASE /\ Head(link) # R!Break /\ pipe[first] = "open" /\ R!Deliver(Head(link))
             /\ link' = Tail(link) /\ UNCHANGED <<wire, up, linkOpen, inTask, pipe>>
    BY <1>1, <1>2, <1>3, InReadRow
  <1>4. CASE /\ Head(link) = R!Break \/ pipe[first] # "open"
             /\ link' = Tail(link) /\ UNCHANGED <<wire, up, linkOpen, inTask, pipe, got>>
    BY <1>1, <1>2, <1>4, InReadDropped
  <1>5. CASE R!InFinally("died") /\ UNCHANGED got
    BY <1>1, <1>2, <1>5, FinallyKeeps
  <1> QED BY <1>3, <1>4, <1>5 DEF R!InRead

\* The connection is lost: the interval is closed before the next one.
LEMMA InEndKeeps == ASSUME RemoteInv, R!InEnd PROVE RemoteInv'
  <1> USE DEF R!source, R!conn
  <1>0. RemoteShape /\ Unasked /\ Emptied
    BY DEF RemoteInv
  <1>1. first # None /\ first \in Pipes
    BY RunningAsked DEF R!InEnd
  <1>2. /\ inTask = "up" /\ link = <<>> /\ ~linkOpen
        /\ UNCHANGED <<made, skips, first, attached>>
    BY DEF R!InEnd
  <1>3. CASE /\ got' = [got EXCEPT ![first] = Append(@, R!Break)] /\ inTask' = "sleep"
             /\ UNCHANGED <<wire, up, link, linkOpen, pipe>>
    <2>1. PICK b \in Nat : b = R!Break
      BY DEF R!Break
    <2>2. got[first] \in Seq(Nat) /\ Append(got[first], b) \in Seq(Nat)
      BY <1>0, <1>1, <2>1, RowsOfAppend DEF RemoteShape
    <2>3. /\ got' \in [Pipes -> Seq(Nat)] /\ got'[first] = Append(got[first], b)
          /\ \A p \in Pipes : p # first => got'[p] = got[p]
      BY <1>0, <1>1, <1>3, <2>1, <2>2 DEF RemoteShape
    <2>4. R!LossMarked' /\ Newest' = {b} \ {R!Break}
      <3>1. \A a \in Newest : Near(a, b)
        BY <2>1 DEF Near
      <3> QED BY <1>1, <1>2, <2>1, <2>3, <3>1, FirstCarries
    <2>5. RemoteShape'
      BY <1>0, <1>2, <1>3, <2>3 DEF RemoteShape
    <2>6. Unasked' /\ Emptied'
      BY <1>0, <1>1, <1>2, <1>3, <2>3 DEF Unasked, Emptied
    <2>7. Carried'
      <3>1. Newest' = {}
        BY <2>1, <2>4
      <3> QED BY <1>3, <3>1 DEF Carried
    <2> QED BY <2>4, <2>5, <2>6, <2>7 DEF RemoteInv
  <1>4. CASE R!InFinally("died") /\ UNCHANGED got
    BY <1>1, <1>2, <1>4, FinallyKeeps
  <1> QED BY <1>3, <1>4 DEF R!InEnd

-----------------------------------------------------------------------------
LEMMA RemoteInit == ASSUME R!Init, None \notin Pipes PROVE RemoteInv
  <1>1. RemoteShape /\ Emptied
    BY RowsOfNone DEF R!Init, RemoteShape, Emptied
  <1>2. Unasked
    BY DEF R!Init, Unasked
  <1>3. Carried /\ R!LossMarked
    BY DEF R!Init, Carried, R!LossMarked
  <1> QED BY <1>1, <1>2, <1>3 DEF RemoteInv

LEMMA RemoteNext == ASSUME RemoteInv, None \notin Pipes, [R!Next]_R!vars PROVE RemoteInv'
  <1>0. DOMAIN pipe = Pipes
    BY DEF RemoteInv, RemoteShape
  <1>1. CASE UNCHANGED R!vars
    <2>1. UNCHANGED streams /\ UNCHANGED <<pipe, attached>>
      BY <1>1 DEF streams, R!vars, R!inputs, R!source, R!conn, R!subs
    <2> QED BY <1>0, <2>1, ElsewhereKeeps DEF PipesAge
  <1>2. CASE R!Network \/ R!LiveReader
    BY <1>2, MakeKeeps, SkipKeeps, DropKeeps, LiveReadKeeps, LiveEndKeeps DEF R!Network, R!LiveReader
  <1>3. CASE R!HandleRemoteInput
    BY <1>3, InConnectKeeps, InReadKeeps, InEndKeeps, InRetryKeeps DEF R!HandleRemoteInput
  <1>4. CASE R!Produce \/ R!HandleRemoteOutput \/ R!SendData \/ R!SendFail \/ R!SendEmpty
    <2>1. UNCHANGED R!inputs
      BY <1>4 DEF R!Produce, R!HandleRemoteOutput, R!OutConnect, R!OutRead, R!OutPut, R!OutClose,
                  R!SendData, R!Send, R!SendEnd, R!SendFail, R!SendEmpty
    <2>2. UNCHANGED streams /\ UNCHANGED <<pipe, attached>>
      BY <2>1 DEF streams, R!inputs, R!source, R!conn, R!subs
    <2> QED BY <1>0, <2>2, ElsewhereKeeps DEF PipesAge
  <1>5. CASE R!StopWorkers
    <2>1. /\ UNCHANGED streams /\ pipe' = [p \in Pipes |-> "closed"] /\ attached' = {}
      BY <1>5 DEF R!StopWorkers, streams, R!source, R!conn
    <2> QED BY <2>1, ElsewhereKeeps DEF PipesAge
  <1>6. CASE R!CancelOut
    <2>1. UNCHANGED streams /\ UNCHANGED <<pipe, attached>>
      BY <1>6 DEF R!CancelOut, streams, R!inputs, R!source, R!conn, R!subs
    <2> QED BY <1>0, <2>1, ElsewhereKeeps DEF PipesAge
  <1>7. CASE R!CancelIn
    <2>1. UNCHANGED <<made, skips, first, attached, got>>
      BY <1>7 DEF R!CancelIn, R!source
    <2>2. CASE R!InRunning /\ R!InFinally("ended")
      <3>1. first # None
        BY <2>2, RunningAsked DEF R!InRunning
      <3> QED BY <2>1, <2>2, <3>1, FinallyKeeps
    <2>3. CASE UNCHANGED <<wire, up, link, linkOpen, inTask, pipe>>
      <3>1. UNCHANGED streams
        BY <2>1, <2>3 DEF streams
      <3> QED BY <1>0, <2>1, <2>3, <3>1, ElsewhereKeeps DEF PipesAge
    <2> QED BY <1>7, <2>2, <2>3 DEF R!CancelIn, R!conn
  <1>8. ASSUME NEW p \in Pipes, R!Disconnect(p) PROVE RemoteInv'
    <2>1. /\ UNCHANGED streams /\ attached' = attached \ {p}
          /\ pipe' = [pipe EXCEPT ![p] = IF p = first THEN "closing" ELSE "closed"]
      BY <1>8 DEF R!Disconnect, streams, R!source, R!conn
    <2> QED BY <1>0, <2>1, ElsewhereKeeps DEF PipesAge
  <1>9. ASSUME NEW p \in Pipes, R!Closed(p) PROVE RemoteInv'
    <2>1. UNCHANGED streams /\ attached' = attached /\ pipe' = R!ClosedPipes(p)
      BY <1>9 DEF R!Closed, streams, R!source, R!conn
    <2> QED BY <1>0, <2>1, ElsewhereKeeps DEF PipesAge, R!ClosedPipes
  <1>10. ASSUME NEW p \in Pipes, R!Subscribe(p) PROVE RemoteInv'
    BY <1>10, SubscribeKeeps
  <1>11. CASE R!Stop
    BY <1>6, <1>7, <1>11 DEF R!Stop
  <1> QED BY <1>1, <1>2, <1>3, <1>4, <1>5, <1>8, <1>9, <1>10, <1>11 DEF R!Next

\* Rows that reach the first subscriber of a remote stream one after the other
\* are neighbours, or the producer had a break between them: whatever connections
\* are lost on the way, and however often, _handle_remote_input closes the
\* interval before it delivers the rows of the next connection.
THEOREM RemoteLossMarked == R!Spec => []LossMarked
  <1>1. None \notin Pipes
    BY RemoteConstants
  <1>2. R!Init => RemoteInv
    BY <1>1, RemoteInit
  <1>3. RemoteInv /\ [R!Next]_R!vars => RemoteInv'
    BY <1>1, RemoteNext
  <1>4. RemoteInv => LossMarked
    BY DEF RemoteInv, R!LossMarked, R!Break, LossMarked, Break
  <1> QED BY <1>2, <1>3, <1>4, PTL DEF R!Spec

=============================================================================
