--------------------------- MODULE ThreadPool_proofs ---------------------------
(***************************************************************************)
(* The thread pool for every number of workers, tasks and threads that     *)
(* stop it.  The status follows the counter, and the counter the workers;  *)
(* what makes "down" conclusive is that no worker is still to register     *)
(* itself when the counter comes back to 0, which holds as long as nothing *)
(* sets ev_quit while the pool is starting.                                *)
(* An instrument interface, whose tasks use the pool themselves, keeps all *)
(* of it (InsService).                                                     *)
(***************************************************************************)
EXTENDS InsService, FiniteSetTheorems, TLAPS

WorkerPlaces == {"off", "new", "idle", "getting", "executing"}
CallerPlaces == {"idle", "startall", "starting", "stopall", "stopping"}
WorkerType == [at : WorkerPlaces, task : PoolTasks \cup {NoTask}]
CallerType == [at : CallerPlaces, ret : {"none", "up", "down", "ignored"}]
RegSet == {w \in Workers : Registered(w)}
AllOff == \A w \in Workers : worker[w].at = "off"
NoNew == \A w \in Workers : worker[w].at # "new"

PoolTypes ==
    /\ poolStatus \in {"down", "start", "up", "stop"} /\ poolRunning \in Nat
    /\ poolQuit \in BOOLEAN /\ poolCond \in Seq(Callers) /\ poolQueue \in Seq(PoolTasks)
    /\ worker \in [Workers -> WorkerType] /\ caller \in [Callers -> CallerType]
    /\ taskAt \in [PoolTasks -> {"new", "queued", "running", "done"}]
    /\ starts \in 0..MaxStarts /\ interrupted \in BOOLEAN

\* The status and the workers.
StatusInv ==
    /\ poolRunning = Cardinality(RegSet)
    /\ interrupted => poolQuit
    /\ poolStatus = "down" /\ ~interrupted => AllOff
    /\ poolStatus = "start" /\ ~interrupted => ~poolQuit
    /\ poolStatus = "start" /\ ~poolQuit => \A w \in Workers : worker[w].at # "off"
    /\ poolStatus = "up" /\ ~poolQuit => \A w \in Workers : Registered(w)
    /\ poolStatus \in {"up", "stop"} => NoNew
    /\ poolStatus = "stop" => poolQuit

\* Only the owner starts the pool, and only a pool that is down; who stops it
\* has found it up, and nobody starts it meanwhile.
Stops(c) == caller[c].at = "stopping" \/ (caller[c].at = "idle" /\ caller[c].ret = "down")
CallerInv ==
    /\ \A c \in Others : /\ caller[c].at \notin {"startall", "starting"}
                         /\ caller[c].at # "idle" \/ caller[c].ret # "none" => starts = MaxStarts
    /\ caller[Owner].at = "startall" => caller[Owner].ret \in {"none", "down"}
    /\ (caller[Owner].at \in {"idle", "startall"} /\ caller[Owner].ret \in {"none", "down"})
            => poolStatus = "down" /\ AllOff
    /\ \A c \in Callers : Stops(c) => NoNew /\ (c # Owner => caller[Owner].at # "startall")
    /\ \A c \in Callers : caller[c].at = "stopping" /\ poolStatus = "down" => AllOff
    /\ \A c \in Callers : caller[c].at = "idle" /\ caller[c].ret = "down" => AllOff

PoolInv == PoolTypes /\ StatusInv /\ CallerInv
-----------------------------------------------------------------------------
(* Steps of a thread.                                                       *)

\* A caller goes to another place of its call, or returns from it.
LEMMA CallerMoves ==
    ASSUME caller \in [Callers -> CallerType], NEW c \in Callers,
           NEW a \in CallerPlaces, NEW how \in {"none", "up", "down", "ignored"}
    PROVE  /\ caller' = [caller EXCEPT ![c].at = a] =>
                /\ caller' \in [Callers -> CallerType]
                /\ \A v \in Callers : /\ caller'[v].at = IF v = c THEN a ELSE caller[v].at
                                      /\ caller'[v].ret = caller[v].ret
           /\ caller' = [caller EXCEPT ![c] = [at |-> a, ret |-> how]] =>
                /\ caller' \in [Callers -> CallerType]
                /\ \A v \in Callers : /\ caller'[v].at = IF v = c THEN a ELSE caller[v].at
                                      /\ caller'[v].ret = IF v = c THEN how ELSE caller[v].ret
<1>1. ASSUME caller' = [caller EXCEPT ![c].at = a]
      PROVE  /\ caller' \in [Callers -> CallerType]
             /\ \A v \in Callers : /\ caller'[v].at = IF v = c THEN a ELSE caller[v].at
                                   /\ caller'[v].ret = caller[v].ret
  <2>1. PICK r : r = caller[c]
    OBVIOUS
  <2>2. PICK q : q = [r EXCEPT !.at = a]
    OBVIOUS
  <2>3. q \in CallerType /\ q.at = a /\ q.ret = r.ret
    BY <2>1, <2>2 DEF CallerType
  <2>4. caller' = [caller EXCEPT ![c] = q]
    BY <1>1, <2>1, <2>2
  <2> QED BY <2>1, <2>3, <2>4
<1>2. ASSUME caller' = [caller EXCEPT ![c] = [at |-> a, ret |-> how]]
      PROVE  /\ caller' \in [Callers -> CallerType]
             /\ \A v \in Callers : /\ caller'[v].at = IF v = c THEN a ELSE caller[v].at
                                   /\ caller'[v].ret = IF v = c THEN how ELSE caller[v].ret
  <2>1. PICK q : q = [at |-> a, ret |-> how]
    OBVIOUS
  <2>2. q \in CallerType /\ q.at = a /\ q.ret = how
    BY <2>1 DEF CallerType
  <2> QED BY <1>2, <2>1, <2>2
<1> QED BY <1>1, <1>2

\* A worker goes to another place of its loop, or takes or ends a task.
LEMMA WorkerMoves ==
    ASSUME worker \in [Workers -> WorkerType], NEW w \in Workers,
           NEW a \in WorkerPlaces, NEW t \in PoolTasks \cup {NoTask},
           \/ worker' = [worker EXCEPT ![w].at = a]
           \/ worker' = [worker EXCEPT ![w] = [at |-> a, task |-> t]]
    PROVE  /\ worker' \in [Workers -> WorkerType]
           /\ \A v \in Workers : worker'[v].at = IF v = w THEN a ELSE worker[v].at
<1>1. CASE worker' = [worker EXCEPT ![w].at = a]
  <2>1. PICK r : r = worker[w]
    OBVIOUS
  <2>2. PICK q : q = [r EXCEPT !.at = a]
    OBVIOUS
  <2>3. q \in WorkerType /\ q.at = a
    BY <2>1, <2>2 DEF WorkerType
  <2>4. worker' = [worker EXCEPT ![w] = q]
    BY <1>1, <2>1, <2>2
  <2> QED BY <2>1, <2>3, <2>4
<1>2. CASE worker' = [worker EXCEPT ![w] = [at |-> a, task |-> t]]
  <2>1. PICK q : q = [at |-> a, task |-> t]
    OBVIOUS
  <2>2. q \in WorkerType /\ q.at = a
    BY <2>1 DEF WorkerType
  <2> QED BY <1>2, <2>1, <2>2
<1> QED BY <1>1, <1>2

\* The counter and the set of registered workers.
LEMMA RegSetFinite ==
    /\ IsFiniteSet(Workers) /\ NumThreads \in Nat /\ NumThreads # 0
    /\ IsFiniteSet(RegSet) /\ Cardinality(RegSet) \in 0..NumThreads
    /\ Cardinality(RegSet) = NumThreads => RegSet = Workers
    /\ Cardinality(RegSet) = 0 => RegSet = {}
<1>1. IsFiniteSet(Workers) /\ Workers # {}
  BY PoolAssumption
<1>2. RegSet \in SUBSET Workers
  BY DEF RegSet
<1>3. IsFiniteSet(RegSet) /\ Cardinality(RegSet) <= Cardinality(Workers)
      /\ (Cardinality(Workers) = Cardinality(RegSet) => Workers = RegSet)
  BY <1>1, <1>2, FS_Subset
<1>4. Cardinality(RegSet) \in Nat /\ Cardinality(Workers) \in Nat
  BY <1>1, <1>3, FS_CardinalityType
<1>5. Cardinality(Workers) # 0 /\ (Cardinality(RegSet) = 0 => RegSet = {})
  BY <1>1, <1>3, FS_EmptySet
<1> QED BY <1>1, <1>3, <1>4, <1>5 DEF NumThreads

\* wait() and notify() keep a list of callers.
LEMMA CondTypes ==
    ASSUME poolCond \in Seq(Callers), NEW c \in Callers
    PROVE  /\ Append(poolCond, c) \in Seq(Callers)
           /\ Notify => poolCond' \in Seq(Callers)
<1>1. poolCond # <<>> => Tail(poolCond) \in Seq(Callers)
  OBVIOUS
<1>2. <<>> \in Seq(Callers)
  OBVIOUS
<1> QED BY <1>1, <1>2 DEF Notify
-----------------------------------------------------------------------------
(* Calls.                                                                   *)

\* The pool begins down.
LEMMA PoolInitInv == PoolInit => PoolInv
<1> SUFFICES ASSUME PoolInit PROVE PoolInv
  OBVIOUS
<1>1. MaxStarts \in Nat /\ Owner \in Callers
  BY PoolAssumption DEF Callers
<1>2. PoolTypes
  <2>1. worker \in [Workers -> WorkerType]
    BY DEF PoolInit, WorkerType, WorkerPlaces
  <2>2. caller \in [Callers -> CallerType]
    BY DEF PoolInit, CallerType, CallerPlaces
  <2>3. <<>> \in Seq(Callers) /\ <<>> \in Seq(PoolTasks)
    OBVIOUS
  <2>4. taskAt \in [PoolTasks -> {"new", "queued", "running", "done"}] /\ starts \in 0..MaxStarts
    BY <1>1 DEF PoolInit
  <2> QED BY <2>1, <2>2, <2>3, <2>4 DEF PoolInit, PoolTypes
<1>3. AllOff /\ NoNew /\ RegSet = {}
  BY DEF PoolInit, AllOff, NoNew, RegSet, Registered
<1>4. \A c \in Callers : caller[c].at = "idle" /\ caller[c].ret = "none"
  BY DEF PoolInit
<1>5. StatusInv
  BY <1>3, FS_EmptySet DEF PoolInit, StatusInv
<1>6. CallerInv
  BY <1>1, <1>3, <1>4 DEF PoolInit, CallerInv, Stops, Callers
<1> QED BY <1>2, <1>5, <1>6 DEF PoolInv

\* A step that changes nothing but where a caller is and who is asleep.
LEMMA CallerOnly ==
    ASSUME PoolInv, caller' \in [Callers -> CallerType], poolCond' \in Seq(Callers), CallerInv',
           UNCHANGED <<poolStatus, poolRunning, poolQuit, poolQueue, worker, taskAt, starts, interrupted>>
    PROVE  PoolInv'
<1>1. PoolTypes'
  BY DEF PoolInv, PoolTypes
<1>2. RegSet' = RegSet
  BY DEF RegSet, Registered
<1>3. StatusInv'
  BY <1>2 DEF PoolInv, StatusInv, AllOff, NoNew, Registered
<1> QED BY <1>1, <1>3 DEF PoolInv

\* A caller waits, or its call is refused.
LEMMA WaitsInv ==
    ASSUME PoolInv, NEW c \in Callers,
           StartRefused(c) \/ StartLater(c) \/ Starting(c) \/ StopRefused(c) \/ StopLater(c)
    PROVE  PoolInv'
<1>1. UNCHANGED <<poolStatus, poolRunning, poolQuit, poolQueue, worker, taskAt, starts, interrupted>>
  BY DEF StartRefused, StartLater, Starting, StopRefused, StopLater
<1>2. Owner \in Callers /\ Owner \notin Others /\ Callers = Others \cup {Owner}
  BY PoolAssumption DEF Callers
<1>3. CASE WaitAt(c, caller[c].at) /\ caller[c].at # "idle"
  <2>1. PICK a : a = caller[c].at
    OBVIOUS
  <2>2. a \in CallerPlaces /\ caller' = [caller EXCEPT ![c].at = a] /\ poolCond' = Append(poolCond, c)
    BY <1>3, <2>1 DEF WaitAt, PoolInv, PoolTypes, CallerType
  <2>3. /\ caller' \in [Callers -> CallerType]
        /\ \A v \in Callers : caller'[v].at = caller[v].at /\ caller'[v].ret = caller[v].ret
    <3>1. /\ caller' \in [Callers -> CallerType]
          /\ \A v \in Callers : /\ caller'[v].at = IF v = c THEN a ELSE caller[v].at
                                /\ caller'[v].ret = caller[v].ret
      BY <2>2, CallerMoves DEF PoolInv, PoolTypes
    <3> QED BY <2>1, <3>1
  <2>4. poolCond' \in Seq(Callers)
    BY <2>2, CondTypes DEF PoolInv, PoolTypes
  <2>5. CallerInv'
    BY <1>1, <1>2, <2>3 DEF PoolInv, CallerInv, Stops, AllOff, NoNew
  <2> QED BY <1>1, <2>3, <2>4, <2>5, CallerOnly
<1>4. CASE (Return(c, "up") \/ Return(c, "ignored")) /\ caller[c].at # "idle"
  <2>1. PICK how \in {"up", "ignored"} : Return(c, how) /\ caller[c].at # "idle"
    BY <1>4
  <2>2. /\ caller' \in [Callers -> CallerType] /\ poolCond' = poolCond
        /\ \A v \in Callers : /\ caller'[v].at = IF v = c THEN "idle" ELSE caller[v].at
                              /\ caller'[v].ret = IF v = c THEN how ELSE caller[v].ret
    <3>1. "idle" \in CallerPlaces /\ how \in {"none", "up", "down", "ignored"}
      BY <2>1 DEF CallerPlaces
    <3>2. caller' = [caller EXCEPT ![c] = [at |-> "idle", ret |-> how]] /\ poolCond' = poolCond
      BY <2>1 DEF Return
    <3> QED BY <3>1, <3>2, CallerMoves DEF PoolInv, PoolTypes
  <2>3. CallerInv'
    BY <1>1, <1>2, <2>1, <2>2 DEF PoolInv, CallerInv, Stops, AllOff, NoNew
  <2> QED BY <1>1, <2>2, <2>3, CallerOnly DEF PoolInv, PoolTypes
<1>5. CASE StartRefused(c) \/ StopRefused(c)
  BY <1>4, <1>5 DEF StartRefused, StopRefused
<1>6. CASE StartLater(c) \/ StopLater(c)
  BY <1>3, <1>6 DEF StartLater, StopLater
<1>7. CASE Starting(c)
  BY <1>3, <1>4, <1>7 DEF Starting
<1> QED BY <1>5, <1>6, <1>7

\* Stopping: who has stopped the pool returns when it is down.
LEMMA StoppingInv == ASSUME PoolInv, NEW c \in Callers, Stopping(c) PROVE PoolInv'
<1>1. UNCHANGED <<poolStatus, poolRunning, poolQuit, poolQueue, worker, taskAt, starts, interrupted>>
      /\ caller[c].at = "stopping"
  BY DEF Stopping
<1>2. Owner \in Callers /\ Owner \notin Others /\ Callers = Others \cup {Owner}
  BY PoolAssumption DEF Callers
<1>3. CASE WaitAt(c, "stopping")
  <2>1. "stopping" \in CallerPlaces /\ caller' = [caller EXCEPT ![c].at = "stopping"] /\ poolCond' = Append(poolCond, c)
    BY <1>3 DEF WaitAt, CallerPlaces
  <2>2. /\ caller' \in [Callers -> CallerType]
        /\ \A v \in Callers : caller'[v].at = caller[v].at /\ caller'[v].ret = caller[v].ret
    <3>1. /\ caller' \in [Callers -> CallerType]
          /\ \A v \in Callers : /\ caller'[v].at = IF v = c THEN "stopping" ELSE caller[v].at
                                /\ caller'[v].ret = caller[v].ret
      BY <2>1, CallerMoves DEF PoolInv, PoolTypes
    <3> QED BY <1>1, <3>1
  <2>3. poolCond' \in Seq(Callers)
    BY <2>1, CondTypes DEF PoolInv, PoolTypes
  <2>4. CallerInv'
    BY <1>1, <1>2, <2>2 DEF PoolInv, CallerInv, Stops, AllOff, NoNew
  <2> QED BY <1>1, <2>2, <2>3, <2>4, CallerOnly
<1>4. CASE Return(c, "down") /\ poolStatus = "down"
  <2>1. AllOff
    BY <1>1, <1>4 DEF PoolInv, CallerInv
  <2>2. NoNew
    BY <2>1 DEF AllOff, NoNew
  <2>3. /\ caller' \in [Callers -> CallerType] /\ poolCond' = poolCond
        /\ \A v \in Callers : /\ caller'[v].at = IF v = c THEN "idle" ELSE caller[v].at
                              /\ caller'[v].ret = IF v = c THEN "down" ELSE caller[v].ret
    <3>1. "idle" \in CallerPlaces
      BY DEF CallerPlaces
    <3>2. caller' = [caller EXCEPT ![c] = [at |-> "idle", ret |-> "down"]] /\ poolCond' = poolCond
      BY <1>4 DEF Return
    <3> QED BY <3>1, <3>2, CallerMoves DEF PoolInv, PoolTypes
  <2>4. CallerInv'
    BY <1>1, <1>2, <1>4, <2>1, <2>2, <2>3 DEF PoolInv, CallerInv, Stops, AllOff, NoNew
  <2> QED BY <1>1, <2>3, <2>4, CallerOnly DEF PoolInv, PoolTypes
<1> QED BY <1>3, <1>4 DEF Stopping

\* A call of stopall begins.
LEMMA CallStopInv == ASSUME PoolInv, NEW c \in Callers, CallStop(c) PROVE PoolInv'
<1>1. UNCHANGED <<poolStatus, poolRunning, poolQuit, poolCond, poolQueue, worker, taskAt, starts, interrupted>>
      /\ caller[c].at = "idle" /\ (c # Owner => starts = MaxStarts) /\ (c = Owner => caller[c].ret \in {"up", "ignored"})
  BY DEF CallStop
<1>2. Owner \in Callers /\ Owner \notin Others /\ Callers = Others \cup {Owner}
  BY PoolAssumption DEF Callers
<1>3. /\ caller' \in [Callers -> CallerType]
      /\ \A v \in Callers : /\ caller'[v].at = IF v = c THEN "stopall" ELSE caller[v].at
                            /\ caller'[v].ret = caller[v].ret
  <2>1. "stopall" \in CallerPlaces /\ caller' = [caller EXCEPT ![c].at = "stopall"]
    BY DEF CallStop, CallerPlaces
  <2> QED BY <2>1, CallerMoves DEF PoolInv, PoolTypes
<1>4. CallerInv'
  BY <1>1, <1>2, <1>3 DEF PoolInv, CallerInv, Stops, AllOff, NoNew
<1> QED BY <1>1, <1>3, <1>4, CallerOnly DEF PoolInv, PoolTypes

\* The owner starts the pool only when it is down: ev_quit is cleared then.
LEMMA OwnerStartsInv == ASSUME PoolInv, OwnerStarts PROVE PoolInv'
<1>1. Owner \in Callers /\ Owner \notin Others /\ Callers = Others \cup {Owner} /\ MaxStarts \in Nat
  BY PoolAssumption DEF Callers
<1>2. /\ UNCHANGED <<poolStatus, poolRunning, poolCond, poolQueue, worker, taskAt, interrupted>>
      /\ caller[Owner].at = "idle" /\ caller[Owner].ret \in {"none", "down"} /\ ~interrupted
      /\ poolQuit' = FALSE /\ starts < MaxStarts /\ starts' = starts + 1
  BY DEF OwnerStarts
<1>3. poolStatus = "down" /\ AllOff
  BY <1>2 DEF PoolInv, CallerInv
<1>4. /\ caller' \in [Callers -> CallerType]
      /\ \A v \in Callers : /\ caller'[v].at = IF v = Owner THEN "startall" ELSE caller[v].at
                            /\ caller'[v].ret = caller[v].ret
  <2>1. PICK c \in Callers : c = Owner
    BY <1>1
  <2>2. "startall" \in CallerPlaces /\ caller' = [caller EXCEPT ![c].at = "startall"]
    BY <2>1 DEF OwnerStarts, CallerPlaces
  <2>3. /\ caller' \in [Callers -> CallerType]
        /\ \A v \in Callers : /\ caller'[v].at = IF v = c THEN "startall" ELSE caller[v].at
                              /\ caller'[v].ret = caller[v].ret
    BY <2>2, CallerMoves DEF PoolInv, PoolTypes
  <2> QED BY <2>1, <2>3
<1>5. starts' \in 0..MaxStarts
  BY <1>1, <1>2 DEF PoolInv, PoolTypes
<1>6. PoolTypes'
  BY <1>2, <1>4, <1>5 DEF PoolInv, PoolTypes
<1>7. StatusInv'
  <2>1. RegSet' = RegSet
    BY <1>2 DEF RegSet, Registered
  <2> QED BY <1>2, <1>3, <2>1 DEF PoolInv, StatusInv, AllOff, NoNew, Registered
<1>8. \A c \in Others : ~Stops(c) /\ caller[c].at = "idle" /\ caller[c].ret = "none"
  BY <1>2 DEF PoolInv, CallerInv, PoolTypes, Stops
<1>9. CallerInv'
  BY <1>1, <1>2, <1>3, <1>4, <1>8 DEF PoolInv, CallerInv, Stops, AllOff, NoNew
<1> QED BY <1>6, <1>7, <1>9 DEF PoolInv

\* The threads are created while none is left from before.
LEMMA StartThreadsInv == ASSUME PoolInv, NEW c \in Callers, StartThreads(c) PROVE PoolInv'
<1>1. Owner \in Callers /\ Owner \notin Others /\ Callers = Others \cup {Owner} /\ Workers # {}
  BY PoolAssumption DEF Callers
<1>2. /\ caller[c].at = "startall" /\ poolStatus = "down" /\ ~poolQuit
      /\ poolRunning' = 0 /\ poolStatus' = "start"
      /\ worker' = [w \in Workers |-> [at |-> "new", task |-> NoTask]]
      /\ WaitAt(c, "starting")
      /\ UNCHANGED <<poolQuit, poolQueue, taskAt, starts, interrupted>>
  BY DEF StartThreads
<1>3. c = Owner
  BY <1>1, <1>2 DEF PoolInv, CallerInv
<1>4. /\ caller' \in [Callers -> CallerType]
      /\ \A v \in Callers : /\ caller'[v].at = IF v = c THEN "starting" ELSE caller[v].at
                            /\ caller'[v].ret = caller[v].ret
  <2>1. "starting" \in CallerPlaces /\ caller' = [caller EXCEPT ![c].at = "starting"]
    BY <1>2 DEF WaitAt, CallerPlaces
  <2> QED BY <2>1, CallerMoves DEF PoolInv, PoolTypes
<1>5. poolCond' \in Seq(Callers)
  BY <1>2, CondTypes DEF WaitAt, PoolInv, PoolTypes
<1>6. worker' \in [Workers -> WorkerType] /\ \A w \in Workers : worker'[w].at = "new"
  BY <1>2 DEF WorkerType, WorkerPlaces
<1>7. PoolTypes'
  BY <1>2, <1>4, <1>5, <1>6 DEF PoolInv, PoolTypes
<1>8. StatusInv'
  <2>1. RegSet' = {}
    BY <1>6 DEF RegSet, Registered
  <2> QED BY <1>2, <1>6, <2>1, FS_EmptySet DEF PoolInv, StatusInv, AllOff, NoNew, Registered
<1>9. \A v \in Callers : ~Stops(v)
  BY <1>1, <1>2, <1>3 DEF PoolInv, CallerInv, Stops
<1>10. \A v \in Callers : ~Stops(v)'
  BY <1>3, <1>4, <1>9 DEF Stops
<1>11. CallerInv'
  BY <1>1, <1>2, <1>3, <1>4, <1>10 DEF PoolInv, CallerInv, Stops
<1> QED BY <1>7, <1>8, <1>11 DEF PoolInv

\* Stopping a pool that is up: every worker is registered.
LEMMA StopThreadsInv == ASSUME PoolInv, NEW c \in Callers, StopThreads(c) PROVE PoolInv'
<1>1. Owner \in Callers /\ Owner \notin Others /\ Callers = Others \cup {Owner}
  BY PoolAssumption DEF Callers
<1>2. /\ caller[c].at = "stopall" /\ poolStatus = "up" /\ poolStatus' = "stop" /\ poolQuit' = TRUE
      /\ WaitAt(c, "stopping")
      /\ UNCHANGED <<poolRunning, poolQueue, worker, taskAt, starts, interrupted>>
  BY DEF StopThreads
<1>3. /\ caller' \in [Callers -> CallerType]
      /\ \A v \in Callers : /\ caller'[v].at = IF v = c THEN "stopping" ELSE caller[v].at
                            /\ caller'[v].ret = caller[v].ret
  <2>1. "stopping" \in CallerPlaces /\ caller' = [caller EXCEPT ![c].at = "stopping"]
    BY <1>2 DEF WaitAt, CallerPlaces
  <2> QED BY <2>1, CallerMoves DEF PoolInv, PoolTypes
<1>4. poolCond' \in Seq(Callers)
  BY <1>2, CondTypes DEF WaitAt, PoolInv, PoolTypes
<1>5. PoolTypes'
  BY <1>2, <1>3, <1>4 DEF PoolInv, PoolTypes
<1>6. NoNew
  BY <1>2 DEF PoolInv, StatusInv
<1>7. StatusInv'
  <2>1. RegSet' = RegSet
    BY <1>2 DEF RegSet, Registered
  <2> QED BY <1>2, <1>6, <2>1 DEF PoolInv, StatusInv, AllOff, NoNew, Registered
<1>8. caller[Owner].at # "startall" /\ ~(caller[Owner].at = "idle" /\ caller[Owner].ret \in {"none", "down"})
  BY <1>2 DEF PoolInv, CallerInv
<1>9. CallerInv'
  BY <1>1, <1>2, <1>3, <1>6, <1>8 DEF PoolInv, CallerInv, Stops, AllOff, NoNew
<1> QED BY <1>5, <1>7, <1>9 DEF PoolInv
-----------------------------------------------------------------------------
(* Workers.                                                                 *)

\* register_up: the pool is up when the last worker has registered itself.
LEMMA RegisterUpInv == ASSUME PoolInv, NEW w \in Workers, RegisterUp(w) PROVE PoolInv'
<1>1. /\ worker[w].at = "new" /\ worker' = [worker EXCEPT ![w].at = "idle"]
      /\ poolRunning' = poolRunning + 1
      /\ poolStatus' = IF poolRunning' = NumThreads THEN "up" ELSE poolStatus
      /\ Notify
      /\ UNCHANGED <<poolQuit, poolQueue, caller, taskAt, starts, interrupted>>
  BY DEF RegisterUp
<1>2. /\ worker' \in [Workers -> WorkerType]
      /\ \A v \in Workers : worker'[v].at = IF v = w THEN "idle" ELSE worker[v].at
  <2>1. "idle" \in WorkerPlaces /\ NoTask \in PoolTasks \cup {NoTask}
    BY DEF WorkerPlaces
  <2> QED BY <1>1, <2>1, WorkerMoves DEF PoolInv, PoolTypes
<1>3. PoolTypes'
  <2>1. Owner \in Callers
    BY DEF Callers
  <2>2. poolCond' \in Seq(Callers)
    BY <1>1, <2>1, CondTypes DEF PoolInv, PoolTypes
  <2> QED BY <1>1, <1>2, <2>2 DEF PoolInv, PoolTypes
<1>4. RegSet' = RegSet \cup {w} /\ w \notin RegSet
  BY <1>1, <1>2 DEF RegSet, Registered
<1>5. poolRunning' = Cardinality(RegSet')
  BY <1>1, <1>4, RegSetFinite, FS_AddElement DEF PoolInv, StatusInv
<1>6. ~AllOff /\ ~NoNew
  BY <1>1 DEF AllOff, NoNew
<1>7. poolStatus \in {"down", "start"}
  BY <1>6 DEF PoolInv, PoolTypes, StatusInv
<1>8. CASE poolRunning' = NumThreads
  <2>1. RegSet' = Workers
    <3>1. RegSet' \in SUBSET Workers
      BY DEF RegSet
    <3>2. IsFiniteSet(Workers) /\ Cardinality(Workers) = Cardinality(RegSet')
      BY <1>5, <1>8, PoolAssumption DEF NumThreads
    <3> QED BY <3>1, <3>2, FS_Subset
  <2>2. \A v \in Workers : Registered(v)'
    BY <2>1 DEF RegSet
  <2>3. NoNew'
    BY <2>2 DEF NoNew, Registered
  <2>4. StatusInv'
    BY <1>1, <1>5, <1>8, <2>2, <2>3 DEF PoolInv, StatusInv, Registered
  <2>5. CallerInv'
    BY <1>1, <1>6, <1>8 DEF PoolInv, CallerInv, Stops
  <2> QED BY <1>3, <2>4, <2>5 DEF PoolInv
<1>9. CASE poolRunning' # NumThreads
  <2>1. StatusInv'
    BY <1>1, <1>2, <1>5, <1>6, <1>7, <1>9 DEF PoolInv, StatusInv, Registered
  <2>2. CallerInv'
    BY <1>1, <1>6, <1>9 DEF PoolInv, CallerInv, Stops
  <2> QED BY <1>3, <2>1, <2>2 DEF PoolInv
<1> QED BY <1>8, <1>9

\* register_dn: the pool is down when the last worker has gone.
LEMMA RegisterDnInv == ASSUME PoolInv, NEW w \in Workers, RegisterDn(w) PROVE PoolInv'
<1>1. /\ worker[w].at = "idle" /\ worker' = [worker EXCEPT ![w].at = "off"] /\ poolQuit
      /\ poolRunning' = poolRunning - 1
      /\ poolStatus' = IF poolRunning' = 0 THEN "down" ELSE poolStatus
      /\ Notify
      /\ UNCHANGED <<poolQuit, poolQueue, caller, taskAt, starts, interrupted>>
  BY DEF RegisterDn
<1>2. /\ worker' \in [Workers -> WorkerType]
      /\ \A v \in Workers : worker'[v].at = IF v = w THEN "off" ELSE worker[v].at
  <2>1. "off" \in WorkerPlaces /\ NoTask \in PoolTasks \cup {NoTask}
    BY DEF WorkerPlaces
  <2> QED BY <1>1, <2>1, WorkerMoves DEF PoolInv, PoolTypes
<1>3. RegSet' = RegSet \ {w} /\ w \in RegSet
  BY <1>1, <1>2 DEF RegSet, Registered
<1>4. IsFiniteSet(RegSet') /\ poolRunning' = Cardinality(RegSet')
  BY <1>1, <1>3, RegSetFinite, FS_RemoveElement DEF PoolInv, StatusInv
<1>5. PoolTypes'
  <2>1. Owner \in Callers
    BY DEF Callers
  <2>2. poolCond' \in Seq(Callers)
    BY <1>1, <2>1, CondTypes DEF PoolInv, PoolTypes
  <2>3. poolRunning' \in Nat
    BY <1>4, FS_CardinalityType
  <2> QED BY <1>1, <1>2, <2>2, <2>3 DEF PoolInv, PoolTypes
<1>6. ~AllOff
  BY <1>1 DEF AllOff
<1>7. NoNew => NoNew'
  BY <1>2 DEF NoNew
<1>8. ~interrupted => poolStatus \in {"up", "stop"}
  BY <1>1, <1>6 DEF PoolInv, PoolTypes, StatusInv
<1>9. CASE poolRunning' = 0
  <2>1. RegSet' = {}
    BY <1>4, <1>9, FS_EmptySet
  <2>2. NoNew => AllOff'
    <3>1. \A v \in Workers : ~Registered(v)' /\ worker'[v].at \in WorkerPlaces
      BY <1>2, <2>1 DEF RegSet, WorkerType
    <3> QED BY <1>7, <3>1 DEF NoNew, AllOff, Registered, WorkerPlaces
  <2>3. ~interrupted => AllOff'
    BY <1>8, <2>2 DEF PoolInv, StatusInv
  <2>4. StatusInv'
    BY <1>1, <1>4, <1>9, <2>3 DEF PoolInv, StatusInv
  <2>5. CallerInv'
    BY <1>1, <1>6, <1>7, <1>9, <2>2 DEF PoolInv, CallerInv, Stops
  <2> QED BY <1>5, <2>4, <2>5 DEF PoolInv
<1>10. CASE poolRunning' # 0
  <2>1. poolStatus' = poolStatus
    BY <1>1, <1>10
  <2>2. StatusInv'
    BY <1>1, <1>4, <1>6, <1>7, <2>1 DEF PoolInv, StatusInv
  <2>3. CallerInv'
    BY <1>1, <1>6, <1>7, <2>1 DEF PoolInv, CallerInv, Stops
  <2> QED BY <1>5, <2>2, <2>3 DEF PoolInv
<1> QED BY <1>9, <1>10

\* A registered worker goes round its loop.
LEMMA LoopInv ==
    ASSUME PoolInv, NEW w \in Workers, QuitTest(w) \/ GetTask(w) \/ ExecuteEnds(w) PROVE PoolInv'
<1>1. /\ Registered(w) /\ UNCHANGED <<poolStatus, poolRunning, poolQuit, poolCond, caller, starts, interrupted>>
  BY DEF QuitTest, GetTask, ExecuteEnds, Registered
<1>2. PICK a \in {"idle", "getting", "executing"}, t \in PoolTasks \cup {NoTask} :
          \/ worker' = [worker EXCEPT ![w].at = a]
          \/ worker' = [worker EXCEPT ![w] = [at |-> a, task |-> t]]
  <2>1. poolQueue # <<>> => Head(poolQueue) \in PoolTasks
    BY DEF PoolInv, PoolTypes
  <2> QED BY <2>1 DEF QuitTest, GetTask, ExecuteEnds
<1>3. /\ worker' \in [Workers -> WorkerType]
      /\ \A v \in Workers : worker'[v].at = IF v = w THEN a ELSE worker[v].at
  <2>1. a \in WorkerPlaces
    BY DEF WorkerPlaces
  <2> QED BY <1>2, <2>1, WorkerMoves DEF PoolInv, PoolTypes
<1>4. poolQueue' \in Seq(PoolTasks) /\ taskAt' \in [PoolTasks -> {"new", "queued", "running", "done"}]
  <2>1. poolQueue # <<>> => Tail(poolQueue) \in Seq(PoolTasks)
    BY DEF PoolInv, PoolTypes
  <2>2. taskAt \in [PoolTasks -> {"new", "queued", "running", "done"}]
    BY DEF PoolInv, PoolTypes
  <2>3. poolQueue' \in Seq(PoolTasks)
    BY <2>1 DEF QuitTest, GetTask, ExecuteEnds, PoolInv, PoolTypes
  <2>4. CASE QuitTest(w)
    BY <2>2, <2>3, <2>4 DEF QuitTest
  <2>5. CASE GetTask(w)
    BY <2>2, <2>3, <2>5 DEF GetTask
  <2>6. CASE ExecuteEnds(w)
    BY <2>2, <2>3, <2>6 DEF ExecuteEnds
  <2> QED BY <2>4, <2>5, <2>6
<1>5. PoolTypes'
  BY <1>1, <1>3, <1>4 DEF PoolInv, PoolTypes
<1>6. RegSet' = RegSet
  BY <1>1, <1>3 DEF RegSet, Registered
<1>7. /\ ~AllOff /\ (NoNew => NoNew')
      /\ \A v \in Workers : Registered(v) => Registered(v)'
      /\ \A v \in Workers : worker[v].at # "off" => worker'[v].at # "off"
  BY <1>1, <1>3 DEF AllOff, NoNew, Registered
<1>8. StatusInv'
  BY <1>1, <1>6, <1>7 DEF PoolInv, StatusInv
<1>9. CallerInv'
  BY <1>1, <1>7 DEF PoolInv, CallerInv, Stops
<1> QED BY <1>5, <1>8, <1>9 DEF PoolInv

\* A task is queued.
LEMMA AddTaskInv == ASSUME PoolInv, NEW t \in PoolTasks, AddTask(t) PROVE PoolInv'
<1>1. taskAt' \in [PoolTasks -> {"new", "queued", "running", "done"}]
  BY DEF AddTask, PoolInv, PoolTypes
<1>2. poolQueue' \in Seq(PoolTasks)
  BY DEF AddTask, PoolInv, PoolTypes
<1>3. RegSet' = RegSet /\ PoolTypes'
  BY <1>1, <1>2 DEF AddTask, RegSet, Registered, PoolInv, PoolTypes
<1>4. StatusInv'
  BY <1>3 DEF AddTask, PoolInv, StatusInv, AllOff, NoNew, Registered
<1>5. CallerInv'
  BY DEF AddTask, PoolInv, CallerInv, Stops, AllOff, NoNew
<1> QED BY <1>3, <1>4, <1>5 DEF PoolInv

\* A task is queued, or something else sets ev_quit.
LEMMA ProgramInv == ASSUME PoolInv, Interrupt \/ \E t \in Direct : AddTask(t) PROVE PoolInv'
<1>1. CASE Interrupt
  <2>1. RegSet' = RegSet /\ PoolTypes'
    BY <1>1 DEF Interrupt, RegSet, Registered, PoolInv, PoolTypes
  <2>2. StatusInv'
    BY <1>1, <2>1 DEF Interrupt, PoolInv, StatusInv, AllOff, NoNew, Registered
  <2>3. CallerInv'
    BY <1>1 DEF Interrupt, PoolInv, CallerInv, Stops, AllOff, NoNew
  <2> QED BY <2>1, <2>2, <2>3 DEF PoolInv
<1>2. CASE \E t \in Direct : AddTask(t)
  BY <1>2, AddTaskInv, PoolAssumption
<1> QED BY <1>1, <1>2

\* Every step keeps the invariant.
LEMMA PoolStep == PoolInv /\ [PoolNext]_poolVars => PoolInv'
<1> SUFFICES ASSUME PoolInv, [PoolNext]_poolVars PROVE PoolInv'
  OBVIOUS
<1>1. ASSUME NEW w \in Workers, WorkerLoop(w) \/ ExecuteEnds(w) PROVE PoolInv'
  BY <1>1, RegisterUpInv, RegisterDnInv, LoopInv DEF WorkerLoop
<1>2. ASSUME NEW c \in Callers, CallerStep(c) \/ CallStop(c) PROVE PoolInv'
  BY <1>2, WaitsInv, StoppingInv, StartThreadsInv, StopThreadsInv, CallStopInv DEF CallerStep
<1>3. CASE Interrupt \/ OwnerStarts \/ \E t \in Direct : AddTask(t)
  BY <1>3, ProgramInv, OwnerStartsInv
<1>4. CASE UNCHANGED poolVars
  <2>1. UNCHANGED <<poolStatus, poolRunning, poolQuit, poolQueue, worker, taskAt, starts, interrupted>>
        /\ caller' = caller /\ poolCond' = poolCond
    BY <1>4 DEF poolVars
  <2>2. CallerInv'
    BY <2>1 DEF PoolInv, CallerInv, Stops, AllOff, NoNew
  <2> QED BY <2>1, <2>2, CallerOnly DEF PoolInv, PoolTypes
<1> QED BY <1>1, <1>2, <1>3, <1>4 DEF PoolNext

\* The invariant holds in every state.
LEMMA PoolInvariance == PoolSpec => []PoolInv
BY PoolInitInv, PoolStep, PTL DEF PoolSpec
-----------------------------------------------------------------------------
\* What the invariant says of the types, ...
LEMMA PoolInvTypes == PoolInv => PoolTypeOK
<1> SUFFICES ASSUME PoolInv PROVE PoolTypeOK
  OBVIOUS
<1>1. poolRunning \in 0..NumThreads
  BY RegSetFinite DEF PoolInv, StatusInv
<1> QED BY <1>1 DEF PoolInv, PoolTypes, PoolTypeOK, WorkerType, WorkerPlaces, CallerType, CallerPlaces

\* of the status, ...
LEMMA PoolInvStatus == PoolInv => StatusMatches
BY DEF PoolInv, StatusInv, StatusMatches, CountMatches, RegSet, AllOff, Alive

\* and of a pool that was stopped.
LEMMA PoolInvGone == PoolInv => StoppedMeansGone
BY DEF PoolInv, CallerInv, StoppedMeansGone, AllOff, Alive

\* Every state of the pool is well typed; in particular the counter stays
\* between 0 and the number of threads.
THEOREM PoolTypeCorrect == PoolSpec => []PoolTypeOK
BY PoolInvTypes, PoolInvariance, PTL

\* The status of the pool says what its docstring promises, for every number
\* of workers and however starts, stops and an interrupt overlap.
THEOREM StatusIsTrue == PoolSpec => []StatusMatches
BY PoolInvStatus, PoolInvariance, PTL

\* When a stopall that stopped the pool returns, no worker is left, whoever
\* else has called it meanwhile.
THEOREM StoppedPoolIsEmpty == PoolSpec => []StoppedMeansGone
BY PoolInvGone, PoolInvariance, PTL
-----------------------------------------------------------------------------
(* The pool under an instrument interface (InsService).                     *)

\* What is in the service's queue, and which servers have been told what.
SvcTypes ==
    /\ svc \in SvcPhases /\ taskqueue \in Seq(PoolTasks)
    /\ started \subseteq Servers /\ stopAsked \subseteq Servers

\* start() and stop().
LEMMA ServiceStepInv ==
    ASSUME PoolInv, SvcTypes, ServiceStep \/ Stop \/ \E t \in PoolTasks : NewJob(t)
    PROVE  PoolInv' /\ SvcTypes'
<1>1. QTask \in PoolTasks /\ Servers \subseteq PoolTasks /\ Owner \in Callers
  BY SvcAssumption DEF Callers
<1>2. ASSUME UNCHANGED poolVars PROVE PoolInv'
  BY <1>2, PoolStep
<1>3. \A t \in PoolTasks : Append(taskqueue, t) \in Seq(PoolTasks)
  BY DEF SvcTypes
<1>4. CASE StartPool
  BY <1>4, OwnerStartsInv DEF StartPool, SvcTypes, SvcPhases
<1>5. CASE StartQueueTask
  BY <1>1, <1>5, AddTaskInv DEF StartQueueTask, SvcTypes, SvcPhases
<1>6. CASE Up \/ Flush \/ Stopped \/ Stop
  <2>1. UNCHANGED <<poolVars, started, stopAsked>> /\ taskqueue' \in {taskqueue, <<>>}
    BY <1>6 DEF Up, Flush, Stopped, Stop
  <2>2. svc' \in SvcPhases
    BY <1>6 DEF Up, Flush, Stopped, Stop, SvcPhases
  <2>3. <<>> \in Seq(PoolTasks)
    OBVIOUS
  <2>4. SvcTypes'
    BY <2>1, <2>2, <2>3 DEF SvcTypes
  <2> QED BY <1>2, <2>1, <2>4
<1>7. CASE StopPool
  BY <1>1, <1>7, CallStopInv DEF StopPool, SvcTypes, SvcPhases
<1>8. ASSUME NEW s \in Servers, StartInterface(s) \/ StopInterface(s) PROVE PoolInv' /\ SvcTypes'
  <2>1. UNCHANGED poolVars /\ SvcTypes'
    BY <1>1, <1>3, <1>8 DEF StartInterface, StopInterface, SvcTypes
  <2> QED BY <1>2, <2>1
<1>9. CASE CallerStep(Owner) /\ UNCHANGED svcVars
  <2>1. PoolInv'
    BY <1>1, <1>9, PoolStep DEF PoolNext
  <2> QED BY <1>9, <2>1 DEF svcVars, SvcTypes
<1>10. ASSUME NEW t \in PoolTasks, NewJob(t) PROVE PoolInv' /\ SvcTypes'
  <2>1. UNCHANGED poolVars /\ SvcTypes'
    BY <1>3, <1>10 DEF NewJob, SvcTypes
  <2> QED BY <1>2, <2>1
<1> QED BY <1>4, <1>5, <1>6, <1>7, <1>8, <1>9, <1>10 DEF ServiceStep

\* The workers, with the QueueTaskset and the servers among their tasks.
LEMMA WorkerStepInv ==
    ASSUME PoolInv, SvcTypes, NEW w \in Workers, WorkerStep(w)
    PROVE  PoolInv' /\ SvcTypes'
<1>1. CASE (WorkerLoop(w) \/ ExecuteEnds(w)) /\ UNCHANGED svcVars
  <2>1. PoolInv'
    BY <1>1, PoolStep DEF PoolNext
  <2> QED BY <1>1, <2>1 DEF svcVars, SvcTypes
<1>2. CASE ServerUp(w)
  <2>1. UNCHANGED poolVars /\ SvcTypes'
    BY <1>2 DEF ServerUp, SvcTypes
  <2> QED BY <2>1, PoolStep
<1>3. CASE QueueTaskStep(w)
  <2>1. taskqueue # <<>> /\ taskqueue \in Seq(PoolTasks)
    BY <1>3 DEF QueueTaskStep, SvcTypes
  <2>2. Head(taskqueue) \in PoolTasks /\ Tail(taskqueue) \in Seq(PoolTasks)
    BY <2>1
  <2>3. AddTask(Head(taskqueue)) /\ taskqueue' = Tail(taskqueue) /\ UNCHANGED <<svc, started, stopAsked>>
    BY <1>3 DEF QueueTaskStep
  <2>4. PoolInv'
    BY <2>2, <2>3, AddTaskInv
  <2> QED BY <2>2, <2>3, <2>4 DEF SvcTypes
<1> QED BY <1>1, <1>2, <1>3 DEF WorkerStep, TaskEnds

\* Every step.
LEMMA SvcStep == PoolInv /\ SvcTypes /\ [SvcNext]_insServiceVars => PoolInv' /\ SvcTypes'
<1>1. PoolInv /\ SvcTypes /\ UNCHANGED insServiceVars => PoolInv' /\ SvcTypes'
  BY PoolStep DEF insServiceVars, svcVars, SvcTypes
<1> QED BY <1>1, ServiceStepInv, WorkerStepInv DEF SvcNext

\* The first state.
LEMMA SvcInitInv == SvcInit => PoolInv /\ SvcTypes
BY PoolInitInv DEF SvcInit, SvcTypes, SvcPhases

\* What they say together.
LEMMA SvcTells == PoolInv /\ SvcTypes => SvcTypeOK
BY PoolInvTypes DEF SvcTypes, SvcTypeOK

\* Every state of an instrument interface, its pool and its queue is well
\* typed.
THEOREM ServiceTypeCorrect == SvcSpec => []SvcTypeOK
BY SvcTells, SvcInitInv, SvcStep, PTL DEF SvcSpec

\* The promises of the pool hold in a service whose tasks queue tasks
\* themselves, keep their workers for good, and are told to end by its stop:
\* the status is true, and a pool that has been stopped is empty.
THEOREM ServiceKeepsPool == SvcSpec => [](StatusMatches /\ StoppedMeansGone)
BY PoolInvStatus, PoolInvGone, SvcInitInv, SvcStep, PTL DEF SvcSpec
=============================================================================
