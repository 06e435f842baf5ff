------------------------------ MODULE ThreadPool ------------------------------
(***************************************************************************)
(* ThreadPool and WorkerThread of Task.py: a pool of worker threads that   *)
(* take tasks from one queue, and the threads that start and stop the pool *)
(* and wait for its workers on the condition regcond.  Every section under *)
(* the lock of regcond is one step; notify() wakes the longest waiter.     *)
(***************************************************************************)
EXTENDS Naturals, Sequences, FiniteSets

CONSTANTS Workers,      \* the numthreads threads of the pool
          Owner,        \* the thread that starts and stops the pool
          Others,       \* other threads that may stop it
          PoolTasks,    \* tasks
          Direct,       \* those the program itself puts into the queue
          MaxStarts     \* bound: how often the owner starts the pool

ASSUME PoolAssumption ==
    /\ IsFiniteSet(Workers) /\ Workers # {} /\ Owner \notin Others /\ MaxStarts \in Nat
    /\ Direct \subseteq PoolTasks

VARIABLES poolStatus,   \* status
          poolRunning,  \* runningcount
          poolQuit,     \* ev_quit, which the pool may share with its program
          poolCond,     \* regcond: the threads asleep in wait(), longest first
          poolQueue,    \* queue
          worker,       \* each worker: where it is, and its task
          caller,       \* each thread that calls: where it is, and how its last call ended
          taskAt,       \* the life of each task
          starts, interrupted

poolVars == <<poolStatus, poolRunning, poolQuit, poolCond, poolQueue, worker, caller, taskAt,
              starts, interrupted>>

Callers == Others \cup {Owner}
NumThreads == Cardinality(Workers)
NoTask == "no task"
Alive(w) == worker[w].at # "off"
Registered(w) == worker[w].at \in {"idle", "getting", "executing"}

PoolInit ==
    /\ poolStatus = "down" /\ poolRunning = 0 /\ poolQuit = FALSE
    /\ poolCond = <<>> /\ poolQueue = <<>>
    /\ worker = [w \in Workers |-> [at |-> "off", task |-> NoTask]]
    /\ caller = [c \in Callers |-> [at |-> "idle", ret |-> "none"]]
    /\ taskAt = [t \in PoolTasks |-> "new"]
    /\ starts = 0 /\ interrupted = FALSE
-----------------------------------------------------------------------------
(* regcond                                                                  *)

Asleep(c) == \E i \in DOMAIN poolCond : poolCond[i] = c
WaitAt(c, where) ==
    /\ caller' = [caller EXCEPT ![c].at = where]
    /\ poolCond' = Append(poolCond, c)
Notify == poolCond' = IF poolCond = <<>> THEN <<>> ELSE Tail(poolCond)
Return(c, how) ==
    /\ caller' = [caller EXCEPT ![c] = [at |-> "idle", ret |-> how]]
    /\ UNCHANGED poolCond
-----------------------------------------------------------------------------
(* startall(wait=True).  Every program of the repository waits; without     *)
(* wait the workers do not register themselves.                             *)

\* Request to start that is refused, or has to wait until the pool is down.
StartRefused(c) ==
    /\ caller[c].at = "startall" /\ ~Asleep(c)
    /\ poolStatus \in {"start", "up"} \/ poolQuit
    /\ Return(c, "ignored")
    /\ UNCHANGED <<poolStatus, poolRunning, poolQuit, poolQueue, worker, taskAt, starts, interrupted>>

StartLater(c) ==
    /\ caller[c].at = "startall" /\ ~Asleep(c) /\ poolStatus = "stop" /\ ~poolQuit
    /\ WaitAt(c, "startall")
    /\ UNCHANGED <<poolStatus, poolRunning, poolQuit, poolQueue, worker, taskAt, starts, interrupted>>

StartThreads(c) ==
    /\ caller[c].at = "startall" /\ ~Asleep(c) /\ poolStatus = "down" /\ ~poolQuit
    /\ poolRunning' = 0 /\ poolStatus' = "start"
    /\ worker' = [w \in Workers |-> [at |-> "new", task |-> NoTask]]
    /\ WaitAt(c, "starting")
    /\ UNCHANGED <<poolQuit, poolQueue, taskAt, starts, interrupted>>

Starting(c) ==
    /\ caller[c].at = "starting" /\ ~Asleep(c)
    /\ IF poolStatus # "up" /\ ~poolQuit THEN WaitAt(c, "starting")
       ELSE Return(c, IF poolQuit THEN "ignored" ELSE "up")
    /\ UNCHANGED <<poolStatus, poolRunning, poolQuit, poolQueue, worker, taskAt, starts, interrupted>>
-----------------------------------------------------------------------------
(* stopall(wait=True)                                                       *)

StopRefused(c) ==
    /\ caller[c].at = "stopall" /\ ~Asleep(c)
    /\ poolStatus \in {"stop", "down"} \/ (poolStatus = "start" /\ poolQuit)
    /\ Return(c, "ignored")
    /\ UNCHANGED <<poolStatus, poolRunning, poolQuit, poolQueue, worker, taskAt, starts, interrupted>>

StopLater(c) ==
    /\ caller[c].at = "stopall" /\ ~Asleep(c) /\ poolStatus = "start" /\ ~poolQuit
    /\ WaitAt(c, "stopall")
    /\ UNCHANGED <<poolStatus, poolRunning, poolQuit, poolQueue, worker, taskAt, starts, interrupted>>

StopThreads(c) ==
    /\ caller[c].at = "stopall" /\ ~Asleep(c) /\ poolStatus = "up"
    /\ poolStatus' = "stop" /\ poolQuit' = TRUE
    /\ WaitAt(c, "stopping")
    /\ UNCHANGED <<poolRunning, poolQueue, worker, taskAt, starts, interrupted>>

Stopping(c) ==
    /\ caller[c].at = "stopping" /\ ~Asleep(c)
    /\ IF poolStatus # "down" THEN WaitAt(c, "stopping") ELSE Return(c, "down")
    /\ UNCHANGED <<poolStatus, poolRunning, poolQuit, poolQueue, worker, taskAt, starts, interrupted>>

CallerStep(c) ==
    \/ StartRefused(c) \/ StartLater(c) \/ StartThreads(c) \/ Starting(c)
    \/ StopRefused(c) \/ StopLater(c) \/ StopThreads(c) \/ Stopping(c)
-----------------------------------------------------------------------------
(* The loop of a worker thread.                                             *)

\* Mutant: the pool is up with the first worker.
RegisterUp_First(w) ==
    /\ worker[w].at = "new"
    /\ worker' = [worker EXCEPT ![w].at = "idle"]
    /\ poolRunning' = poolRunning + 1 /\ poolStatus' = "up"
    /\ Notify
    /\ UNCHANGED <<poolQuit, poolQueue, caller, taskAt, starts, interrupted>>

RegisterUp(w) ==
    /\ worker[w].at = "new"
    /\ worker' = [worker EXCEPT ![w].at = "idle"]
    /\ poolRunning' = poolRunning + 1
    /\ poolStatus' = IF poolRunning' = NumThreads THEN "up" ELSE poolStatus
    /\ Notify
    /\ UNCHANGED <<poolQuit, poolQueue, caller, taskAt, starts, interrupted>>

\* Mutants: the pool is down while one worker is left; nobody is notified.
RegisterDn_OneLeft(w) ==
    /\ worker[w].at = "idle" /\ poolQuit
    /\ worker' = [worker EXCEPT ![w].at = "off"]
    /\ poolRunning' = poolRunning - 1
    /\ poolStatus' = IF poolRunning' <= 1 THEN "down" ELSE poolStatus
    /\ Notify
    /\ UNCHANGED <<poolQuit, poolQueue, caller, taskAt, starts, interrupted>>

RegisterDn_Silent(w) ==
    /\ worker[w].at = "idle" /\ poolQuit
    /\ worker' = [worker EXCEPT ![w].at = "off"]
    /\ poolRunning' = poolRunning - 1
    /\ poolStatus' = IF poolRunning' = 0 THEN "down" ELSE poolStatus
    /\ UNCHANGED <<poolQuit, poolCond, poolQueue, caller, taskAt, starts, interrupted>>

RegisterDn(w) ==
    /\ worker[w].at = "idle" /\ poolQuit
    /\ worker' = [worker EXCEPT ![w].at = "off"]
    /\ poolRunning' = poolRunning - 1
    /\ poolStatus' = IF poolRunning' = 0 THEN "down" ELSE poolStatus
    /\ Notify
    /\ UNCHANGED <<poolQuit, poolQueue, caller, taskAt, starts, interrupted>>

\* while not self.ev_quit.isSet(): a worker past the test may still take a task.
QuitTest(w) ==
    /\ worker[w].at = "idle" /\ ~poolQuit
    /\ worker' = [worker EXCEPT ![w].at = "getting"]
    /\ UNCHANGED <<poolStatus, poolRunning, poolQuit, poolCond, poolQueue, caller, taskAt, starts, interrupted>>

GetTask(w) ==
    /\ worker[w].at = "getting"
    /\ \/ /\ poolQueue # <<>> /\ poolQueue' = Tail(poolQueue)
          /\ worker' = [worker EXCEPT ![w] = [at |-> "executing", task |-> Head(poolQueue)]]
          /\ taskAt' = [taskAt EXCEPT ![Head(poolQueue)] = "running"]
       \/ /\ poolQueue = <<>> /\ UNCHANGED <<poolQueue, taskAt>>
          /\ worker' = [worker EXCEPT ![w].at = "idle"]
    /\ UNCHANGED <<poolStatus, poolRunning, poolQuit, poolCond, caller, starts, interrupted>>

\* execute returns or raises: in both cases done() releases the waiters.
ExecuteEnds(w) ==
    /\ worker[w].at = "executing"
    /\ taskAt' = [taskAt EXCEPT ![worker[w].task] = "done"]
    /\ worker' = [worker EXCEPT ![w] = [at |-> "idle", task |-> NoTask]]
    /\ UNCHANGED <<poolStatus, poolRunning, poolQuit, poolCond, poolQueue, caller, starts, interrupted>>

WorkerLoop(w) == RegisterUp(w) \/ RegisterDn(w) \/ QuitTest(w) \/ GetTask(w)
-----------------------------------------------------------------------------
(* The program around the pool.                                             *)

AddTask(t) ==
    /\ taskAt[t] = "new"
    /\ taskAt' = [taskAt EXCEPT ![t] = "queued"] /\ poolQueue' = Append(poolQueue, t)
    /\ UNCHANGED <<poolStatus, poolRunning, poolQuit, poolCond, worker, caller, starts, interrupted>>

\* The owner starts the pool, as the start() of the services does: ev_quit is
\* cleared first.  It starts it again only when its own stopall has ended it.
OwnerStarts ==
    /\ caller[Owner].at = "idle" /\ caller[Owner].ret \in {"none", "down"}
    /\ starts < MaxStarts /\ ~interrupted
    /\ poolQuit' = FALSE /\ starts' = starts + 1
    /\ caller' = [caller EXCEPT ![Owner].at = "startall"]
    /\ UNCHANGED <<poolStatus, poolRunning, poolCond, poolQueue, worker, taskAt, interrupted>>

CallStop(c) ==
    /\ caller[c].at = "idle" /\ (c = Owner => caller[c].ret \in {"up", "ignored"})
    /\ c # Owner => caller[c].ret = "none" /\ starts = MaxStarts
    /\ caller' = [caller EXCEPT ![c].at = "stopall"]
    /\ UNCHANGED <<poolStatus, poolRunning, poolQuit, poolCond, poolQueue, worker, taskAt, starts, interrupted>>

\* Something else that shares ev_quit sets it; then the program is about to end.
Interrupt ==
    /\ ~interrupted /\ starts = MaxStarts /\ interrupted' = TRUE /\ poolQuit' = TRUE
    /\ UNCHANGED <<poolStatus, poolRunning, poolCond, poolQueue, worker, caller, taskAt, starts>>

PoolNext ==
    \/ \E w \in Workers : WorkerLoop(w) \/ ExecuteEnds(w)
    \/ \E c \in Callers : CallerStep(c) \/ CallStop(c)
    \/ \E t \in Direct : AddTask(t)
    \/ OwnerStarts \/ Interrupt

PoolSpec == PoolInit /\ [][PoolNext]_poolVars

\* Threads run, and tasks end.
PoolFairness ==
    /\ \A w \in Workers : WF_poolVars(WorkerLoop(w) \/ ExecuteEnds(w))
    /\ \A c \in Callers : WF_poolVars(CallerStep(c))
-----------------------------------------------------------------------------
(* Properties.                                                              *)

\* Types of the pool's state.
PoolTypeOK ==
    /\ poolStatus \in {"down", "start", "up", "stop"} /\ poolRunning \in 0..NumThreads
    /\ poolQuit \in BOOLEAN /\ poolCond \in Seq(Callers) /\ poolQueue \in Seq(PoolTasks)
    /\ worker \in [Workers -> [at : {"off", "new", "idle", "getting", "executing"},
                               task : PoolTasks \cup {NoTask}]]
    /\ caller \in [Callers -> [at : {"idle", "startall", "starting", "stopall", "stopping"},
                               ret : {"none", "up", "down", "ignored"}]]
    /\ taskAt \in [PoolTasks -> {"new", "queued", "running", "done"}]
    /\ starts \in 0..MaxStarts /\ interrupted \in BOOLEAN

\* runningcount is the number of registered workers, and the status says what
\* the docstring of ThreadPool promises: "down    no threads are ready for
\* service", "up      all threads are ready for service", unless an interrupt
\* comes while the pool is starting (register_up, register_dn, startall).
CountMatches == poolRunning = Cardinality({w \in Workers : Registered(w)})
StatusMatches ==
    /\ CountMatches
    /\ poolStatus = "up" /\ ~poolQuit => \A w \in Workers : Registered(w)
    /\ poolStatus = "down" /\ ~interrupted => \A w \in Workers : ~Alive(w)

\* When a stopall that stopped the pool returns, every worker has gone and no
\* task is being executed (stopall with wait).
StoppedMeansGone ==
    \A c \in Callers :
        (caller[c].ret = "down" /\ caller[c].at = "idle") => \A w \in Workers : ~Alive(w)

\* A start or stop returns, also when an interrupt comes in the middle, as long
\* as no second thread waits on regcond, where one notify wakes one waiter.
CallsReturn ==
    (caller[Owner].at # "idle") ~> (caller[Owner].at = "idle" \/ \E c \in Others : Asleep(c))
=============================================================================
