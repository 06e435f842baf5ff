------------------------------ MODULE InsService ------------------------------
(***************************************************************************)
(* Start and stop of an instrument interface (ocsInsInt of INSint.py) on   *)
(* its own thread pool: a QueueTaskset, itself a task of the pool, starts  *)
(* every task it finds in the service's task queue; the RPC servers are    *)
(* tasks that run until they are stopped, the rest are short.              *)
(***************************************************************************)
EXTENDS ThreadPool

CONSTANTS QTask,        \* the QueueTaskset
          Servers,      \* tasks that run the RPC servers of the interfaces
          Jobs          \* tasks that send a command or process an answer

ASSUME SvcAssumption == PoolTasks = {QTask} \cup Servers \cup Jobs

VARIABLES svc,          \* what start() and stop() have done: see SvcPhases
          taskqueue,    \* taskqueue
          started,      \* ev_started of the servers
          stopAsked     \* the quit events of the servers

svcVars == <<svc, taskqueue, started, stopAsked>>
insServiceVars == <<poolVars, svcVars>>
SvcPhases == {"new", "pool", "interfaces", "up", "closing", "flush", "stopping", "stopped"}

SvcInit ==
    /\ PoolInit
    /\ svc = "new" /\ taskqueue = <<>> /\ started = {} /\ stopAsked = {}
InTaskqueue(t) == \E i \in DOMAIN taskqueue : taskqueue[i] = t
-----------------------------------------------------------------------------
(* start()                                                                  *)

StartPool == svc = "new" /\ OwnerStarts /\ svc' = "pool" /\ UNCHANGED <<taskqueue, started, stopAsked>>

StartQueueTask ==
    /\ svc = "pool" /\ caller[Owner].at = "idle"
    /\ AddTask(QTask) /\ svc' = "interfaces" /\ UNCHANGED <<taskqueue, started, stopAsked>>

\* start of one interface after another, each waits for its server to be up.
StartInterface(s) ==
    /\ svc = "interfaces" /\ taskAt[s] = "new" /\ ~InTaskqueue(s)
    /\ \A r \in Servers \ {s} : r \in started \/ (taskAt[r] = "new" /\ ~InTaskqueue(r))
    /\ taskqueue' = Append(taskqueue, s)
    /\ UNCHANGED <<poolVars, svc, started, stopAsked>>

ServerUp(w) ==
    /\ worker[w].task \in Servers \ started
    /\ started' = started \cup {worker[w].task}
    /\ stopAsked' = stopAsked \ {worker[w].task}
    /\ UNCHANGED <<poolVars, svc, taskqueue>>

Up == svc = "interfaces" /\ started = Servers /\ svc' = "up" /\ UNCHANGED <<poolVars, taskqueue, started, stopAsked>>
-----------------------------------------------------------------------------
(* QueueTaskset.execute with waitflag=False: it has no end.                 *)

\* Mutant: waitflag left at its default, each task is waited for.
QueueTaskStep_Waits(w) ==
    /\ worker[w].task = QTask /\ taskqueue # <<>>
    /\ \A t \in Servers \cup Jobs : taskAt[t] \in {"new", "done"}
    /\ AddTask(Head(taskqueue)) /\ taskqueue' = Tail(taskqueue)
    /\ UNCHANGED <<svc, started, stopAsked>>

QueueTaskStep(w) ==
    /\ worker[w].task = QTask /\ taskqueue # <<>>
    /\ AddTask(Head(taskqueue)) /\ taskqueue' = Tail(taskqueue)
    /\ UNCHANGED <<svc, started, stopAsked>>

\* A server returns when it has been told to, any other task by itself.
TaskEnds(w) ==
    /\ worker[w].task # QTask
    /\ worker[w].task \in Servers => worker[w].task \in started \cap stopAsked
    /\ ExecuteEnds(w) /\ UNCHANGED svcVars

NewJob(t) ==
    /\ svc = "up" /\ t \in Jobs /\ taskAt[t] = "new" /\ ~InTaskqueue(t)
    /\ taskqueue' = Append(taskqueue, t) /\ UNCHANGED <<poolVars, svc, started, stopAsked>>
-----------------------------------------------------------------------------
(* stop()                                                                   *)

Stop == svc = "up" /\ svc' = "closing" /\ UNCHANGED <<poolVars, taskqueue, started, stopAsked>>

StopInterface(s) ==
    /\ svc = "closing" /\ s \notin stopAsked
    /\ \A r \in stopAsked : taskAt[r] = "done"
    /\ stopAsked' = stopAsked \cup {s} /\ UNCHANGED <<poolVars, svc, taskqueue, started>>

Flush ==
    /\ svc = "closing" /\ \A s \in Servers : s \in stopAsked /\ taskAt[s] = "done"
    /\ taskqueue' = <<>> /\ svc' = "flush" /\ UNCHANGED <<poolVars, started, stopAsked>>

StopPool == svc = "flush" /\ CallStop(Owner) /\ svc' = "stopping" /\ UNCHANGED <<taskqueue, started, stopAsked>>

Stopped ==
    /\ svc = "stopping" /\ caller[Owner].at = "idle"
    /\ svc' = "stopped" /\ UNCHANGED <<poolVars, taskqueue, started, stopAsked>>

ServiceStep ==
    \/ StartPool \/ StartQueueTask \/ Up \/ Flush \/ StopPool \/ Stopped
    \/ \E s \in Servers : StartInterface(s) \/ StopInterface(s)
    \/ CallerStep(Owner) /\ UNCHANGED svcVars

WorkerStep(w) == (WorkerLoop(w) /\ UNCHANGED svcVars) \/ TaskEnds(w) \/ ServerUp(w) \/ QueueTaskStep(w)

SvcNext == ServiceStep \/ Stop \/ (\E w \in Workers : WorkerStep(w)) \/ \E t \in PoolTasks : NewJob(t)

SvcSpec == SvcInit /\ [][SvcNext]_insServiceVars
\* The threads run.  Nothing makes a job come or the service stop.
SvcFairness == WF_insServiceVars(ServiceStep) /\ \A w \in Workers : WF_insServiceVars(WorkerStep(w))
-----------------------------------------------------------------------------
(* Properties.                                                              *)

\* Types of the service's state.
SvcTypeOK ==
    /\ PoolTypeOK /\ svc \in SvcPhases /\ taskqueue \in Seq(PoolTasks)
    /\ started \subseteq Servers /\ stopAsked \subseteq Servers

\* start() returns with every server up, and a job that is queued is carried
\* out unless the service is stopped: the QueueTaskset and the servers, which
\* never leave their workers, do not take them all (start of ocsInsInt).
ServiceServes ==
    /\ (svc = "pool") ~> (svc = "up")
    /\ \A t \in Jobs : InTaskqueue(t) ~> (taskAt[t] = "done" \/ svc # "up")
=============================================================================
