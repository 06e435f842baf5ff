------------------------------- MODULE TaskSets -------------------------------
(***************************************************************************)
(* Compound tasks of Task.py: SequentialTaskset and ConcurrentAndTaskset.  *)
(* A compound task is itself executed by a worker of the thread pool, and  *)
(* so are its children, so a set occupies a worker while it waits for      *)
(* them.  A task ends with a value or with an exception, which is kept as  *)
(* its result and raised again in whoever waits for it.                    *)
(***************************************************************************)
EXTENDS Naturals, Sequences, FiniteSets, SequencesExt

CONSTANTS SetTasks,     \* all tasks
          AndSets,      \* the ConcurrentAndTasksets
          SeqSets,      \* the SequentialTasksets
          Runners,      \* tasks whose execute() is modelled elsewhere
          Kids,         \* the children of each compound task, in order
          Extras,       \* tasks that addTask puts into a set that is running
          Roots,        \* tasks started by the program itself
          NumWorkers,   \* threads of the pool
          LeafResults   \* what the other tasks end with

Compound == AndSets \cup SeqSets
KidSet(t) == {Kids[t][k] : k \in DOMAIN Kids[t]}
ResultType == {"ok", "bad", "error", "timeout"}

ASSUME SetsAssumption ==
    /\ Compound \cup Runners \cup Extras \cup Roots \subseteq SetTasks
    /\ AndSets \cap SeqSets = {} /\ Runners \cap Compound = {}
    /\ Kids \in [Compound -> Seq(SetTasks)] /\ \A t \in SeqSets : Kids[t] # <<>>
    /\ NumWorkers \in Nat \ {0} /\ LeafResults \subseteq ResultType

\* A task has one parent, from which it takes its tag and its thread pool
\* (initialize): it is in one set only, once, and not started by others.
ASSUME OneParent ==
    \A t \in Compound :
        /\ KidSet(t) \cap (Roots \cup Extras) = {}
        /\ \A u \in Compound : \A j \in DOMAIN Kids[t], k \in DOMAIN Kids[u] :
              Kids[t][j] = Kids[u][k] => t = u /\ j = k

VARIABLES setQueue,     \* queue of the pool
          setStage,     \* the life of each task
          setResult,    \* result
          setState,     \* the local state of execute() of each compound task
          adding        \* calls of addTask that have started the task only

setVars == <<setQueue, setStage, setResult, setState, adding>>

Leaf(t) == t \notin Compound \cup Runners
Running(t) == setStage[t] = "running"
Ended(t) == setStage[t] = "done"
Raised(t) == setResult[t] \in {"error", "timeout"}

SetInit ==
    /\ setQueue = <<>> /\ adding = {}
    /\ setStage = [t \in SetTasks |-> "new"] /\ setResult = [t \in SetTasks |-> "none"]
    /\ setState = [t \in Compound |-> [at |-> "start", next |-> 1, i |-> 1, n |-> 0, taskset |-> <<>>, results |-> {}]]
-----------------------------------------------------------------------------
(* The pool.                                                                *)

InitAndStart(t) ==
    /\ setStage[t] = "new"
    /\ setStage' = [setStage EXCEPT ![t] = "queued"] /\ setQueue' = Append(setQueue, t)

Take ==
    /\ setQueue # <<>> /\ Cardinality({t \in SetTasks : Running(t)}) < NumWorkers
    /\ setQueue' = Tail(setQueue)
    /\ setStage' = [setStage EXCEPT ![Head(setQueue)] = "running"]
    /\ UNCHANGED <<setResult, setState, adding>>

\* execute returns or raises: done() stores the result and releases the waiters.
Done(t, result) ==
    /\ setStage' = [setStage EXCEPT ![t] = "done"]
    /\ setResult' = [setResult EXCEPT ![t] = result]

StartRoot(t) ==
    /\ t \in Roots /\ InitAndStart(t) /\ UNCHANGED <<setResult, setState, adding>>

LeafEnds(t) ==
    /\ Leaf(t) /\ Running(t) /\ \E result \in LeafResults : Done(t, result)
    /\ UNCHANGED <<setQueue, setState, adding>>
-----------------------------------------------------------------------------
(* ConcurrentAndTaskset.execute                                             *)

AndStart(t) ==
    /\ t \in AndSets /\ Running(t) /\ setState[t].at = "start" /\ setState[t].next <= Len(Kids[t])
    /\ LET kid == Kids[t][setState[t].next] IN
       /\ InitAndStart(kid)
       /\ setState' = [setState EXCEPT ![t].next = @ + 1, ![t].taskset = Append(@, kid)]
    /\ UNCHANGED <<setResult, adding>>

\* num_tasks = self.getNumTasks()
AndCount(t) ==
    /\ t \in AndSets /\ Running(t)
    /\ setState[t].at = "count" \/ (setState[t].at = "start" /\ setState[t].next > Len(Kids[t]))
    /\ LET n == Len(setState[t].taskset) IN
       setState' = [setState EXCEPT ![t].n = n, ![t].i = 1, ![t].at = IF n = 0 THEN "scan" ELSE "poll"]
    /\ UNCHANGED <<setQueue, setStage, setResult, adding>>

\* Mutant: a child that raised an exception is polled for ever.
AndPoll_KeepsFailed(t) ==
    /\ t \in AndSets /\ Running(t) /\ setState[t].at = "poll"
    /\ LET s == setState[t] IN
       \/ /\ s.i > s.n \/ s.i > Len(s.taskset)
          /\ setState' = [setState EXCEPT ![t].at = "count"]
       \/ /\ s.i <= s.n /\ s.i <= Len(s.taskset)
          /\ LET task == s.taskset[s.i] IN
             IF Ended(task) /\ ~Raised(task)
             THEN setState' = [setState EXCEPT ![t].i = @ + 1, ![t].taskset = RemoveAt(@, s.i),
                                               ![t].results = @ \cup {setResult[task]}]
             ELSE setState' = [setState EXCEPT ![t].i = @ + 1]
    /\ UNCHANGED <<setQueue, setStage, setResult, adding>>

\* One turn of the inner loop, whose i runs over a list that gets shorter.  An
\* exception of the child is raised by wait(): it counts as its result, but a
\* TaskTimeout is taken for the end of the waiting time and the child stays.
AndPoll(t) ==
    /\ t \in AndSets /\ Running(t) /\ setState[t].at = "poll"
    /\ LET s == setState[t] IN
       \/ /\ s.i > s.n \/ s.i > Len(s.taskset)
          /\ setState' = [setState EXCEPT ![t].at = "count"]
       \/ /\ s.i <= s.n /\ s.i <= Len(s.taskset)
          /\ LET task == s.taskset[s.i] IN
             IF Ended(task) /\ setResult[task] # "timeout"
             THEN setState' = [setState EXCEPT ![t].i = @ + 1, ![t].taskset = RemoveAt(@, s.i),
                                               ![t].results = @ \cup {setResult[task]}]
             ELSE setState' = [setState EXCEPT ![t].i = @ + 1]
    /\ UNCHANGED <<setQueue, setStage, setResult, adding>>

\* Mutant: some result is returned, whether others are exceptions or not.
AndEnd_AnyResult(t) ==
    /\ t \in AndSets /\ Running(t) /\ setState[t].at = "scan"
    /\ \E result \in setState[t].results : Done(t, result)
    /\ UNCHANGED <<setQueue, setState, adding>>

\* The first exception in the dictionary of results is raised, else the last
\* value in it is returned: which one is arbitrary.  Without a child there is
\* no value, and that is an exception too.
AndEnd(t) ==
    /\ t \in AndSets /\ Running(t) /\ setState[t].at = "scan"
    /\ LET results == setState[t].results IN
       \E result \in (IF results = {} THEN {"error"} ELSE results) :
          /\ "error" \in results => result = "error"
          /\ Done(t, result)
    /\ UNCHANGED <<setQueue, setState, adding>>

\* addTask starts the task before it puts it into the set.
AddStart(t, x) ==
    /\ t \in AndSets /\ x \in Extras /\ Running(t) /\ setState[t].at # "start"
    /\ InitAndStart(x) /\ adding' = adding \cup {<<t, x>>}
    /\ UNCHANGED <<setResult, setState>>

AddAppend(t, x) ==
    /\ <<t, x>> \in adding /\ adding' = adding \ {<<t, x>>}
    /\ setState' = [setState EXCEPT ![t].taskset = Append(@, x)]
    /\ UNCHANGED <<setQueue, setStage, setResult>>
-----------------------------------------------------------------------------
(* SequentialTaskset.execute and step                                       *)

SeqStep(t) ==
    /\ t \in SeqSets /\ Running(t) /\ setState[t].at = "start" /\ setState[t].next <= Len(Kids[t])
    /\ InitAndStart(Kids[t][setState[t].next])
    /\ setState' = [setState EXCEPT ![t].next = @ + 1, ![t].at = "wait"]
    /\ UNCHANGED <<setResult, adding>>

\* runTask returns the result of the child, or raises it.
SeqStepEnds(t) ==
    /\ t \in SeqSets /\ Running(t) /\ setState[t].at = "wait"
    /\ LET kid == Kids[t][setState[t].next - 1] IN
       /\ Ended(kid)
       /\ IF Raised(kid) \/ setState[t].next > Len(Kids[t])
          THEN Done(t, setResult[kid]) /\ UNCHANGED setState
          ELSE setState' = [setState EXCEPT ![t].at = "start"] /\ UNCHANGED <<setStage, setResult>>
    /\ UNCHANGED <<setQueue, adding>>
-----------------------------------------------------------------------------
Executes(t) ==
    AndStart(t) \/ AndCount(t) \/ AndPoll(t) \/ AndEnd(t) \/ SeqStep(t) \/ SeqStepEnds(t)

SetNext ==
    \/ Take
    \/ \E t \in SetTasks : StartRoot(t) \/ LeafEnds(t)
    \/ \E t \in Compound : Executes(t) \/ \E x \in Extras : AddStart(t, x) \/ AddAppend(t, x)

SetSpec == SetInit /\ [][SetNext]_setVars

\* Threads run, and tasks that are not compound end.
SetFairness ==
    /\ WF_setVars(Take)
    /\ \A t \in SetTasks : WF_setVars(LeafEnds(t))
    /\ \A t \in Compound : WF_setVars(Executes(t))
-----------------------------------------------------------------------------
(* Properties.                                                              *)

StateType == [at : {"start", "count", "poll", "scan", "wait"}, next : Nat, i : Nat, n : Nat,
              taskset : Seq(SetTasks), results : SUBSET ResultType]

\* Types of the state of tasks and task sets.
SetTypeOK ==
    /\ setQueue \in Seq(SetTasks) /\ setStage \in [SetTasks -> {"new", "queued", "running", "done"}]
    /\ setResult \in [SetTasks -> ResultType \cup {"none"}]
    /\ setState \in [Compound -> StateType] /\ adding \subseteq AndSets \X Extras

\* A concurrent set ends only when all its children have ended, and a set that
\* ends without an exception has no child that raised one; a sequential set
\* starts a child only when those before it have ended well.  The loop of the
\* concurrent set walks over a list from which it removes (execute).
SetsAreConclusive ==
    /\ \A t \in AndSets : Ended(t) => \A kid \in KidSet(t) : Ended(kid)
    /\ \A t \in Compound : Ended(t) /\ ~Raised(t) => \A kid \in KidSet(t) : Ended(kid) /\ ~Raised(kid)
    /\ \A t \in SeqSets : \A k \in 2..Len(Kids[t]) :
          setStage[Kids[t][k]] # "new" => Ended(Kids[t][k - 1]) /\ ~Raised(Kids[t][k - 1])

\* A compound task ends once it has been started, nested ones too, if there are
\* enough workers (execute): no child ends unseen, none is waited for twice.
SetsEnd == \A t \in Compound : (setStage[t] = "queued") ~> Ended(t)
=============================================================================
