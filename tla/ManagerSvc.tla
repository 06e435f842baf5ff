------------------------------ MODULE ManagerSvc ------------------------------
(***************************************************************************)
(* The remote object manager (remoteObjectManagerSvc.py): the table of     *)
(* services of a host, the process object of each, the loop of the main    *)
(* thread that restarts what has died, and the calls of remote clients,    *)
(* each executed by a thread of its own.  A call holds the table's lock    *)
(* only for a look-up and the lock of a process object only for one        *)
(* operation on it, so one step here is one such locked section.  Except   *)
(* in the main thread: the handler of a signal runs in the middle of what  *)
(* that thread does, and the locks are reentrant, so check and stop are    *)
(* several steps there, during which the object stays locked for others.   *)
(***************************************************************************)
EXTENDS Naturals, FiniteSets

CONSTANTS Svc,          \* names of services
          Gens,         \* bound: how often a name may be registered
          Clients,      \* threads that execute the calls of clients
          MgrOps,       \* operations the clients use
          Watched,      \* services for which set_restart has been called before
          Refusing,     \* services whose process cannot be killed
          Threshold,    \* restart_threshold
          MaxCalls      \* bound on the calls of the clients

ASSUME MgrAssumption ==
    /\ Gens \in Nat \ {0} /\ Threshold \in Nat /\ MaxCalls \in Nat
    /\ Refusing \subseteq Svc /\ Watched \subseteq Svc /\ {"main", "handler"} \cap Clients = {}

VARIABLES table,      \* map: the generation of the object a name has, 0 if none
          last,       \* generations of each name that have been used
          po,         \* the process objects, in the map or not
          work,       \* what each thread is doing
          phase,      \* the main program: "loop", "finally" or "gone"
          evQuit,     \* ev_quit
          calls       \* calls so far

mgrVars == <<table, last, po, work, phase, evQuit, calls>>

Main == "main"
Handler == "handler"      \* the handler of SIGTERM and SIGHUP, in the main thread
Threads == Clients \cup {Main, Handler}

\* Operations on one name, and on every name there is when the call begins.
One == {"start", "stop", "restart", "remove", "set_restart"}
All == {"startall", "stopall", "restartall", "clear", "shutdown"}

FreshPo == [proc |-> "none", starts |-> 0, stops |-> 0, auto |-> FALSE, ripe |-> TRUE,
            manual |-> 0, wanted |-> FALSE, caught |-> FALSE]
NoWork == [op |-> "none", todo |-> {}, svc |-> "none", gen |-> 0, at |-> "idle"]
Names == {s \in Svc : table[s] # 0}
Doing(op, todo) == [op |-> op, todo |-> todo, svc |-> "none", gen |-> 0, at |-> "get"]
Free(t) == work[t].at = "idle"

\* BootManager has pushed the services, nothing has been started.
MgrInit ==
    /\ table = [s \in Svc |-> 1] /\ last = [s \in Svc |-> 1]
    /\ po = [s \in Svc |-> [g \in 1..Gens |-> [FreshPo EXCEPT !.auto = (g = 1 /\ s \in Watched)]]]
    /\ work = [t \in Threads |-> NoWork]
    /\ phase = "loop" /\ evQuit = FALSE /\ calls = 0
-----------------------------------------------------------------------------
(* Process objects: what one locked operation leaves behind.  Three fields  *)
(* are not in the code: "wanted" says whether the last manual operation was *)
(* a start, "caught" that it was the stop of a signal handler which has     *)
(* interrupted a check of this very object, and "manual" counts the         *)
(* processes started by hand.                                               *)

StartPo(p) ==
    IF p.proc = "running" THEN p
    ELSE [p EXCEPT !.proc = "running", !.starts = @ + 1, !.ripe = FALSE]

ManualStart(p) ==
    [StartPo(p) EXCEPT !.wanted = TRUE, !.caught = FALSE,
                       !.manual = @ + (StartPo(p).starts - p.starts)]

\* Mutant: self.proc is not cleared.
StopPo_KeepsProc(s, p) ==
    IF p.proc = "none" THEN [p EXCEPT !.wanted = FALSE, !.caught = FALSE]
    ELSE [p EXCEPT !.stops = @ + 1, !.wanted = FALSE, !.caught = FALSE,
                   !.proc = IF s \in Refusing THEN @ ELSE "dead"]

\* Mutant: a process that was stopped is kept in a state of its own.
StopPo_Suspends(s, p) ==
    IF p.proc = "none" THEN [p EXCEPT !.wanted = FALSE, !.caught = FALSE]
    ELSE [p EXCEPT !.stops = @ + 1, !.wanted = FALSE, !.caught = FALSE,
                   !.proc = IF s \in Refusing THEN @ ELSE "suspended"]

StopPo(s, p) ==
    IF p.proc = "none" THEN [p EXCEPT !.wanted = FALSE, !.caught = FALSE]
    ELSE [p EXCEPT !.stops = @ + 1, !.wanted = FALSE, !.caught = FALSE,
                   !.proc = IF s \in Refusing THEN @ ELSE "none"]

\* Mutants: no threshold; the interval is looked at the wrong way round.
Restartable_Always(p) == p.stops < p.starts /\ p.ripe
Restartable_Early(p) == p.stops < p.starts /\ p.starts - p.stops <= Threshold /\ ~p.ripe

\* check: a process that died is started again, unless it was stopped, has
\* been restarted too often or was started too short a time ago.
Restartable(p) == p.stops < p.starts /\ p.starts - p.stops <= Threshold /\ p.ripe
-----------------------------------------------------------------------------
(* Calls.                                                                   *)

Call(c) ==
    /\ c \in Clients /\ Free(c) /\ ~evQuit /\ calls < MaxCalls
    /\ calls' = calls + 1
    /\ \/ \E op \in One \cap MgrOps, s \in Svc : work' = [work EXCEPT ![c] = Doing(op, {s})]
       \/ \E op \in All \cap MgrOps : work' = [work EXCEPT ![c] = Doing(op, Names)]
    /\ UNCHANGED <<table, last, po, phase, evQuit>>

\* add_with_output: one locked section.  A name that is there keeps its object.
Add(c, s) ==
    /\ c \in Clients /\ "add" \in MgrOps /\ Free(c) /\ ~evQuit /\ calls < MaxCalls
    /\ calls' = calls + 1
    /\ \/ table[s] # 0 /\ UNCHANGED <<table, last>>
       \/ /\ table[s] = 0 /\ last[s] < Gens
          /\ last' = [last EXCEPT ![s] = @ + 1] /\ table' = [table EXCEPT ![s] = last[s] + 1]
    /\ UNCHANGED <<po, work, phase, evQuit>>

Quit(c) ==
    /\ c \in Clients /\ "quit" \in MgrOps /\ Free(c) /\ ~evQuit /\ calls < MaxCalls
    /\ calls' = calls + 1 /\ evQuit' = TRUE
    /\ UNCHANGED <<table, last, po, work, phase>>

\* A step of main waits while the signal handler runs in its thread.
MayRun(t) == t = Main => Free(Handler)

\* __get_po raises for a name that is not in the map; only remove goes on.
GetPo(t, s) ==
    /\ MayRun(t) /\ work[t].at = "get" /\ s \in work[t].todo
    /\ table[s] # 0
    /\ work' = [work EXCEPT ![t] = [@ EXCEPT !.svc = s, !.gen = table[s], !.at = "do"]]
    /\ UNCHANGED <<table, last, po, phase, evQuit, calls>>

\* The exception ends the call; in the main program it leads to the finally
\* clause, whose shutdown begins with the names there are now, or out of it.
Raise(t) ==
    /\ IF t \in {Main, Handler} /\ phase = "loop"
       THEN /\ phase' = "finally"
            /\ work' = [work EXCEPT ![Handler] = NoWork, ![Main] = Doing("shutdown", Names)]
       ELSE /\ phase' = IF t \in Clients THEN phase ELSE "gone"
            /\ work' = IF t \in Clients THEN [work EXCEPT ![t] = NoWork]
                       ELSE [work EXCEPT ![Handler] = NoWork, ![Main] = NoWork]
    /\ UNCHANGED <<table, last, po, evQuit, calls>>

NoPo(t, s) ==
    /\ MayRun(t) /\ work[t].at = "get" /\ s \in work[t].todo /\ table[s] = 0
    /\ IF work[t].op \in {"remove", "clear"}
       THEN /\ work' = [work EXCEPT ![t] = [@ EXCEPT !.svc = s, !.at = "del"]]
            /\ UNCHANGED <<table, last, po, phase, evQuit, calls>>
       ELSE Raise(t)

\* The call has dealt with service s.
After(t, s) ==
    LET rest == work[t].todo \ {s} IN
    IF rest # {} THEN [work[t] EXCEPT !.todo = rest, !.at = "get"] ELSE [work[t] EXCEPT !.todo = {}, !.at = "end"]

\* Where the main thread stands inside check, or inside stop, it holds the
\* lock of the object; the handler, in the same thread, gets the lock again.
Holds(s, g) ==
    /\ work[Main].at \in {"status", "judge", "start", "started", "kill"}
    /\ work[Main].svc = s /\ work[Main].gen = g
Checking(s, g) == Holds(s, g) /\ work[Main].at \in {"judge", "start"}

\* The operation of a client, or the handler's stop.
DoPo(t) ==
    /\ t # Main /\ work[t].at = "do"
    /\ LET op == work[t].op
           s == work[t].svc
           g == work[t].gen
           p == po[s][g]
       IN /\ op = "set_restart" \/ t = Handler \/ ~Holds(s, g)
          /\ po' = [po EXCEPT ![s][g] =
                      CASE op \in {"start", "startall"} -> ManualStart(p)
                        [] op = "set_restart" -> [p EXCEPT !.auto = TRUE]
                        [] OTHER -> [StopPo(s, p) EXCEPT !.caught = (t = Handler /\ Checking(s, g))]]
          /\ work' = [work EXCEPT ![t] =
                        CASE op = "restart" -> [@ EXCEPT !.op = "start"]
                          [] op \in {"remove", "clear"} -> [@ EXCEPT !.at = "del"]
                          [] OTHER -> After(t, s)]
    /\ UNCHANGED <<table, last, phase, evQuit, calls>>

\* The main thread at one place of an operation on the object it works on.
MainAt(where) == MayRun(Main) /\ work[Main].at = where
MainPo == po[work[Main].svc][work[Main].gen]
MainGoes(where) ==
    /\ work' = [work EXCEPT ![Main] =
                  IF where = "next" THEN After(Main, work[Main].svc) ELSE [@ EXCEPT !.at = where]]
    /\ UNCHANGED <<table, last, phase, evQuit, calls>>
MainSets(p) == po' = [po EXCEPT ![work[Main].svc][work[Main].gen] = p]

\* check of the loop: is there a process object, has its process ended, may it
\* be restarted, start, is it running.  The handler's stop may come between any
\* two of them, and when it has taken the process object, status() in check or
\* on either side of start is an AttributeError.
Check ==
    /\ work[Main].op = "check"
    /\ \/ MainAt("do") /\ MainGoes(IF MainPo.proc = "none" THEN "next" ELSE "status") /\ UNCHANGED po
       \/ (MainAt("status") \/ MainAt("start") \/ MainAt("started")) /\ MainPo.proc = "none" /\ Raise(Main)
       \/ /\ MainAt("status") /\ MainPo.proc # "none" /\ UNCHANGED po
          /\ MainGoes(IF MainPo.proc = "dead" /\ MainPo.auto THEN "judge" ELSE "next")
       \/ MainAt("judge") /\ MainGoes(IF Restartable(MainPo) THEN "start" ELSE "next") /\ UNCHANGED po
       \/ MainAt("start") /\ MainSets(StartPo(MainPo)) /\ MainGoes("started")
       \/ MainAt("started") /\ MainPo.proc # "none" /\ MainGoes("next") /\ UNCHANGED po

\* stop of the last shutdown.  When the handler's stop comes after the count,
\* signal() is an AttributeError, unless the process group had ended by then.
LastStop ==
    /\ work[Main].op = "shutdown"
    /\ \/ /\ MainAt("do") /\ MainPo.proc = "none"
          /\ MainSets(StopPo(work[Main].svc, MainPo)) /\ MainGoes("next")
       \/ /\ MainAt("do") /\ MainPo.proc # "none"
          /\ MainSets([MainPo EXCEPT !.stops = @ + 1]) /\ MainGoes("kill")
       \/ /\ MainAt("kill") /\ MainPo.proc # "none" /\ MainGoes("next")
          /\ MainSets([StopPo(work[Main].svc, MainPo) EXCEPT !.stops = MainPo.stops])
       \/ MainAt("kill") /\ MainPo.proc = "none" /\ (Raise(Main) \/ (MainGoes("next") /\ UNCHANGED po))

\* remove deletes the map entry whatever became of stop; del raises if
\* another remove was faster.
Del(t) ==
    /\ work[t].at = "del"
    /\ LET s == work[t].svc IN
       \/ /\ table[s] # 0
          /\ table' = [table EXCEPT ![s] = 0]
          /\ work' = [work EXCEPT ![t] = After(t, s)]
          /\ UNCHANGED <<last, po, phase, evQuit, calls>>
       \/ table[s] = 0 /\ Raise(t)

\* Mutant: the loop is entered again after the shutdown.
EndCall_Loops(t) ==
    /\ MayRun(t) /\ (work[t].at = "end" \/ (work[t].at = "get" /\ work[t].todo = {}))
    /\ work' = [work EXCEPT ![t] = IF work[t].op = "restartall" THEN Doing("startall", Names) ELSE NoWork]
    /\ evQuit' = (evQuit \/ work[t].op = "shutdown")
    /\ phase' = IF t = Main /\ phase = "finally" THEN "loop" ELSE phase
    /\ UNCHANGED <<table, last, po, calls>>

\* The list is empty, from the start or by now: restartall goes on with a
\* second list, shutdown sets ev_quit.
EndCall(t) ==
    /\ MayRun(t) /\ (work[t].at = "end" \/ (work[t].at = "get" /\ work[t].todo = {}))
    /\ work' = [work EXCEPT ![t] = IF work[t].op = "restartall" THEN Doing("startall", Names) ELSE NoWork]
    /\ evQuit' = (evQuit \/ work[t].op = "shutdown")
    /\ phase' = IF t = Main /\ phase = "finally" THEN "gone" ELSE phase
    /\ UNCHANGED <<table, last, po, calls>>
-----------------------------------------------------------------------------
(* The main program.                                                        *)

Pass ==
    /\ phase = "loop" /\ Free(Main) /\ Free(Handler) /\ ~evQuit
    /\ work' = [work EXCEPT ![Main] = Doing("check", Names)]
    /\ UNCHANGED <<table, last, po, phase, evQuit, calls>>

LoopEnds ==
    /\ phase = "loop" /\ Free(Main) /\ Free(Handler) /\ evQuit
    /\ phase' = "finally" /\ work' = [work EXCEPT ![Main] = Doing("shutdown", Names)]
    /\ UNCHANGED <<table, last, po, evQuit, calls>>

\* Bound: a signal comes after the handler of the one before has returned.
Sigterm ==
    /\ "sigterm" \in MgrOps /\ phase # "gone" /\ Free(Handler) /\ calls < MaxCalls
    /\ calls' = calls + 1
    /\ work' = [work EXCEPT ![Handler] = Doing("shutdown", Names)]
    /\ UNCHANGED <<table, last, po, phase, evQuit>>

\* A process dies; the restart interval after its start passes.
Dies(s, g) ==
    /\ po[s][g].proc = "running"
    /\ po' = [po EXCEPT ![s][g].proc = "dead"]
    /\ UNCHANGED <<table, last, work, phase, evQuit, calls>>

Ripens(s, g) ==
    /\ ~po[s][g].ripe
    /\ po' = [po EXCEPT ![s][g].ripe = TRUE]
    /\ UNCHANGED <<table, last, work, phase, evQuit, calls>>

Works(t) == (\E s \in Svc : GetPo(t, s) \/ NoPo(t, s)) \/ DoPo(t) \/ Del(t) \/ EndCall(t)
MainProgram == Pass \/ LoopEnds \/ Check \/ LastStop \/ Works(Main)

MgrNext ==
    \/ \E c \in Clients : Call(c) \/ Quit(c) \/ Works(c) \/ \E s \in Svc : Add(c, s)
    \/ MainProgram \/ Sigterm \/ Works(Handler)
    \/ \E s \in Svc, g \in 1..Gens : Dies(s, g) \/ Ripens(s, g)

MgrSpec == MgrInit /\ [][MgrNext]_mgrVars

\* The threads run; the restart interval passes.  Nothing makes a process die
\* or a client call.
MgrFairness ==
    /\ WF_mgrVars(MainProgram) /\ WF_mgrVars(Works(Handler))
    /\ \A c \in Clients : WF_mgrVars(Works(c))
    /\ \A s \in Svc, g \in 1..Gens : WF_mgrVars(Ripens(s, g))
-----------------------------------------------------------------------------
(* Properties.                                                              *)

PoType == [proc : {"none", "running", "dead"}, starts : Nat, stops : Nat, auto : BOOLEAN,
           ripe : BOOLEAN, manual : Nat, wanted : BOOLEAN, caught : BOOLEAN]
WorkType == [op : One \cup All \cup {"none", "check"}, todo : SUBSET Svc, svc : Svc \cup {"none"},
             gen : 0..Gens,
             at : {"idle", "get", "do", "status", "judge", "start", "started", "kill", "del", "end"}]

\* Types of the manager's state.
MgrTypeOK ==
    /\ table \in [Svc -> 0..Gens] /\ last \in [Svc -> 1..Gens]
    /\ po \in [Svc -> [1..Gens -> PoType]] /\ work \in [Threads -> WorkType]
    /\ phase \in {"loop", "finally", "gone"} /\ evQuit \in BOOLEAN /\ calls \in 0..MaxCalls

\* A service whose last manual operation was a stop does not run, whatever
\* the monitoring loop does meanwhile (check after stop).  With one exception:
\* the stop of a signal handler that has interrupted the check of the very
\* same object is undone by the rest of that check, because the lock does not
\* keep the handler out.  By then ev_quit is set.
StoppedStaysStopped ==
    \A s \in Svc \ Refusing, g \in 1..Gens :
        po[s][g].proc = "running" => po[s][g].wanted \/ (po[s][g].caught /\ evQuit)

\* A service that keeps dying is started by the loop at most Threshold times,
\* and once more for each stop (restart_threshold).
AutoRestartBudget ==
    \A s \in Svc, g \in 1..Gens :
        po[s][g].starts - po[s][g].manual <= Threshold + po[s][g].stops

\* While the loop runs, a service that has died and may be restarted is, or
\* it is stopped, removed or out of budget (check in ro_manager_loop).
DeadIsRestarted ==
    \A s \in Svc, g \in 1..Gens :
        LET p == po[s][g] IN
        (p.proc = "dead" /\ p.auto) ~>
            \/ p.proc # "dead" \/ p.stops >= p.starts \/ p.starts - p.stops > Threshold
            \/ table[s] # g \/ phase # "loop"

\* Once ev_quit is set the main program ends (shutdown in the finally clause).
QuitEndsManager == evQuit ~> phase = "gone"

\* "When we stop, everything we control stops!" (comment on the last call of
\* the main program).
StopsAllItControls ==
    (phase = "gone" /\ \A c \in Clients : Free(c)) =>
        \A s \in Svc \ Refusing : table[s] # 0 => po[s][table[s]].proc # "running"
=============================================================================
