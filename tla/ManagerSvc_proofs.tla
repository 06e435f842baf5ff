--------------------------- MODULE ManagerSvc_proofs ---------------------------
(***************************************************************************)
(* What holds of the remote object manager for every set of services, of   *)
(* client threads and of calls: the invariant speaks of one process object *)
(* at a time, since a call works on one under its lock, and of the object  *)
(* the main thread is checking when the signal handler interrupts it.      *)
(***************************************************************************)
EXTENDS ManagerSvc, TLAPS

\* A process object of service s, when ev_quit is q: a process exists only
\* after a start by hand, the loop has not started it more often than it may,
\* and there is none after a stop, unless a check was interrupted by it.
PoInv(s, p, q) ==
    /\ p \in PoType
    /\ p.proc # "none" => p.manual >= 1
    /\ p.starts - p.manual <= Threshold + p.stops
    /\ (s \notin Refusing /\ p.proc # "none") => p.wanted \/ (p.caught /\ q)

\* A thread that is about to work on an object knows which.
WorkInv(w) ==
    /\ w \in WorkType
    /\ w.at \in {"do", "del", "status", "judge", "start", "started", "kill"} => w.svc \in Svc
    /\ w.at \in {"do", "status", "judge", "start", "started", "kill"} => w.gen \in 1..Gens

\* The handler of a signal does nothing but a shutdown.
HandlerOk(w) == w.at = "idle" \/ w.op = "shutdown"

\* What check has found out of the object p it is at, w its thread: what it
\* needs to start it.  q says that a signal handler runs or has set ev_quit.
MainOk(w, p, q) ==
    w.at \in {"judge", "start"} =>
        /\ p.manual >= 1
        /\ w.svc \notin Refusing => p.wanted \/ (p.caught /\ q)
        /\ w.at = "start" => p.starts <= Threshold + p.stops

MgrInv ==
    /\ table \in [Svc -> 0..Gens] /\ last \in [Svc -> 1..Gens]
    /\ po \in [Svc -> [1..Gens -> PoType]]
    /\ \A s \in Svc, g \in 1..Gens : PoInv(s, po[s][g], evQuit)
    /\ work \in [Threads -> WorkType] /\ \A t \in Threads : WorkInv(work[t])
    /\ HandlerOk(work[Handler]) /\ MainOk(work[Main], MainPo, evQuit \/ ~Free(Handler))
    /\ phase \in {"loop", "finally", "gone"} /\ evQuit \in BOOLEAN /\ calls \in 0..MaxCalls
-----------------------------------------------------------------------------
(* Process objects.                                                         *)

\* What one operation changes in the record of an object.
LEMMA PoUpdates ==
    ASSUME NEW p \in PoType, NEW n \in Nat, NEW b \in BOOLEAN, NEW c \in {"none", "running", "dead"}
    PROVE  /\ [p EXCEPT !.proc = c] \in PoType /\ [p EXCEPT !.auto = b] \in PoType
           /\ [p EXCEPT !.ripe = b] \in PoType /\ [p EXCEPT !.wanted = b] \in PoType
           /\ [p EXCEPT !.proc = c, !.starts = n, !.ripe = FALSE] \in PoType
           /\ [p EXCEPT !.wanted = TRUE, !.caught = FALSE, !.manual = n] \in PoType
           /\ [p EXCEPT !.wanted = FALSE, !.caught = FALSE] \in PoType
           /\ [p EXCEPT !.stops = n, !.wanted = FALSE, !.caught = FALSE, !.proc = c] \in PoType
           /\ [p EXCEPT !.caught = b] \in PoType /\ [p EXCEPT !.stops = n] \in PoType
<1>1. [p EXCEPT !.proc = c] \in PoType /\ [p EXCEPT !.auto = b] \in PoType
  BY DEF PoType
<1>2. [p EXCEPT !.ripe = b] \in PoType /\ [p EXCEPT !.wanted = b] \in PoType
  BY DEF PoType
<1>3. [p EXCEPT !.proc = c, !.starts = n, !.ripe = FALSE] \in PoType
  BY DEF PoType
<1>4. [p EXCEPT !.wanted = TRUE, !.caught = FALSE, !.manual = n] \in PoType
  BY DEF PoType
<1>5. [p EXCEPT !.wanted = FALSE, !.caught = FALSE] \in PoType
  BY DEF PoType
<1>6. [p EXCEPT !.stops = n, !.wanted = FALSE, !.caught = FALSE, !.proc = c] \in PoType
  BY DEF PoType
<1>7. [p EXCEPT !.caught = b] \in PoType /\ [p EXCEPT !.stops = n] \in PoType
  BY DEF PoType
<1> QED BY <1>1, <1>2, <1>3, <1>4, <1>5, <1>6, <1>7

\* processObj.start creates a process unless one is running.
LEMMA StartPoFacts ==
    ASSUME NEW p \in PoType
    PROVE  LET q == StartPo(p) IN
           /\ q \in PoType /\ q.proc = "running" /\ q.stops = p.stops
           /\ q.manual = p.manual /\ q.wanted = p.wanted /\ q.caught = p.caught
           /\ q.starts = IF p.proc = "running" THEN p.starts ELSE p.starts + 1
<1>1. CASE p.proc = "running"
  BY <1>1 DEF StartPo
<1>2. CASE p.proc # "running"
  <2>1. PICK q : q = [p EXCEPT !.proc = "running", !.starts = p.starts + 1, !.ripe = FALSE]
    OBVIOUS
  <2>2. StartPo(p) = q
    BY <1>2, <2>1 DEF StartPo
  <2>3. p.starts + 1 \in Nat
    BY DEF PoType
  <2>4. q \in PoType
    BY <2>1, <2>3, PoUpdates
  <2>5. q.proc = "running" /\ q.starts = p.starts + 1
    BY <2>1 DEF PoType
  <2>6. q.stops = p.stops /\ q.manual = p.manual /\ q.wanted = p.wanted /\ q.caught = p.caught
    BY <2>1 DEF PoType
  <2> QED BY <1>2, <2>2, <2>4, <2>5, <2>6
<1> QED BY <1>1, <1>2

\* processObj.start by hand keeps the accounts of the object, and so does the
\* start of check, wherever the handler has come in between.
LEMMA StartKeepsPo ==
    ASSUME NEW s \in Svc, NEW p, NEW e \in BOOLEAN, PoInv(s, p, e)
    PROVE  /\ PoInv(s, ManualStart(p), e)
           /\ (p.manual >= 1 /\ p.starts <= Threshold + p.stops
               /\ (s \notin Refusing => p.wanted \/ (p.caught /\ e))) => PoInv(s, StartPo(p), e)
<1>1. Threshold \in Nat /\ p \in PoType
  BY MgrAssumption DEF PoInv
<1>2. p.starts \in Nat /\ p.stops \in Nat /\ p.manual \in Nat
  BY <1>1 DEF PoType
<1>3. PICK q : q = StartPo(p)
  OBVIOUS
<1>4. /\ q \in PoType /\ q.proc = "running" /\ q.stops = p.stops
      /\ q.manual = p.manual /\ q.wanted = p.wanted /\ q.caught = p.caught
      /\ q.starts = IF p.proc = "running" THEN p.starts ELSE p.starts + 1
  BY <1>1, <1>3, StartPoFacts
<1>5. PoInv(s, ManualStart(p), e)
  <2>1. PICK m : m = p.manual + (q.starts - p.starts)
    OBVIOUS
  <2>2. PICK r : r = [q EXCEPT !.wanted = TRUE, !.caught = FALSE, !.manual = m]
    OBVIOUS
  <2>3. ManualStart(p) = r
    <3>1. [StartPo(p) EXCEPT !.wanted = TRUE, !.caught = FALSE,
                             !.manual = @ + (StartPo(p).starts - p.starts)]
          = [q EXCEPT !.wanted = TRUE, !.caught = FALSE, !.manual = q.manual + (q.starts - p.starts)]
      BY <1>3
    <3> QED BY <1>4, <2>1, <2>2, <3>1 DEF ManualStart
  <2>4. m \in Nat /\ q.starts - m = p.starts - p.manual /\ (p.proc # "running" => m >= 1)
        /\ (p.proc = "running" => m = p.manual)
    BY <1>2, <1>4, <2>1
  <2>5. r \in PoType
    BY <1>4, <2>2, <2>4, PoUpdates
  <2>6. r.proc = "running" /\ r.starts = q.starts /\ r.stops = q.stops /\ r.manual = m /\ r.wanted = TRUE
    BY <1>4, <2>2 DEF PoType
  <2>7. m >= 1
    BY <2>4 DEF PoInv
  <2>8. r.starts - r.manual <= Threshold + r.stops
    BY <1>4, <2>4, <2>6 DEF PoInv
  <2> QED BY <2>3, <2>5, <2>6, <2>7, <2>8 DEF PoInv
<1>6. ASSUME p.manual >= 1, p.starts <= Threshold + p.stops, s \notin Refusing => p.wanted \/ (p.caught /\ e)
      PROVE  PoInv(s, StartPo(p), e)
  <2>1. q.starts - q.manual <= Threshold + q.stops
    BY <1>1, <1>2, <1>4, <1>6
  <2> QED BY <1>3, <1>4, <1>6, <2>1 DEF PoInv
<1> QED BY <1>5, <1>6

\* processObj.stop leaves no process of a service that can be killed; whether
\* it has interrupted a check is not looked at again before the next start.
LEMMA StopKeepsPo ==
    ASSUME NEW s \in Svc, NEW p, NEW e \in BOOLEAN, NEW b \in BOOLEAN, PoInv(s, p, e)
    PROVE  LET r == [StopPo(s, p) EXCEPT !.caught = b] IN
           /\ PoInv(s, r, e) /\ PoInv(s, StopPo(s, p), e) /\ r.caught = b
           /\ r.manual = p.manual /\ r.starts = p.starts /\ r.stops >= p.stops
<1>1. Threshold \in Nat /\ p \in PoType
  BY MgrAssumption DEF PoInv
<1>2. p.starts \in Nat /\ p.stops \in Nat /\ p.manual \in Nat /\ p.proc \in {"none", "running", "dead"}
  BY <1>1 DEF PoType
<1>3. PICK r : r = StopPo(s, p)
  OBVIOUS
<1>4. /\ r \in PoType /\ (s \notin Refusing => r.proc = "none") /\ (r.proc # "none" => p.proc # "none")
      /\ r.manual = p.manual /\ r.starts = p.starts /\ (r.stops = p.stops \/ r.stops = p.stops + 1)
  <2>1. CASE p.proc = "none"
    <3>1. r = [p EXCEPT !.wanted = FALSE, !.caught = FALSE]
      BY <1>3, <2>1 DEF StopPo
    <3>2. r \in PoType
      BY <1>1, <3>1, PoUpdates
    <3>3. r.proc = p.proc /\ r.starts = p.starts /\ r.stops = p.stops /\ r.manual = p.manual
      BY <1>1, <3>1 DEF PoType
    <3> QED BY <2>1, <3>2, <3>3
  <2>2. CASE p.proc # "none"
    <3>1. PICK n : n = p.stops + 1
      OBVIOUS
    <3>2. PICK c : c = IF s \in Refusing THEN p.proc ELSE "none"
      OBVIOUS
    <3>3. r = [p EXCEPT !.stops = n, !.wanted = FALSE, !.caught = FALSE, !.proc = c]
      <4>1. StopPo(s, p) = [p EXCEPT !.stops = p.stops + 1, !.wanted = FALSE, !.caught = FALSE,
                                     !.proc = IF s \in Refusing THEN p.proc ELSE "none"]
        BY <2>2 DEF StopPo
      <4> QED BY <1>3, <3>1, <3>2, <4>1
    <3>4. n \in Nat /\ c \in {"none", "running", "dead"}
      BY <1>2, <3>1, <3>2
    <3>5. r \in PoType
      BY <1>1, <3>3, <3>4, PoUpdates
    <3>6. r.proc = c /\ r.starts = p.starts /\ r.stops = n /\ r.manual = p.manual
      BY <1>1, <3>3 DEF PoType
    <3> QED BY <2>2, <3>1, <3>2, <3>5, <3>6
  <2> QED BY <2>1, <2>2
<1>5. PICK x : x = [r EXCEPT !.caught = b]
  OBVIOUS
<1>6. x \in PoType
  BY <1>4, <1>5, PoUpdates
<1>7. /\ x.proc = r.proc /\ x.manual = r.manual /\ x.starts = r.starts /\ x.stops = r.stops
      /\ x.caught = b
  BY <1>4, <1>5 DEF PoType
<1>8. r.starts - r.manual <= Threshold + r.stops /\ (r.proc # "none" => r.manual >= 1) /\ r.stops >= p.stops
  BY <1>1, <1>2, <1>4 DEF PoInv
<1>9. PoInv(s, r, e) /\ PoInv(s, x, e)
  BY <1>4, <1>6, <1>7, <1>8 DEF PoInv
<1> QED BY <1>3, <1>4, <1>5, <1>7, <1>8, <1>9

\* set_restart, the end of a process, the end of an interval and the count of
\* a stop change nothing else of the account.
LEMMA MarkKeepsPo ==
    ASSUME NEW s \in Svc, NEW p, NEW e \in BOOLEAN, PoInv(s, p, e), NEW r,
           \/ r = [p EXCEPT !.auto = TRUE] \/ r = [p EXCEPT !.ripe = TRUE]
           \/ r = [p EXCEPT !.stops = p.stops + 1]
           \/ r = [p EXCEPT !.proc = "dead"] /\ p.proc = "running"
    PROVE  /\ PoInv(s, r, e) /\ r.manual = p.manual /\ r.starts = p.starts /\ r.stops >= p.stops
           /\ r.wanted = p.wanted /\ r.caught = p.caught
<1>1. p \in PoType /\ p.stops \in Nat /\ p.starts \in Nat /\ p.manual \in Nat /\ Threshold \in Nat
  BY MgrAssumption DEF PoInv, PoType
<1>2. r \in PoType
  <2>1. p.stops + 1 \in Nat
    BY <1>1
  <2> QED BY <1>1, <2>1, PoUpdates
<1>3. /\ r.manual = p.manual /\ r.starts = p.starts /\ r.wanted = p.wanted /\ r.caught = p.caught
      /\ (r.proc # "none" => p.proc # "none")
  BY <1>1 DEF PoType
<1>4. r.stops = p.stops \/ r.stops = p.stops + 1
  BY <1>1 DEF PoType
<1>5. r.starts - r.manual <= Threshold + r.stops /\ r.stops >= p.stops
  BY <1>1, <1>3, <1>4 DEF PoInv
<1> QED BY <1>2, <1>3, <1>5 DEF PoInv
-----------------------------------------------------------------------------
(* Threads.                                                                 *)

\* The states of a thread that begins, has ended or goes on with a call.
LEMMA ThreadStates ==
    /\ WorkInv(NoWork)
    /\ \A op \in One \cup All \cup {"check"}, todo \in SUBSET Svc : WorkInv(Doing(op, todo))
    /\ Names \in SUBSET Svc
<1>1. Gens \in Nat
  BY MgrAssumption
<1>2. NoWork \in WorkType /\ NoWork.at = "idle"
  BY <1>1 DEF WorkType, NoWork
<1>3. ASSUME NEW op \in One \cup All \cup {"check"}, NEW todo \in SUBSET Svc
      PROVE  Doing(op, todo) \in WorkType /\ Doing(op, todo).at = "get"
  BY <1>1 DEF WorkType, Doing
<1>4. Names \in SUBSET Svc
  BY DEF Names
<1> QED BY <1>2, <1>3, <1>4 DEF WorkInv

\* What the steps of a call change in the record of its thread.
LEMMA WorkUpdates ==
    ASSUME NEW w \in WorkType, NEW rest \in SUBSET Svc,
           NEW a \in {"idle", "get", "do", "status", "judge", "start", "started", "kill", "del", "end"}
    PROVE  /\ [w EXCEPT !.todo = rest, !.at = a] \in WorkType
           /\ [w EXCEPT !.at = a] \in WorkType /\ [w EXCEPT !.op = "start"] \in WorkType
<1>1. [w EXCEPT !.todo = rest, !.at = a] \in WorkType
  BY DEF WorkType
<1>2. [w EXCEPT !.at = a] \in WorkType
  BY DEF WorkType
<1>3. [w EXCEPT !.op = "start"] \in WorkType
  BY DEF WorkType, One
<1> QED BY <1>1, <1>2, <1>3

\* A thread has found, or not found, the object of service s.
LEMMA LookUpUpdates ==
    ASSUME NEW w \in WorkType, NEW s \in Svc, NEW g \in 1..Gens
    PROVE  /\ WorkInv([w EXCEPT !.svc = s, !.gen = g, !.at = "do"])
           /\ WorkInv([w EXCEPT !.svc = s, !.at = "del"])
<1>1. g \in 0..Gens
  OBVIOUS
<1>2. PICK r : r = [w EXCEPT !.svc = s, !.gen = g, !.at = "do"]
  OBVIOUS
<1>3. r \in WorkType /\ r.svc = s /\ r.gen = g
  BY <1>1, <1>2 DEF WorkType
<1>4. PICK q : q = [w EXCEPT !.svc = s, !.at = "del"]
  OBVIOUS
<1>5. q \in WorkType /\ q.svc = s /\ q.at = "del"
  BY <1>4 DEF WorkType
<1> QED BY <1>2, <1>3, <1>4, <1>5 DEF WorkInv

\* The next service of a call.
LEMMA AfterState ==
    ASSUME NEW t \in Threads, NEW s \in Svc, WorkInv(work[t])
    PROVE  /\ WorkInv(After(t, s)) /\ After(t, s).at \in {"get", "end"}
           /\ After(t, s).op = work[t].op
<1> DEFINE v == work[t]
           rest == v.todo \ {s}
<1>1. v \in WorkType
  BY DEF WorkInv
<1>2. rest \in SUBSET Svc
  BY <1>1 DEF WorkType
<1>3. PICK w : w = After(t, s)
  OBVIOUS
<1>4. w = [v EXCEPT !.todo = rest, !.at = "get"] \/ w = [v EXCEPT !.todo = {}, !.at = "end"]
  BY <1>3 DEF After
<1> HIDE DEF v, rest
<1>5. w \in WorkType
  <2>1. [v EXCEPT !.todo = rest, !.at = "get"] \in WorkType
    BY <1>1, <1>2, WorkUpdates
  <2>2. [v EXCEPT !.todo = {}, !.at = "end"] \in WorkType
    BY <1>1, WorkUpdates
  <2> QED BY <1>4, <2>1, <2>2
<1>6. w.at \in {"get", "end"} /\ w.op = v.op
  BY <1>1, <1>4 DEF WorkType
<1> QED BY <1>3, <1>5, <1>6 DEF WorkInv, v

\* The threads of the main program are two of the threads.
LEMMA TheMainThreads ==
    /\ Main \in Threads /\ Handler \in Threads /\ Main # Handler
    /\ \A c \in Clients : c \in Threads /\ c # Main /\ c # Handler
BY MgrAssumption DEF Threads, Main, Handler

\* A step that changes the state of one thread.  Main may not arrive at a
\* place where check has found something out by it.
LEMMA ThreadStep ==
    ASSUME MgrInv, NEW t \in Threads, NEW w, WorkInv(w), work' = [work EXCEPT ![t] = w],
           UNCHANGED <<table, last, po, phase>>, evQuit' \in BOOLEAN, calls' \in 0..MaxCalls,
           evQuit => evQuit', t = Main => w.at \notin {"judge", "start"},
           t = Handler => HandlerOk(w) /\ (w.at = "idle" => evQuit')
    PROVE  MgrInv'
<1>1. w \in WorkType
  BY DEF WorkInv
<1>2. work' \in [Threads -> WorkType] /\ \A u \in Threads : WorkInv(work'[u])
  BY <1>1 DEF MgrInv
<1>3. \A s \in Svc, g \in 1..Gens : PoInv(s, po'[s][g], evQuit')
  BY DEF MgrInv, PoInv
<1>4. HandlerOk(work'[Handler])
  BY TheMainThreads DEF MgrInv
<1>5. MainOk(work'[Main], po'[work'[Main].svc][work'[Main].gen], evQuit' \/ work'[Handler].at # "idle")
  <2>1. CASE t = Main
    BY <2>1, TheMainThreads DEF MgrInv, MainOk
  <2>2. CASE t # Main
    <3>1. work'[Main] = work[Main]
      BY <2>2, TheMainThreads DEF MgrInv
    <3>2. (evQuit \/ ~Free(Handler)) => (evQuit' \/ work'[Handler].at # "idle")
      BY TheMainThreads DEF MgrInv, Free
    <3> QED BY <3>1, <3>2 DEF MgrInv, MainOk, MainPo
  <2> QED BY <2>1, <2>2
<1> QED BY <1>2, <1>3, <1>4, <1>5 DEF MgrInv, MainPo, Free

\* A step that changes one object, and the state of one thread or none.
LEMMA ObjectStep ==
    ASSUME MgrInv, NEW s \in Svc, NEW g \in 1..Gens, NEW q, PoInv(s, q, evQuit),
           po' = [po EXCEPT ![s][g] = q], UNCHANGED <<table, last, phase, evQuit, calls>>,
           work' \in [Threads -> WorkType], \A u \in Threads : WorkInv(work'[u]),
           HandlerOk(work'[Handler]),
           MainOk(work'[Main], po'[work'[Main].svc][work'[Main].gen], evQuit \/ work'[Handler].at # "idle")
    PROVE  MgrInv'
<1>1. q \in PoType
  BY DEF PoInv
<1>2. po' \in [Svc -> [1..Gens -> PoType]]
  BY <1>1 DEF MgrInv
<1>3. \A u \in Svc, h \in 1..Gens : PoInv(u, po'[u][h], evQuit')
  <2> SUFFICES ASSUME NEW u \in Svc, NEW h \in 1..Gens PROVE PoInv(u, po'[u][h], evQuit)
    OBVIOUS
  <2>1. po'[u][h] = IF u = s /\ h = g THEN q ELSE po[u][h]
    BY DEF MgrInv
  <2> QED BY <2>1 DEF MgrInv
<1> QED BY <1>2, <1>3 DEF MgrInv, MainPo, Free
-----------------------------------------------------------------------------
\* The manager begins with the invariant.
LEMMA InitInv == MgrInit => MgrInv
<1> SUFFICES ASSUME MgrInit PROVE MgrInv
  OBVIOUS
<1>1. Gens \in Nat \ {0} /\ Threshold \in Nat /\ MaxCalls \in Nat
  BY MgrAssumption
<1>2. \A s \in Svc, b \in BOOLEAN : PoInv(s, [FreshPo EXCEPT !.auto = b], FALSE)
  <2> SUFFICES ASSUME NEW s \in Svc, NEW b \in BOOLEAN PROVE PoInv(s, [FreshPo EXCEPT !.auto = b], FALSE)
    OBVIOUS
  <2>1. PICK r : r = [FreshPo EXCEPT !.auto = b]
    OBVIOUS
  <2>2. FreshPo \in PoType
    BY DEF FreshPo, PoType
  <2>3. r \in PoType
    BY <2>1, <2>2, PoUpdates
  <2>4. r.proc = "none" /\ r.starts = 0 /\ r.stops = 0 /\ r.manual = 0
    BY <2>1 DEF FreshPo
  <2> QED BY <1>1, <2>1, <2>3, <2>4 DEF PoInv
<1>3. \A s \in Svc, g \in 1..Gens : PoInv(s, po[s][g], FALSE) /\ po[s][g] \in PoType
  BY <1>2 DEF MgrInit, PoInv
<1>4. po \in [Svc -> [1..Gens -> PoType]]
  BY <1>3 DEF MgrInit
<1>5. work \in [Threads -> WorkType] /\ \A t \in Threads : WorkInv(work[t])
  BY ThreadStates DEF MgrInit, WorkInv
<1>6. table \in [Svc -> 0..Gens] /\ last \in [Svc -> 1..Gens] /\ calls \in 0..MaxCalls
  BY <1>1 DEF MgrInit
<1>7. HandlerOk(work[Handler]) /\ MainOk(work[Main], MainPo, evQuit \/ ~Free(Handler))
  BY TheMainThreads DEF MgrInit, NoWork, HandlerOk, MainOk
<1> QED BY <1>3, <1>4, <1>5, <1>6, <1>7 DEF MgrInit, MgrInv

\* A call of a client begins: one thread gets work.
LEMMA CallInv == ASSUME MgrInv, NEW c \in Clients, Call(c) PROVE MgrInv'
<1>1. calls' \in 0..MaxCalls /\ evQuit' \in BOOLEAN /\ c \in Threads /\ c # Main /\ c # Handler
  BY MgrAssumption, TheMainThreads DEF MgrInv, Call
<1>2. PICK op \in One \cup All, todo \in SUBSET Svc : work' = [work EXCEPT ![c] = Doing(op, todo)]
  BY ThreadStates DEF Call
<1>3. WorkInv(Doing(op, todo))
  BY ThreadStates
<1> QED BY <1>1, <1>2, <1>3, ThreadStep DEF Call

\* add and quit touch neither objects nor threads.
LEMMA AddQuitInv == ASSUME MgrInv, NEW c, Quit(c) \/ \E s \in Svc : Add(c, s) PROVE MgrInv'
<1>1. Gens \in Nat /\ MaxCalls \in Nat
  BY MgrAssumption
<1>2. CASE Quit(c)
  <2>1. evQuit' = TRUE /\ calls' \in 0..MaxCalls /\ UNCHANGED <<table, last, po, work, phase>>
    BY <1>1, <1>2 DEF MgrInv, Quit
  <2>2. \A s \in Svc, g \in 1..Gens : PoInv(s, po[s][g], TRUE)
    BY DEF MgrInv, PoInv
  <2>3. MainOk(work[Main], MainPo, TRUE)
    BY DEF MgrInv, MainOk
  <2> QED BY <2>1, <2>2, <2>3 DEF MgrInv, MainPo, Free
<1>3. ASSUME NEW s \in Svc, Add(c, s) PROVE MgrInv'
  <2>1. calls' \in 0..MaxCalls
    BY <1>1, <1>3 DEF MgrInv, Add
  <2>2. last[s] \in 1..Gens
    BY DEF MgrInv
  <2>3. PICK n : n = last[s] + 1
    OBVIOUS
  <2>4. CASE table' = [table EXCEPT ![s] = n] /\ last' = [last EXCEPT ![s] = n] /\ last[s] < Gens
    <3>1. n \in 0..Gens /\ n \in 1..Gens
      BY <1>1, <2>2, <2>3, <2>4
    <3>2. table' \in [Svc -> 0..Gens] /\ last' \in [Svc -> 1..Gens]
      BY <2>4, <3>1 DEF MgrInv
    <3> QED BY <1>3, <2>1, <3>2 DEF MgrInv, Add, MainPo, Free
  <2>5. CASE UNCHANGED <<table, last>>
    BY <1>3, <2>1, <2>5 DEF MgrInv, Add, MainPo, Free
  <2> QED BY <1>3, <2>3, <2>4, <2>5 DEF Add
<1> QED BY <1>2, <1>3

\* An exception ends the call, or the main loop.
LEMMA RaiseInv == ASSUME MgrInv, NEW t \in Threads, Raise(t) PROVE MgrInv'
<1>1. WorkInv(NoWork) /\ WorkInv(Doing("shutdown", Names))
  BY ThreadStates DEF All
<1>2. NoWork \in WorkType /\ Doing("shutdown", Names) \in WorkType
  BY <1>1 DEF WorkInv
<1>3. work' \in [Threads -> WorkType] /\ \A u \in Threads : WorkInv(work'[u])
  BY <1>1, <1>2, TheMainThreads DEF Raise, MgrInv
<1>4. phase' \in {"loop", "finally", "gone"}
  BY DEF Raise, MgrInv
<1>5. HandlerOk(work'[Handler])
  BY TheMainThreads DEF Raise, MgrInv, HandlerOk, NoWork
<1>6. MainOk(work'[Main], po'[work'[Main].svc][work'[Main].gen], evQuit' \/ work'[Handler].at # "idle")
  <2>1. CASE t \in Clients
    <3>1. work'[Main] = work[Main] /\ work'[Handler] = work[Handler] /\ UNCHANGED <<po, evQuit>>
      BY <2>1, TheMainThreads DEF Raise, MgrInv
    <3> QED BY <3>1 DEF MgrInv, MainOk, MainPo, Free
  <2>2. CASE t \notin Clients
    <3>1. t \in {Main, Handler}
      BY <2>2 DEF Threads
    <3>2. work'[Main].at \in {"idle", "get"}
      BY <2>2, <3>1, TheMainThreads DEF Raise, MgrInv, Doing, NoWork
    <3> QED BY <3>2 DEF MainOk
  <2> QED BY <2>1, <2>2
<1> QED BY <1>3, <1>4, <1>5, <1>6 DEF Raise, MgrInv, MainPo, Free

\* __get_po finds the object, or there is none.
LEMMA GetPoInv == ASSUME MgrInv, NEW t \in Threads, NEW s \in Svc, GetPo(t, s) \/ NoPo(t, s) PROVE MgrInv'
<1>1. evQuit \in BOOLEAN /\ calls \in 0..MaxCalls /\ WorkInv(work[t])
  BY DEF MgrInv
<1>2. CASE GetPo(t, s)
  <2>1. table[s] \in 1..Gens
    BY <1>2, MgrAssumption DEF GetPo, MgrInv
  <2>2. PICK w : w = [work[t] EXCEPT !.svc = s, !.gen = table[s], !.at = "do"]
    OBVIOUS
  <2>3. WorkInv(w) /\ w.at = "do" /\ w.op = work[t].op
    BY <1>1, <2>1, <2>2, LookUpUpdates DEF WorkInv, WorkType
  <2>4. work' = [work EXCEPT ![t] = w]
    BY <1>2, <2>2 DEF GetPo
  <2>5. t = Handler => HandlerOk(w)
    BY <1>2, <2>3 DEF MgrInv, HandlerOk, GetPo
  <2> QED BY <1>1, <1>2, <2>3, <2>4, <2>5, ThreadStep DEF GetPo
<1>3. CASE NoPo(t, s) /\ work[t].op \in {"remove", "clear"}
  <2>1. PICK w : w = [work[t] EXCEPT !.svc = s, !.at = "del"]
    OBVIOUS
  <2>2. 1 \in 1..Gens
    BY MgrAssumption
  <2>3. WorkInv(w) /\ w.at = "del" /\ w.op = work[t].op
    BY <1>1, <2>1, <2>2, LookUpUpdates DEF WorkInv, WorkType
  <2>4. work' = [work EXCEPT ![t] = w]
    BY <1>3, <2>1 DEF NoPo
  <2>5. t = Handler => HandlerOk(w)
    BY <1>3, <2>3 DEF MgrInv, HandlerOk, NoPo
  <2> QED BY <1>1, <1>3, <2>3, <2>4, <2>5, ThreadStep DEF NoPo
<1>4. CASE NoPo(t, s) /\ work[t].op \notin {"remove", "clear"}
  BY <1>4, RaiseInv DEF NoPo
<1> QED BY <1>2, <1>3, <1>4

\* Main stands inside an operation on another object, or not in check.
LEMMA OtherObject ==
    ASSUME MgrInv, NEW t \in Threads, NEW w, NEW s \in Svc, NEW g \in 1..Gens, NEW q,
           t # Main, work' = [work EXCEPT ![t] = w], po' = [po EXCEPT ![s][g] = q],
           t = Handler => w.at # "idle",
           MainOk(work[Main], MainPo, evQuit \/ ~Free(Handler)) =>
               (Holds(s, g) => MainOk(work[Main], q, evQuit \/ work'[Handler].at # "idle"))
    PROVE  MainOk(work'[Main], po'[work'[Main].svc][work'[Main].gen], evQuit \/ work'[Handler].at # "idle")
<1>1. work'[Main] = work[Main] /\ ((evQuit \/ ~Free(Handler)) => (evQuit \/ work'[Handler].at # "idle"))
  BY TheMainThreads DEF MgrInv, Free
<1>2. SUFFICES ASSUME work[Main].at \in {"judge", "start"}
      PROVE  MainOk(work[Main], po'[work[Main].svc][work[Main].gen], evQuit \/ work'[Handler].at # "idle")
  BY <1>1 DEF MainOk
<1>3. WorkInv(work[Main])
  BY TheMainThreads DEF MgrInv
<1>4. work[Main].svc \in Svc /\ work[Main].gen \in 1..Gens
  BY <1>2, <1>3 DEF WorkInv
<1>5. CASE Holds(s, g)
  <2>1. po'[work[Main].svc][work[Main].gen] = q
    BY <1>5 DEF Holds, MgrInv
  <2> QED BY <1>5, <2>1 DEF MgrInv
<1>6. CASE ~Holds(s, g)
  <2>1. po'[work[Main].svc][work[Main].gen] = MainPo
    BY <1>2, <1>4, <1>6 DEF Holds, MgrInv, MainPo
  <2>2. MainOk(work[Main], MainPo, evQuit \/ ~Free(Handler))
    BY DEF MgrInv
  <2> QED BY <1>1, <2>1, <2>2 DEF MainOk
<1> QED BY <1>5, <1>6

\* One locked operation of a client, or the handler's stop.
LEMMA DoPoInv == ASSUME MgrInv, NEW t \in Threads, DoPo(t) PROVE MgrInv'
<1>1. PICK op, s, g, p : op = work[t].op /\ s = work[t].svc /\ g = work[t].gen /\ p = po[s][g]
  OBVIOUS
<1>2. PICK b : b = (t = Handler /\ Checking(s, g))
  OBVIOUS
<1>3. PICK q : q = CASE op \in {"start", "startall"} -> ManualStart(p)
                     [] op = "set_restart" -> [p EXCEPT !.auto = TRUE]
                     [] OTHER -> [StopPo(s, p) EXCEPT !.caught = b]
  OBVIOUS
<1>4. PICK w : w = CASE op = "restart" -> [work[t] EXCEPT !.op = "start"]
                     [] op \in {"remove", "clear"} -> [work[t] EXCEPT !.at = "del"]
                     [] OTHER -> After(t, s)
  OBVIOUS
<1>5. /\ t # Main /\ work[t].at = "do" /\ (op = "set_restart" \/ t = Handler \/ ~Holds(s, g))
      /\ po' = [po EXCEPT ![s][g] = q] /\ work' = [work EXCEPT ![t] = w]
      /\ UNCHANGED <<table, last, phase, evQuit, calls>>
  BY <1>1, <1>2, <1>3, <1>4 DEF DoPo
<1>6. WorkInv(work[t]) /\ s \in Svc /\ g \in 1..Gens /\ b \in BOOLEAN /\ evQuit \in BOOLEAN
  BY <1>1, <1>2, <1>5 DEF MgrInv, WorkInv
<1>7. PoInv(s, p, evQuit) /\ p \in PoType
  BY <1>1, <1>6 DEF MgrInv, PoInv
<1>8. PoInv(s, q, evQuit)
  BY <1>3, <1>6, <1>7, StartKeepsPo, StopKeepsPo, MarkKeepsPo
<1>9. WorkInv(w) /\ w \in WorkType
  <2>1. WorkInv(After(t, s))
    BY <1>6, AfterState
  <2>2. WorkInv([work[t] EXCEPT !.op = "start"])
    BY <1>6 DEF WorkInv, WorkType, One
  <2>3. WorkInv([work[t] EXCEPT !.at = "del"])
    BY <1>1, <1>6 DEF WorkInv, WorkType
  <2> QED BY <1>4, <2>1, <2>2, <2>3 DEF WorkInv
<1>10. t = Handler => op = "shutdown" /\ HandlerOk(w) /\ w.at # "idle"
  <2> SUFFICES ASSUME t = Handler PROVE op = "shutdown" /\ HandlerOk(w) /\ w.at # "idle"
    OBVIOUS
  <2>1. op = "shutdown"
    BY <1>1, <1>5 DEF MgrInv, HandlerOk
  <2>2. w = After(t, s)
    BY <1>4, <2>1
  <2> QED BY <1>1, <1>6, <2>1, <2>2, AfterState DEF HandlerOk
<1>11. work' \in [Threads -> WorkType] /\ (\A u \in Threads : WorkInv(work'[u])) /\ HandlerOk(work'[Handler])
  BY <1>5, <1>9, <1>10, TheMainThreads DEF MgrInv
<1>12. ASSUME Holds(s, g), MainOk(work[Main], MainPo, evQuit \/ ~Free(Handler))
       PROVE  MainOk(work[Main], q, evQuit \/ work'[Handler].at # "idle")
  <2> SUFFICES ASSUME work[Main].at \in {"judge", "start"}
               PROVE  MainOk(work[Main], q, evQuit \/ work'[Handler].at # "idle")
    BY DEF MainOk
  <2>1. MainPo = p /\ work[Main].svc = s
    BY <1>1, <1>12 DEF Holds, MainPo
  <2>2. CASE op = "set_restart"
    <3>1. q.manual = p.manual /\ q.starts = p.starts /\ q.stops = p.stops /\ q.wanted = p.wanted /\ q.caught = p.caught
      BY <1>3, <1>7, <2>2 DEF PoType
    <3>2. (evQuit \/ ~Free(Handler)) => (evQuit \/ work'[Handler].at # "idle")
      BY <1>5, <1>10, TheMainThreads DEF MgrInv, Free
    <3> QED BY <1>12, <2>1, <3>1, <3>2 DEF MainOk
  <2>3. CASE op # "set_restart"
    <3>1. t = Handler /\ op = "shutdown"
      BY <1>5, <1>10, <1>12, <2>3
    <3>2. q = [StopPo(s, p) EXCEPT !.caught = b] /\ b = TRUE
      BY <1>2, <1>3, <1>12, <3>1 DEF Checking
    <3>3. q.caught = TRUE /\ q.manual = p.manual /\ q.starts = p.starts /\ q.stops >= p.stops
      <4>1. LET r == [StopPo(s, p) EXCEPT !.caught = b] IN
            /\ PoInv(s, r, evQuit) /\ PoInv(s, StopPo(s, p), evQuit) /\ r.caught = b
            /\ r.manual = p.manual /\ r.starts = p.starts /\ r.stops >= p.stops
        BY <1>6, <1>7, StopKeepsPo
      <4> QED BY <3>2, <4>1
    <3>4. work'[Handler].at # "idle"
      BY <1>5, <1>10, <3>1, TheMainThreads DEF MgrInv
    <3>5. q.stops \in Nat /\ p.stops \in Nat /\ p.starts \in Nat /\ Threshold \in Nat
      BY <1>7, <1>8, MgrAssumption DEF PoInv, PoType
    <3>6. p.manual >= 1 /\ (work[Main].at = "start" => p.starts <= Threshold + p.stops)
      BY <1>12, <2>1 DEF MainOk
    <3>7. q.manual >= 1 /\ (work[Main].at = "start" => q.starts <= Threshold + q.stops)
      BY <3>3, <3>5, <3>6
    <3> QED BY <3>3, <3>4, <3>7 DEF MainOk
  <2> QED BY <2>2, <2>3
<1>13. MainOk(work'[Main], po'[work'[Main].svc][work'[Main].gen], evQuit \/ work'[Handler].at # "idle")
  BY <1>5, <1>6, <1>10, <1>12, OtherObject
<1> QED BY <1>5, <1>6, <1>8, <1>11, <1>13, ObjectStep

\* A step of main inside check or stop, where its object is left alone.
LEMMA MainGoesInv ==
    ASSUME MgrInv, NEW where \in {"next", "status", "judge", "start", "kill"},
           MainAt("do") \/ MainAt("status") \/ MainAt("judge") \/ MainAt("started") \/ MainAt("kill"),
           MainGoes(where), UNCHANGED po,
           where = "judge" => MainPo.proc # "none",
           where = "start" => MainAt("judge") /\ Restartable(MainPo)
    PROVE  MgrInv'
<1>1. PICK w : w = IF where = "next" THEN After(Main, work[Main].svc) ELSE [work[Main] EXCEPT !.at = where]
  OBVIOUS
<1>2. work' = [work EXCEPT ![Main] = w] /\ UNCHANGED <<table, last, po, phase, evQuit, calls>>
  BY <1>1 DEF MainGoes
<1>3. /\ WorkInv(work[Main]) /\ work[Main].svc \in Svc /\ work[Main].gen \in 1..Gens
      /\ work[Main] \in WorkType /\ Free(Handler)
  BY TheMainThreads DEF MgrInv, MainAt, WorkInv, MayRun
<1>4. WorkInv(w) /\ w \in WorkType /\ (where = "next" => w.at \in {"get", "end"})
      /\ (where # "next" => w.at = where /\ w.svc = work[Main].svc /\ w.gen = work[Main].gen)
  <2>1. CASE where = "next"
    BY <1>1, <1>3, <2>1, AfterState, TheMainThreads DEF WorkInv
  <2>2. CASE where # "next"
    BY <1>1, <1>3, <2>2 DEF WorkInv, WorkType
  <2> QED BY <2>1, <2>2
<1>5. CASE where \notin {"judge", "start"}
  <2>1. w.at \notin {"judge", "start"}
    BY <1>4, <1>5
  <2>2. evQuit' \in BOOLEAN /\ calls' \in 0..MaxCalls
    BY <1>2 DEF MgrInv
  <2> QED BY <1>2, <1>4, <2>1, <2>2, TheMainThreads, ThreadStep
<1>6. CASE where \in {"judge", "start"}
  <2>1. PoInv(work[Main].svc, MainPo, evQuit) /\ MainPo \in PoType
    BY <1>3 DEF MgrInv, MainPo, PoInv
  <2>2. MainPo.manual >= 1 /\ (work[Main].svc \notin Refusing => MainPo.wanted \/ (MainPo.caught /\ evQuit))
    <3>1. CASE where = "judge"
      BY <2>1, <3>1 DEF PoInv
    <3>2. CASE where = "start"
      <4>1. MainOk(work[Main], MainPo, evQuit) /\ work[Main].at = "judge"
        BY <1>3, <3>2 DEF MgrInv, MainAt, MainOk
      <4> QED BY <4>1 DEF MainOk
    <3> QED BY <1>6, <3>1, <3>2
  <2>3. where = "start" => MainPo.starts <= Threshold + MainPo.stops
    <3> SUFFICES ASSUME where = "start" PROVE MainPo.starts <= Threshold + MainPo.stops
      OBVIOUS
    <3>1. MainPo.starts - MainPo.stops <= Threshold
      BY DEF Restartable
    <3>2. MainPo.starts \in Nat /\ MainPo.stops \in Nat /\ Threshold \in Nat
      BY <2>1, MgrAssumption DEF PoType
    <3> QED BY <3>1, <3>2
  <2>4. MainOk(w, MainPo, evQuit)
    BY <1>4, <1>6, <2>2, <2>3 DEF MainOk
  <2>5. work'[Main] = w /\ work'[Handler] = work[Handler] /\ po'[w.svc][w.gen] = MainPo
    BY <1>2, <1>4, <1>6, TheMainThreads DEF MgrInv, MainPo
  <2>6. MainOk(work'[Main], po'[work'[Main].svc][work'[Main].gen], evQuit' \/ work'[Handler].at # "idle")
    BY <1>2, <2>4, <2>5 DEF MainOk
  <2>7. work' \in [Threads -> WorkType] /\ (\A u \in Threads : WorkInv(work'[u])) /\ HandlerOk(work'[Handler])
    BY <1>2, <1>4, <2>5 DEF MgrInv
  <2> QED BY <1>2, <2>6, <2>7 DEF MgrInv, MainPo, Free
<1> QED BY <1>5, <1>6

\* A step of main that changes its object and goes on to no place of check.
LEMMA MainSetsInv ==
    ASSUME MgrInv, NEW where \in {"next", "started", "kill"}, NEW q,
           MainAt("do") \/ MainAt("start") \/ MainAt("kill"),
           MainGoes(where), MainSets(q), PoInv(work[Main].svc, q, evQuit)
    PROVE  MgrInv'
<1>1. PICK w : w = IF where = "next" THEN After(Main, work[Main].svc) ELSE [work[Main] EXCEPT !.at = where]
  OBVIOUS
<1>2. PICK s, g : s = work[Main].svc /\ g = work[Main].gen
  OBVIOUS
<1>3. /\ work' = [work EXCEPT ![Main] = w] /\ po' = [po EXCEPT ![s][g] = q]
      /\ UNCHANGED <<table, last, phase, evQuit, calls>>
  BY <1>1, <1>2 DEF MainGoes, MainSets
<1>4. WorkInv(work[Main]) /\ s \in Svc /\ g \in 1..Gens /\ work[Main] \in WorkType
  BY <1>2, TheMainThreads DEF MgrInv, MainAt, WorkInv
<1>5. WorkInv(w) /\ w \in WorkType /\ w.at \in {"get", "end", "started", "kill"}
  <2>1. CASE where = "next"
    BY <1>1, <1>2, <1>4, <2>1, AfterState, TheMainThreads DEF WorkInv
  <2>2. CASE where # "next"
    BY <1>1, <1>2, <1>4, <2>2 DEF WorkInv, WorkType
  <2> QED BY <2>1, <2>2
<1>6. work'[Main] = w /\ work'[Handler] = work[Handler]
  BY <1>3, TheMainThreads DEF MgrInv
<1>7. MainOk(work'[Main], po'[work'[Main].svc][work'[Main].gen], evQuit \/ work'[Handler].at # "idle")
  BY <1>5, <1>6 DEF MainOk
<1>8. work' \in [Threads -> WorkType] /\ (\A u \in Threads : WorkInv(work'[u])) /\ HandlerOk(work'[Handler])
  BY <1>3, <1>5, <1>6 DEF MgrInv
<1> QED BY <1>2, <1>3, <1>4, <1>7, <1>8, ObjectStep

\* The object the main thread stands at keeps its account up to now.
LEMMA MainPoInv ==
    ASSUME MgrInv, MainAt("do") \/ MainAt("status") \/ MainAt("judge") \/ MainAt("start") \/ MainAt("kill")
    PROVE  work[Main].svc \in Svc /\ PoInv(work[Main].svc, MainPo, evQuit) /\ Free(Handler)
<1>1. WorkInv(work[Main])
  BY TheMainThreads DEF MgrInv
<1>2. work[Main].svc \in Svc /\ work[Main].gen \in 1..Gens
  BY <1>1 DEF MainAt, WorkInv
<1> QED BY <1>2 DEF MgrInv, MainPo, MainAt, MayRun

\* check, with whatever the handler has done between its steps.
LEMMA CheckInv == ASSUME MgrInv, Check PROVE MgrInv'
<1>1. CASE MainAt("do") /\ MainGoes(IF MainPo.proc = "none" THEN "next" ELSE "status") /\ UNCHANGED po
  BY <1>1, MainGoesInv
<1>2. CASE /\ MainAt("status") \/ MainAt("start") \/ MainAt("started")
           /\ MainPo.proc = "none" /\ Raise(Main)
  BY <1>2, RaiseInv, TheMainThreads
<1>3. CASE /\ MainAt("status") /\ MainPo.proc # "none" /\ UNCHANGED po
           /\ MainGoes(IF MainPo.proc = "dead" /\ MainPo.auto THEN "judge" ELSE "next")
  BY <1>3, MainGoesInv
<1>4. CASE MainAt("judge") /\ MainGoes(IF Restartable(MainPo) THEN "start" ELSE "next") /\ UNCHANGED po
  BY <1>4, MainGoesInv
<1>5. CASE MainAt("start") /\ MainSets(StartPo(MainPo)) /\ MainGoes("started")
  <2>1. work[Main].svc \in Svc /\ PoInv(work[Main].svc, MainPo, evQuit) /\ Free(Handler) /\ evQuit \in BOOLEAN
    BY <1>5, MainPoInv DEF MgrInv
  <2>2. MainOk(work[Main], MainPo, evQuit) /\ work[Main].at = "start"
    BY <1>5, <2>1 DEF MgrInv, MainAt, MainOk
  <2>3. PoInv(work[Main].svc, StartPo(MainPo), evQuit)
    BY <2>1, <2>2, StartKeepsPo DEF MainOk
  <2> QED BY <1>5, <2>3, MainSetsInv
<1>6. CASE MainAt("started") /\ MainPo.proc # "none" /\ MainGoes("next") /\ UNCHANGED po
  BY <1>6, MainGoesInv
<1> QED BY <1>1, <1>2, <1>3, <1>4, <1>5, <1>6 DEF Check

\* The last shutdown, with whatever the handler has done between its steps.
LEMMA LastStopInv == ASSUME MgrInv, LastStop PROVE MgrInv'
<1>1. evQuit \in BOOLEAN
  BY DEF MgrInv
<1>2. CASE MainAt("do") /\ MainSets(StopPo(work[Main].svc, MainPo)) /\ MainGoes("next")
  <2>1. work[Main].svc \in Svc /\ PoInv(work[Main].svc, MainPo, evQuit)
    BY <1>2, MainPoInv
  <2>2. PoInv(work[Main].svc, StopPo(work[Main].svc, MainPo), evQuit)
    BY <1>1, <2>1, StopKeepsPo
  <2> QED BY <1>2, <2>2, MainSetsInv
<1>3. CASE MainAt("do") /\ MainSets([MainPo EXCEPT !.stops = @ + 1]) /\ MainGoes("kill")
  <2>1. work[Main].svc \in Svc /\ PoInv(work[Main].svc, MainPo, evQuit)
    BY <1>3, MainPoInv
  <2>2. PoInv(work[Main].svc, [MainPo EXCEPT !.stops = MainPo.stops + 1], evQuit)
    BY <1>1, <2>1, MarkKeepsPo
  <2> QED BY <1>3, <2>2, MainSetsInv
<1>4. CASE /\ MainAt("kill") /\ MainPo.proc # "none" /\ MainGoes("next")
           /\ MainSets([StopPo(work[Main].svc, MainPo) EXCEPT !.stops = MainPo.stops])
  <2>1. PICK s, p : s = work[Main].svc /\ p = MainPo
    OBVIOUS
  <2>2. s \in Svc /\ PoInv(s, p, evQuit) /\ p \in PoType
    BY <1>4, <2>1, MainPoInv DEF PoInv
  <2>3. PICK r : r = [p EXCEPT !.wanted = FALSE, !.caught = FALSE, !.proc = IF s \in Refusing THEN p.proc ELSE "none"]
    OBVIOUS
  <2>4. [StopPo(s, p) EXCEPT !.stops = p.stops] = r
    BY <1>4, <2>1, <2>2, <2>3 DEF StopPo, PoType
  <2>5. r \in PoType /\ r.manual = p.manual /\ r.starts = p.starts /\ r.stops = p.stops
        /\ r.proc = (IF s \in Refusing THEN p.proc ELSE "none")
    BY <2>2, <2>3 DEF PoType
  <2>6. PoInv(s, r, evQuit)
    BY <1>4, <2>1, <2>2, <2>5 DEF PoInv
  <2> QED BY <1>4, <2>1, <2>4, <2>6, MainSetsInv
<1>5. CASE MainAt("kill") /\ MainPo.proc = "none" /\ (Raise(Main) \/ (MainGoes("next") /\ UNCHANGED po))
  BY <1>5, RaiseInv, MainGoesInv, TheMainThreads
<1> QED BY <1>2, <1>3, <1>4, <1>5 DEF LastStop

\* The entry of the map is deleted, or another remove was faster.
LEMMA DelInv == ASSUME MgrInv, NEW t \in Threads, Del(t) PROVE MgrInv'
<1>1. PICK s, w : s = work[t].svc /\ w = After(t, s)
  OBVIOUS
<1>2. WorkInv(work[t]) /\ s \in Svc /\ work[t].at = "del"
  BY <1>1 DEF MgrInv, Del, WorkInv
<1>3. CASE table[s] # 0
  <2>1. work' = [work EXCEPT ![t] = w] /\ table' = [table EXCEPT ![s] = 0]
        /\ UNCHANGED <<last, po, phase, evQuit, calls>>
    BY <1>1, <1>3 DEF Del, Raise
  <2>2. WorkInv(w) /\ w \in WorkType /\ w.at \in {"get", "end"} /\ w.op = work[t].op
    BY <1>1, <1>2, AfterState DEF WorkInv
  <2>3. work' \in [Threads -> WorkType] /\ \A u \in Threads : WorkInv(work'[u])
    BY <2>1, <2>2 DEF MgrInv
  <2>4. table' \in [Svc -> 0..Gens]
    <3>1. 0 \in 0..Gens
      BY MgrAssumption
    <3> QED BY <2>1, <3>1 DEF MgrInv
  <2>5. HandlerOk(work'[Handler]) /\ (work'[Handler].at = "idle" <=> work[Handler].at = "idle")
    BY <1>2, <2>1, <2>2, TheMainThreads DEF MgrInv, HandlerOk
  <2>6. MainOk(work'[Main], po'[work'[Main].svc][work'[Main].gen], evQuit' \/ work'[Handler].at # "idle")
    <3>1. CASE t = Main
      BY <2>1, <2>2, <3>1, TheMainThreads DEF MgrInv, MainOk
    <3>2. CASE t # Main
      BY <2>1, <2>5, <3>2, TheMainThreads DEF MgrInv, MainOk, MainPo, Free
    <3> QED BY <3>1, <3>2
  <2> QED BY <2>1, <2>3, <2>4, <2>5, <2>6 DEF MgrInv, MainPo, Free
<1>4. CASE table[s] = 0
  BY <1>1, <1>4, RaiseInv DEF Del
<1> QED BY <1>3, <1>4

\* A call ends; the last one of the main program ends it, and the one of the
\* signal handler sets ev_quit.
LEMMA EndCallInv == ASSUME MgrInv, NEW t \in Threads, EndCall(t) PROVE MgrInv'
<1>1. PICK w : w = IF work[t].op = "restartall" THEN Doing("startall", Names) ELSE NoWork
  OBVIOUS
<1>2. work' = [work EXCEPT ![t] = w] /\ evQuit' = (evQuit \/ work[t].op = "shutdown")
      /\ UNCHANGED <<table, last, po, calls>>
  BY <1>1 DEF EndCall
<1>3. WorkInv(w) /\ w \in WorkType /\ w.at \in {"idle", "get"}
  BY <1>1, ThreadStates DEF All, WorkInv, Doing, NoWork
<1>4. work' \in [Threads -> WorkType] /\ \A u \in Threads : WorkInv(work'[u])
  BY <1>2, <1>3 DEF MgrInv
<1>5. evQuit' \in BOOLEAN /\ phase' \in {"loop", "finally", "gone"} /\ (evQuit => evQuit')
  BY DEF EndCall, MgrInv
<1>6. t = Handler => evQuit' /\ HandlerOk(w)
  <2> SUFFICES ASSUME t = Handler PROVE evQuit' /\ HandlerOk(w)
    OBVIOUS
  <2>1. work[t].op = "shutdown"
    BY DEF MgrInv, HandlerOk, EndCall
  <2> QED BY <1>1, <1>2, <2>1 DEF HandlerOk, NoWork
<1>7. HandlerOk(work'[Handler])
  BY <1>2, <1>6, TheMainThreads DEF MgrInv
<1>8. MainOk(work'[Main], po'[work'[Main].svc][work'[Main].gen], evQuit' \/ work'[Handler].at # "idle")
  <2>1. CASE t = Main
    BY <1>2, <1>3, <2>1, TheMainThreads DEF MgrInv, MainOk
  <2>2. CASE t # Main
    <3>1. work'[Main] = work[Main] /\ po' = po
      BY <1>2, <2>2, TheMainThreads DEF MgrInv
    <3>2. (evQuit \/ ~Free(Handler)) => (evQuit' \/ work'[Handler].at # "idle")
      BY <1>2, <1>5, <1>6, TheMainThreads DEF MgrInv, Free
    <3> QED BY <3>1, <3>2 DEF MgrInv, MainOk, MainPo
  <2> QED BY <2>1, <2>2
<1>9. \A s \in Svc, g \in 1..Gens : PoInv(s, po'[s][g], evQuit')
  BY <1>2, <1>5 DEF MgrInv, PoInv
<1> QED BY <1>2, <1>4, <1>5, <1>7, <1>8, <1>9 DEF MgrInv, MainPo, Free

\* The main loop, and signals.
LEMMA MainInv == ASSUME MgrInv, Pass \/ LoopEnds \/ Sigterm PROVE MgrInv'
<1>1. WorkInv(Doing("check", Names)) /\ WorkInv(Doing("shutdown", Names))
  BY ThreadStates DEF All
<1>2. Doing("check", Names) \in WorkType /\ Doing("shutdown", Names) \in WorkType
  BY <1>1 DEF WorkInv
<1>3. work' \in [Threads -> WorkType] /\ \A u \in Threads : WorkInv(work'[u])
  BY <1>1, <1>2 DEF Pass, LoopEnds, Sigterm, MgrInv
<1>4. phase' \in {"loop", "finally", "gone"} /\ calls' \in 0..MaxCalls /\ UNCHANGED <<table, last, po, evQuit>>
  BY MgrAssumption DEF Pass, LoopEnds, Sigterm, MgrInv
<1>5. HandlerOk(work'[Handler])
  BY TheMainThreads DEF Pass, LoopEnds, Sigterm, MgrInv, HandlerOk, Doing
<1>6. MainOk(work'[Main], po[work'[Main].svc][work'[Main].gen], evQuit \/ work'[Handler].at # "idle")
  <2>1. CASE Pass \/ LoopEnds
    <3>1. work'[Main].at = "get"
      BY <2>1, TheMainThreads DEF Pass, LoopEnds, MgrInv, Doing
    <3> QED BY <3>1 DEF MainOk
  <2>2. CASE Sigterm
    <3>1. work'[Main] = work[Main] /\ work'[Handler].at = "get"
      BY <2>2, TheMainThreads DEF Sigterm, MgrInv, Doing
    <3> QED BY <3>1 DEF MgrInv, MainOk, MainPo
  <2> QED BY <2>1, <2>2
<1> QED BY <1>3, <1>4, <1>5, <1>6 DEF MgrInv, MainPo, Free

\* A process dies; a restart interval passes.
LEMMA DiesInv == ASSUME MgrInv, NEW s \in Svc, NEW g \in 1..Gens, Dies(s, g) \/ Ripens(s, g) PROVE MgrInv'
<1>1. PICK p : p = po[s][g]
  OBVIOUS
<1>2. PoInv(s, p, evQuit) /\ p \in PoType /\ evQuit \in BOOLEAN
  BY <1>1 DEF MgrInv, PoInv
<1>3. PICK q : /\ po' = [po EXCEPT ![s][g] = q]
               /\ q = [p EXCEPT !.ripe = TRUE] \/ (q = [p EXCEPT !.proc = "dead"] /\ p.proc = "running")
  <2>1. CASE Dies(s, g)
    BY <1>1, <2>1 DEF Dies, MgrInv
  <2>2. CASE Ripens(s, g)
    BY <1>1, <2>2 DEF Ripens, MgrInv
  <2> QED BY <2>1, <2>2
<1>4. /\ PoInv(s, q, evQuit) /\ q.manual = p.manual /\ q.starts = p.starts
      /\ q.wanted = p.wanted /\ q.caught = p.caught
  BY <1>2, <1>3, MarkKeepsPo
<1>5. q.stops = p.stops
  BY <1>2, <1>3 DEF PoType
<1>6. UNCHANGED <<table, last, work, phase, evQuit, calls>>
  BY DEF Dies, Ripens
<1>7. MainOk(work[Main], po'[work[Main].svc][work[Main].gen], evQuit \/ work[Handler].at # "idle")
  <2> SUFFICES ASSUME work[Main].at \in {"judge", "start"}
               PROVE  MainOk(work[Main], po'[work[Main].svc][work[Main].gen], evQuit \/ work[Handler].at # "idle")
    BY DEF MainOk
  <2>1. WorkInv(work[Main])
    BY TheMainThreads DEF MgrInv
  <2>2. work[Main].svc \in Svc /\ work[Main].gen \in 1..Gens
    BY <2>1 DEF WorkInv
  <2>3. po'[work[Main].svc][work[Main].gen] = IF work[Main].svc = s /\ work[Main].gen = g THEN q ELSE MainPo
    BY <1>3, <2>2 DEF MgrInv, MainPo
  <2>4. MainOk(work[Main], MainPo, evQuit \/ work[Handler].at # "idle")
    BY DEF MgrInv, Free
  <2>5. (work[Main].svc = s /\ work[Main].gen = g) => MainPo = p
    BY <1>1 DEF MainPo
  <2> QED BY <1>4, <1>5, <2>3, <2>4, <2>5 DEF MainOk
<1>8. work' \in [Threads -> WorkType] /\ (\A u \in Threads : WorkInv(work'[u])) /\ HandlerOk(work'[Handler])
  BY <1>6 DEF MgrInv
<1> QED BY <1>3, <1>4, <1>6, <1>7, <1>8, ObjectStep

\* Every step keeps the invariant.
LEMMA StepInv == MgrInv /\ [MgrNext]_mgrVars => MgrInv'
<1> SUFFICES ASSUME MgrInv, [MgrNext]_mgrVars PROVE MgrInv'
  OBVIOUS
<1>1. ASSUME NEW t \in Threads, Works(t) PROVE MgrInv'
  BY <1>1, GetPoInv, DoPoInv, DelInv, EndCallInv DEF Works
<1>2. ASSUME NEW c \in Clients, Call(c) \/ Quit(c) \/ Works(c) \/ \E s \in Svc : Add(c, s) PROVE MgrInv'
  BY <1>1, <1>2, CallInv, AddQuitInv DEF Threads
<1>3. CASE MainProgram \/ Sigterm \/ Works(Handler)
  BY <1>1, <1>3, MainInv, CheckInv, LastStopInv, TheMainThreads DEF MainProgram
<1>4. ASSUME NEW s \in Svc, NEW g \in 1..Gens, Dies(s, g) \/ Ripens(s, g) PROVE MgrInv'
  BY <1>4, DiesInv
<1>5. CASE UNCHANGED mgrVars
  BY <1>5 DEF mgrVars, MgrInv, MainPo, Free
<1> QED BY <1>2, <1>3, <1>4, <1>5 DEF MgrNext

\* The invariant holds in every state.
LEMMA Invariance == MgrSpec => []MgrInv
BY InitInv, StepInv, PTL DEF MgrSpec
-----------------------------------------------------------------------------
\* What the invariant says.
LEMMA MgrTells == MgrInv => MgrTypeOK /\ StoppedStaysStopped /\ AutoRestartBudget
<1>1. MgrInv => MgrTypeOK
  BY DEF MgrInv, MgrTypeOK
<1>2. MgrInv => StoppedStaysStopped
  BY DEF MgrInv, PoInv, StoppedStaysStopped
<1>3. MgrInv => AutoRestartBudget
  BY DEF MgrInv, PoInv, AutoRestartBudget
<1> QED BY <1>1, <1>2, <1>3

\* Every state of the manager is well typed, for every number of services,
\* clients, registrations and calls.
THEOREM MgrTypeCorrect == MgrSpec => []MgrTypeOK
BY MgrTells, Invariance, PTL

\* A service that was stopped by hand is not running again by itself, whatever
\* calls and checks overlap, with the one exception that the property names:
\* the stop of a signal handler which has interrupted the check of that very
\* object is undone by the rest of the check, and ev_quit is set then (check,
\* stop, and the handler of the main program).
THEOREM StoppedServicesStayStopped == MgrSpec => []StoppedStaysStopped
BY MgrTells, Invariance, PTL

\* The loop starts a dying service at most restart_threshold times, and once
\* more for each stop (check).
THEOREM AutoRestartsAreBounded == MgrSpec => []AutoRestartBudget
BY MgrTells, Invariance, PTL
=============================================================================
