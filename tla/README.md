# Models of the SCExAO real-time control software

TLA+ models, TLC runs and TLAPS proofs for the parts of this repository that
move the deformable mirror, for the shared-memory images through which its
programs talk, and for the Gen2 services that connect the instrument to the
observatory: the thread pool and its tasks, the interface to an instrument, the
manager that keeps the services running, and publish/subscribe.  The reference
of every definition is the source; `PROJECT.json` ("map") gives the lines each
definition stands for.

Abbreviations: `rh/` is `src/progs/DMcopper/DMcontrol/rh-test-src/`, `py/` is
`src/src/lib/python/`, `gen2/` is `py/gen2/`, `ro/` is `gen2/remoteObjects/`.

## 1. The system

### Components, their state and operations

| Component | State | Operations |
|---|---|---|
| Command pipe `/tmp/mdlfifo` (`rh/shared.h`) | bytes in the pipe | `write()` of a command byte or of an argument, blocking; `read()` by the thread, nonblocking |
| Framing thread (`rh/thread.c`) | `Run`, `Step`, `Term`, data mode, error mode, two user buffers, double-buffer index, rate, strobe | one timer tick: at most one command, then perhaps one frame |
| DPIO2 board and its library (`rh/dpio2funcs.cpp`, vendor package) | two kernel DMA buffers, a transfer, an interrupt, a semaphore, the mirror's words | copy to kernel, start of a transfer, delivery of a word, interrupt, `dmaDoneNotifier` |
| `rhcli` (`rh/rhcli.c`, `rh/util.c`) | `iState`, `end`, the actuator table | twelve commands, SIGINT |
| `runBMCcacao_VMETRO` (`rh/runBMCcacao_VMETRO.c`) | `framecnt`, a copy of the pixels, voltage words, time of the last update | poll, copy, convert, send, sleep after an hour, end |
| Image `dmvolt` and its writer (milk/cacao, not in the repository) | pixels, `write`, `cnt0`, `status` | publication of a frame |
| `py/scexao_shm.py` | pixels and counter of an image, semaphores | `get_data` with and without waiting, `set_data` |
| Thread pool (`gen2/Task.py`) | status, count of running workers, `ev_quit`, the condition `regcond`, a queue | `startall`, `stopall`, `register_up`, `register_dn`, the loop of a worker |
| Compound tasks (`gen2/Task.py`) | children, the list a set still waits for, results | sequential and concurrent sets, `addTask`, `QueueTaskset` |
| Instrument interface (`gen2/SOSS/INSint/INSint.py`) | sequence number, transactions, records of commands; requests for files; the service's task queue | send a command, process AB and EN; receive files, answer DT, AB, DE; start, stop |
| Manager (`ro/remoteObjectManagerSvc.py`) | table of services, a process object for each, `ev_quit` | start, stop, restart, add, remove, clear, shutdown; the monitoring loop; signals |
| Publish/subscribe (`ro/PubSub.py`) | subscribers of each channel, aggregates, records of partners, subscriptions to renew | subscribe, renew, `publish_to`, notify, `remote_update`, removal of a failing subscriber |
| Monitor, name service, session software, `rh/dm_trigger.c`, scripts, GUIs, hardware modules, vendored code | | see `PROJECT.json` |

### How they interact

`rhcli` and `runBMCcacao_VMETRO` are each a process of two threads.  `main`
creates the pipe, starts `thread_code` and opens the pipe for writing, which
blocks until the thread has opened it for reading.  From then on the threads
share nothing but the pipe.  The board works beside them: it reads a DMA buffer
word by word, raises an interrupt, and a notifier thread of its library posts
the semaphore on which `thread_code` waits.  The image `dmvolt` is memory that
the driver and the writer both read and write without a lock; the only
protocol is `write = 1`, pixels, `write = 0`, `cnt0++`.  `scexao_shm.py` images
follow a shorter one: pixels, then the counter, then the semaphores.

The Gen2 services are Python programs with a thread pool each.  Whatever they
do is a task of that pool: an RPC server and a `QueueTaskset` keep a worker for
good, a set of tasks keeps one while it waits for its children, which need
workers themselves.  Between programs there are only remote calls, which may
fail although they were carried out, and are then repeated.  The manager starts
and restarts the services; the instrument interface exchanges commands and
files with the instrument's computer; pubsubs pass updates on to each other.
None of these services shares state with the mirror loop.

### What is hard, and what makes it right

* **The pipe has no delimiters.**  Voltages and command codes are the same
  bytes; both sides must agree on each argument count (`InSync`).
* **Blocking on both sides.**  A frame is larger than the pipe, the thread
  spins for arguments, and in the middle of a frame it waits for the board
  (`CommandsConsumed`, `QuitEnds`).
* **DMA against copies.**  A command read in the tick after a transfer
  overwrites both DMA buffers (`WholeFrame`, `SemDiscipline`).
* **Two notions of running**, the client's `iState` and the thread's `Run`
  (`StoppedMeansStopped`, `RunsAsShown`).
* **Requests that outlive their tick** (`StepNotCarriedOver`, `StepServed`).
* **Lock-free images** with counters incremented by several processes
  (`NoFrameHidden`, `Settles`, `CounterNeverAhead`, `ImageUsersServed`).
* **A process killed anywhere** and started again on the same image and mirror
  (`driver_safety`, `driver_live`).
* **A pool that starts and stops** while others call it and `ev_quit` is set
  (`StatusMatches`, `StoppedMeansGone`, `PoolCallsReturn`).
* **Tasks that wait for tasks** in a pool with a fixed number of workers
  (`ServiceWorks`, `SetsFinish`, `FilesAnswered`).
* **Answers out of order, repeated or lost** (`OkOnlyIfEnded`,
  `NoFalseFailure`, `CommandReports`).
* **Monitoring against manual calls and signals**: the loop restarts what a
  client stops, and a handler runs in the middle of its check
  (`StoppedStaysStopped`, `AutoRestartBudget`, `ManagerRestarts`).
* **Two requests for one file** (`ReceivedIsOnDisk`).
* **Calls while a lock is held, stale records of partners** (`SubscribersTold`,
  `DeadSubscribersDropped`), **updates that come back** to a pubsub they have
  passed (`NoCyclicUpdates`).

`PROJECT.json` ("hazards") has the list with lines, including those no property
covers and why.

## 2. The modules

```
CommandFifo  <-  DmaEngine  <-  FramingThread  <-+-- RhCliSystem  <-- MCRhCli
     ^  ^                                        |
     |  +------------ RhCli ---------------------+
     +-- VoltStream <- DmLoop --- (FramingThread) --- DmDriver <-- MCDmDriver
                                                        ^-- DmDisplay (abstract)
FramingThread_proofs <- RhCliSystem_proofs, DmDriver_proofs

ThreadPool <- InsService      --+
TaskSets <- FileRecv <- MCFileRecv
InsCommand, ManagerSvc          +--> MCServices
ScexaoShm                       |
PubSub <- MCPubSub            --+
ManagerSvc_proofs, ThreadPool_proofs (with InsService), InsInt_proofs (InsCommand
and FileRecv), Sharing_proofs (PubSub and ScexaoShm), MCServices <- Services_proofs
```

Arrows mean EXTENDS; `DmDriver` instantiates `DmDisplay`.

### The mirror

**CommandFifo**: the command codes, the messages each command is made of, and
the pipe.  An element is what one `write()` puts there, except that the frame
of a LOAD, the only long one, is one element per actuator, so the thread may
find it half written.  `out` is what `main` has still to write: while it is not
empty `main` is inside `write()`.

**DmaEngine**: two DMA buffers, which the kernel module clears and marks with
`==` in the first two bytes (`BootFrame`); one transfer at a time; delivery of
one word; end of the chain; the notifier; the semaphore.  `Faults` says what
may go wrong: setup, strobe ioctls, starts of a transfer, lost interrupts.

**FramingThread**: `thread_code` and `rh_timer_callback`.  `tpc` is the place
in the tick: `tick` before the read of the command byte; `count`, `load`,
`poke`, `halterr`, `rate`, `strobe` while it spins for arguments; `frame` after
the switch; `dmawait` in `sem_wait`.  One action per command and per argument
read.  POKE and STROBE read two arguments in one step, since nothing is
visible between.  The two user buffers are always assigned together and are
one variable.  A failing ioctl of the strobe clears `Run`, as in the code.

**RhCli**, **RhCliSystem**: one action per command of the menu, start-up,
SIGINT, termination; the composition with the thread.  The user's pace is free.

**VoltStream**, **DmLoop**, **DmDriver**: the image and its writer, the loop of
the driver with each access to shared memory a step of its own (`cnt0`, then
`write`, then the pixels one by one; `cnt0++` is a load and a store), the
composition with the thread, SIGINT (which is `exit(0)`), and a restart, which
resets every variable of the process and leaves image and mirror.

**DmDisplay**: what the driver promises whoever publishes frames: actuator by
actuator, frames in order, none before it was written, the last one in the end.

**ScexaoShm**: processes in `set_data` and `get_data`, each access to the image
a step.  A pixel holds the number of the call that stored it.

### The services

**ThreadPool**: every section under the lock of `regcond` is one step; `wait()`
puts the caller at the end of `poolCond` and `notify()` wakes the first.  A
worker is `new` until it has registered, `idle` at the test of `ev_quit`,
`getting` between the test and the queue, `executing` a task.

**InsService** extends it with `ocsInsInt`: start of the pool, of the
`QueueTaskset` and of one RPC server after the other, jobs, and the stop in the
order of the code.

**TaskSets**: the two compound tasks of `Task.py`.  `setState` holds the local
variables of `execute()`, because the inner loop of a concurrent set runs with
an index over a list that gets shorter while `addTask` makes it longer; one turn
of that loop is one step.  A task ends with a value or an exception, and an
exception of a child is raised again in whoever waits for it.

**FileRecv** extends it with `file_recv` and `save_fits`: a request is a
`Runner`, each of its groups a concurrent set of transfers, each transfer goes
through rename, open, copy, chmod, stat, and the frame database, one step for
each access to the directory.  A file is named by the transfer that created it,
`OldFile` by none of this program; `onDisk` says which file bears the name of a
frame now, so a second request for the frame may rename it away or truncate it.
`renamed` are the files of a frame that have been renamed and still exist: the
new name has the time in seconds, so a rename may replace any of them.  `Ack`
has the three ways `file_recv` goes: on to the frames, back without a DE (sender
not in the filter, a request that cannot be unpacked, no frames; `RecvFaults`
says whether such requests come), or out by an exception.  A request is queued in the pool directly: the service's queue in front of it only
delays it.

**InsCommand**: the sending of a command, the two answers, and the record of it
in the database.  Sequence numbers are given by one step under the lock; the
answers are tasks, of which any number is processed at once (`insTasks`), in the
steps record, complete, error.  `obcp` is the instrument: it acknowledges and
ends each call it gets, also a repeated one.

**ManagerSvc**: process objects (`po`), which may outlive their entry in the
map (`table`) while a call still holds them; the threads of the RPC server, of
main and of the signal handler (`work`), each between the look-up, the locked
operation and the removal.  A call of a client holds the lock of the object
for one operation on it, which is one step.  The handler of a signal runs in the
thread of main and the locks are reentrant, so they do not keep it out: what
main does under a lock, `check` and the `stop` of the last shutdown, is a step
for each look at the object or change of it (`Check`, `LastStop`), between which the
handler may run from beginning to end and clients wait (`Holds`).  `wanted`,
`caught` and `manual` are history variables.  `Watched` are the services for which `set_restart` was called before.

**PubSub**: a network (`net`) says who subscribes to whom, who publishes to
whom, and which aggregates there are.  Tasks form a bag; an update is an
`update` task where it arrives, one `queued` task for each subscriber, and from
then on a call that succeeds, fails, or loses its answer.  A pubsub that is
`subscribing` holds its lock.  A task works on the partner record it has taken
(`bunch`), also when the subscriber has been given a new one since.

**MCServices** is the bench for the services: the variable `part` says which of
the components a behaviour is about; the others stay as they begin.  Its
safety run has the invariants of all, its liveness run one property per
component, of the form (this part, with its fairness) implies (its promise),
since each component has a fairness condition of its own.

## 3. What is checked

Every run of the mirror uses two actuators, wired crosswise (a map that is its
own inverse and not the identity, so that a missing or doubled permutation
shows).  The pipe has two elements: a message of three or more never fits, one
of two just fits, so that every relation between message and free space occurs.
In `driver_safety` it has nine, since there more room gives more behaviours: the
eight elements of the start-up may all lie unread, STOP first, when the loop
already begins to send, and `OnlySteps` must not rest on a small pipe.
The values of files, voltages and rates include each side of the checks in the
code (300/301 V, 65537 which is 1 as an unsigned short, 9 Hz below the range,
40 which is a rate and a strobe frequency, 16383/16384 around the saturation).

| Run | What is shown | Bounds |
|---|---|---|
| `rhcli_safety` | synchronisation of the pipe, DMA discipline, whole frames, no late step, stopped means stopped, load = table | 3 lines, all faults |
| `rhcli_live` | commands are consumed, steps served, quit ends, a prompt comes | 2 lines, files of 0, 1 and 2 lines, failing starts and ioctls |
| `driver_safety` | types (no word overflows), no frame hidden, frames reach both buffers, transfers only on STEP | 1 frame, 1 hour, 1 kill, failing starts and ioctls |
| `driver_live` | the last frame is shown; sleep after an hour; end by status | 1 actuator, 1 frame, 1 hour, 1 kill |
| `driver_display` | refinement of DmDisplay | 2 frames |
| `services_safety` | the invariants of the services, see below | see below |
| `services_live` | what must happen in each of them | see below |
| `rhcli_test_pattern`, `rhcli_halted`, `rhcli_short_file`, `driver_early_sleep`, `manager_leaves_process` | the disagreements of section 5 | |

In the services' runs:

| Part | Safety | Liveness | Bounds (safety; liveness where it differs) |
|---|---|---|---|
| manager | `StoppedStaysStopped`, `AutoRestartBudget` | `ManagerRestarts`, `ManagerQuits` | 2 services, one watched and one that cannot be killed, each registered at most twice; 2 clients with 2 calls or signals (1 client with 2), one signal at a time, `restart_threshold` 1 |
| command | `OkOnlyIfEnded`, `NoFalseFailure` | `CommandReports` | 2 commands (1), 1 fault: a repeated or failed call, a lost answer or a restart |
| pool | `StatusMatches`, `StoppedMeansGone` | `PoolCallsReturn` | 3 workers, started twice, 2 callers, an interrupt, 2 tasks (1) |
| service | the same | `ServiceWorks` | 3 workers: one each for the queue, a server and a job |
| sets | `SetsAreConclusive` | `SetsFinish` | a concurrent set of a leaf and a sequence of two, one `addTask`, leaves that succeed, fail or raise |
| files | `ReceivedIsOnDisk` | `FilesAnswered` | 2 requests for one frame, 5 workers, with or without an older file of it, a timeout, failing copies and frame database (3 workers, no older file, failing AB, DE and copies, requests that are dropped, cannot be unpacked or are empty) |
| shm | `CounterNeverAhead` | `ImageUsersServed` | 2 writers, 1 reader, a server; 2 calls |
| pubsub | `NoCyclicUpdates` | `SubscribersTold`, `DeadSubscribersDropped` | two that subscribe and publish to each other by address; a hub with an aggregate between a source and a subscriber, with a crash and a lost answer; one update at a time |

Why these bounds are enough.  Three lines are enough for the sequences the
thread's state distinguishes: a command that sets a mode, one that changes it,
one that acts (run, load, stop; halterr, run, step).  One frame is enough for
the driver because the initial image, the frame, and the zeros of a sleep are
three publications, and the driver sends each; torn copies, counters lost
between the loop's `cnt0++` and the writer's, and a sleep that wipes a frame
all occur.  Two actuators are the smallest number with a torn frame and a
wrong order; for `driver_live` one is enough, since it asks what is shown in
the end.  One kill reaches every state a process can be killed in; a
restarted process is as a first one but for the image and the mirror.  Two
writers are the smallest number that loses an increment.  A service that is
registered twice has one object that is stale; two calls at once and two more
give every pair and the sequences stop, start and remove, add around a check.
Two commands are the smallest number whose answers can be exchanged.  Two
requests for one frame rename, truncate and check each other's file, and an
older file makes three with that name, so that a rename may replace a renamed
one; the property does not go further (section 4).  In the
pubsub networks one update visits three pubsubs, or comes back to its
publisher, and a subscriber dies and comes back while an update to it fails.
`MaxBunches`, in a guard of `Subscribe`, bounds the partner records of one
subscriber that are in use; with the value of the runs there is always a free one.

`driver_display` uses `QuietStart`: the writer begins when the driver has sent
its first frame.  Before that the thread frames freely, and the driver may
wipe the image (section 5), and neither is part of the promise.

`rhcli_safety` switches off the deadlock check, because a failed setup or a
lost interrupt stops the program for good; so do the services' runs, where the
bounded numbers of calls, tasks and starts run out, and `manager_leaves_process`.
The other runs check deadlock, with `Terminated` for the exited process.

### Fairness

Weak fairness of the thread, of the board, of `main` and, in `driver_*`, of the
writer: they are OS threads, processes or hardware, each runs whenever it can.
No fairness for the user, for SIGINT, for the status, for the passing of an
hour, for a restart.  A spinning thread is no step of the model, so fairness of
its next read is fairness of a thread that is scheduled.  Lost interrupts and
failing setup are excluded from the liveness runs: the code has no timeout on
`sem_wait` and the program does hang then.

In the services: the threads of a pool, of the RPC server and of main run
(weak fairness for each); the leaves of a set and the transfers of a file end;
time passes where the code waits for it (the restart interval, the timeout of a
group of transfers, `failure_limit`).  Nothing is assumed of clients, of
processes that die, of an instrument that ends a command (`CommandReports`
begins with the EN on its way), of programs that publish or start.  A call
under way is served or fails, by `remote_timeout`.  In ScexaoShm calls are fair
once begun and a reader keeps asking; a timeout may come at any time.

## 4. What is proved

Every invariant that a passing run checks is proved, and the safety part of the
refinement: for every number of actuators up to 32767 (LOAD announces it as a
`short`), every pipe capacity of at least two elements, every map that is a
permutation, every set of files, rates, voltages, frames, and every subset of
the faults; in the services for every number of workers, callers, services,
clients, calls, commands, faults, requests and frames, every tree of tasks and
every network of pubsubs:

| Theorem | Statement |
|---|---|
| `RhCliSystem_proofs!TypeCorrect`, `DmDriver_proofs!TypeCorrect` | `Spec => []TypeOK` |
| `RhCliSystem_proofs!SemaphoreDiscipline`, `DmDriver_proofs!SemaphoreDiscipline` | `Spec => []SemDiscipline` |
| `RhCliSystem_proofs!FramesAreWhole`, `DmDriver_proofs!FramesAreWhole` | `Spec => []WholeFrame` |
| `RhCliSystem_proofs!CommandsStayInSync`, `DmDriver_proofs!CommandsStayInSync` | `Spec => []InSync` |
| `RhCliSystem_proofs!StepsAreNotCarriedOver` | `Spec => []StepNotCarriedOver` |
| `RhCliSystem_proofs!StopIsKept` | `Spec => []StoppedMeansStopped` |
| `RhCliSystem_proofs!LoadsArrive` | `Spec => []LoadMirrorsTable`, if every file has a line for every actuator |
| `DmDriver_proofs!FramesOnlyByStep`, `FramesReachBuffers`, `NothingHidden` | `Spec => []OnlySteps`, `[]FrameReachesBuffers`, `[]NoFrameHidden` |
| `DmDriver_proofs!ShowsFramesInOrder` | `Spec => Display!InOrder`, if `Undisturbed` and `FramesDiffer` |
| `Sharing_proofs!ShmTypeCorrect`, `CounterIsNeverAhead` | `ShmSpec => []ShmTypeOK`, `[]CounterNeverAhead`, for finitely many writers and pixels |
| `Sharing_proofs!PubTypeCorrect`, `UpdatesDoNotCycle` | `PubSpec => []PubTypeOK`, `[]NoCyclicUpdates` |
| `ManagerSvc_proofs!MgrTypeCorrect`, `StoppedServicesStayStopped`, `AutoRestartsAreBounded` | `MgrSpec => []MgrTypeOK`, `[]StoppedStaysStopped` (with its exception for the signal handler), `[]AutoRestartBudget` |
| `ThreadPool_proofs!PoolTypeCorrect`, `StatusIsTrue`, `StoppedPoolIsEmpty` | `PoolSpec => []PoolTypeOK`, `[]StatusMatches`, `[]StoppedMeansGone` |
| `ThreadPool_proofs!ServiceTypeCorrect`, `ServiceKeepsPool` | `SvcSpec => []SvcTypeOK`, `[](StatusMatches /\ StoppedMeansGone)` |
| `InsInt_proofs!CommandTypeCorrect`, `OkIsTrue`, `NothingFailsFalsely` | `InsSpec => []InsTypeOK`, `[]OkOnlyIfEnded`, `[]NoFalseFailure` |
| `InsInt_proofs!SetsConclude`, `SetsConcludeForFiles` | `SetSpec => []SetsAreConclusive`, `FileSpec => []SetsAreConclusive` |
| `InsInt_proofs!FilesTypeCorrect`, `ReceivedFilesAreThere` | `FileSpec => []FileTypeOK`, `[]ReceivedIsOnDisk` (which begins with `AskedTwiceAtMost`) |
| `Services_proofs!ServicesTypeCorrect`, `ServicesKeepPromises` | `ServicesSpec => []ServicesTypeOK`, and `[]` of the ten other invariants of `services_safety` |

Assumptions are those the modules state about their constants, and the
hypotheses in the table.  Two of the assumptions say what the code's own use of
its classes implies.  `OneParent`: a task is in one set, once, since `initialize`
takes its tag, its pool and its shared values from the one parent it is given.
`RecvAssumption`: the sets a request makes hold transfers and nothing else, and
nobody but the request starts them, as `file_recv` builds them.  Of the leaves of
a set nothing is assumed but that they end with one of the results that the
model tells apart, a `TaskTimeout` among them.

### The mirror

* Type correctness says that no word sent overflows (PokeLine divides after it
  checks, Convert saturates) and that the pipe never holds more than it can.
  `FramingThread_proofs` has the lemmas about words, messages and streams, and
  what each step of the thread preserves, used by both systems.
* `WholeFrame` is not inductive by itself: that nobody writes a buffer being
  sent holds because the thread is in `sem_wait`, which needs that no post is
  left over.  The inductive invariant is `FrameInv`: `SemDiscipline`,
  `WholeFrame`, and that nothing counts as sent when no transfer runs.  The
  proof has one step per kind of step: those that copy to the buffers are
  outside `dmawait`, where `SemDiscipline` leaves no transfer
  (`QuietOutsideWait`); those of the board keep each clause; SIGINT stops the
  thread but not the board; a restart makes new buffers after the transfer.
* `StepNotCarriedOver` needs `StepInv`: `Step` is false where the thread is
  about to read a command or its arguments.
* `InSync` says something of the first element of the pipe only.  `StreamInv`
  is about the whole `Stream`, the pipe and behind it what the client still
  has to write: each command is followed by exactly its arguments (`Framed`;
  after LOAD the count, and after it so many words), and the stream begins with
  what the thread is about to read (`Reading`).  The thread takes from the front
  what `Reading` says; a client begins a message only when the last is written
  (`CliStreamInv`, `MainStreamInv`), so it appends whole messages; a write that
  blocks in the middle moves an element within the stream and changes nothing.
* `StoppedMeansStopped` needs `StopInv`: while the menu shows Stopped the thread
  is `Halting`, that is, there is a STOP in the stream with no RUN behind it, or
  no RUN at all and the thread does not run.  Opening the pipe comes before the
  first STOP, and the driver's `RunInv` differs accordingly: no RUN is ever
  sent, and until the thread has read the STOP of the start-up it has read
  nothing, so it is in no data mode.  That a STOP may lie in the pipe when the
  loop runs is why `OnlySteps` speaks of data mode 1 and not of `running`.
* `LoadMirrorsTable` and `FrameReachesBuffers` share `LoadInv`: the stream has
  the LOAD of the frame, and the words behind it are the frame's, or the thread
  has taken the LOAD: its user buffer agrees with the frame up to the word it
  reads next and the stream has the rest; or both DMA buffers hold it.  For the
  client the frame is its table, which a file shorter than the mirror does not
  send as a whole: hence the hypothesis of `LoadsArrive`, and
  `rhcli_short_file` shows that it is needed.
* `NoFrameHidden`: `CounterInv` orders the counter, what loop and writer have
  read of it, and what is served (`CountersOrdered`); says that the loop
  increments it at most once between the writer's load and store, because then
  it has a frame to send or an hour to wait (`OnceInBetween`); and that what was
  sent, or copied so far, is the image whenever the counter does not tell them
  apart, unless somebody will still increment it past the one served.
* The refinement: `frame` numbers the pictures, `Older(s, t)` compares two
  frames actuator by actuator.  `DisplayInv` is a chain from the mirror to the
  image: what the mirror shows is no newer than the DMA buffers, these than the
  user buffer, that than the LOAD being read, the LOADs in the stream are in
  order (`OrderInv`), the last is no newer than the copy of the loop, that than
  the image (`CopyInv`), and the image has nothing that was not yet published
  (`PictureInv`).  A step that shows a word is then a step of the display or a
  stutter.  `Undisturbed` (the writer waits for the loop's first frame, is not
  silent for an hour, the process is not killed) is needed: zeros of a sleep and
  the frame of a new process do follow newer frames on the mirror, and the
  promise does not extend to them.  `FramesDiffer` lets one see which frame an
  actuator shows: each word occurs in one frame only and is not zero.  These are
  the constants of `driver_display`, for any number of frames and actuators.

### The services

* `CounterNeverAhead` needs an account: `Owed` are the writers whose call has
  begun and is not counted, and `CountInv` says that the counter, and what any
  writer has read of it, leave room for an increment of each of them.  Lost
  increments only make more room.
* The manager: `MgrInv` says of every process object, in the map or not
  (`PoInv`), that there is a process, running or dead, only after a start by
  hand, and none after a stop by hand, so `check` finds nothing to restart.
  Except where the handler stops the object that main is checking: `check` has
  made its tests and starts the service again.  The property says so: `caught`
  marks the object from that stop until the next operation by hand, and ev_quit
  is set before the handler returns and main goes on (`HandlerOk`).  `MainOk` says what main
  knows at each place of `check` and `LastStop`, as far as the handler cannot
  have changed it.  The budget holds without an exception: `check` keeps it
  because one of its starts was made by hand, and a stop of the handler counts
  as a stop.  That a call may hold an object that has left the map does no harm,
  since the invariant is about objects and not about names.
* The pool: `PoolInv` counts the registered workers and ties the place of each
  caller to the status.  That `down` means that no thread is left needs that
  workers which have not registered yet exist only while the status is `start`,
  unless an interrupt came; that `startall` cannot begin before they have gone;
  and that a stop is only claimed by one who has seen `down`.  The service keeps
  it: its own steps are those of the pool's owner, and `SvcTypes` says that what
  its `QueueTaskset` adds to the pool are tasks of the pool.
* Commands: `CommandInv` says that a number stands for its command for ever
  (nothing is deleted, see section 5), that every message, every task and
  everything the instrument holds bears the number of its own command, and that
  a result is one the instrument has said.  All of it ends at a restart, which
  begins to count at 0 again, and so does the property.  For `NoFalseFailure`,
  which is about the absence of faults, `CalmInv` adds that each answer of a
  command is in one place, to be said, under way, in a task or in the record,
  and nowhere before the call: so no answer finds its field already taken, and
  an error in the record is one the instrument has reported.
* Sets: `SetsInv` says that the pool's queue has each task at most once; that a
  concurrent set accounts for each child it has started, which is in its list or
  done with the result the set has noted (the index and the list of `execute()`
  shrink and grow together with `addTask`); and that a sequence has started its
  children in order and read the result of each.  The file reception starts and
  abandons sets by its own steps, which `FilesKeepSets` covers.
* Files: `FileInv` says that a file that is complete and read-only stays so,
  since a transfer opens for writing only what is not read-only, and what each
  stage of a transfer and each collected status has established.  chmod and stat
  are two looks at the directory, between which another transfer may have put
  its own file there, and a rename may replace a file.  `ReceivedIsOnDisk` is
  therefore about frames that are asked for at most twice, with or without an
  older file: the file of one transfer can only be renamed by the other,
  before that one opens a file of its own, and no rename is left that could
  replace it (`FilesFit`); and where stat meets the file of the other, the
  transfer's own, which it has copied and made read-only, has been renamed and is
  there (`StagesTrue`).  With three transfers of a frame the property is false
  in the code, as section 5 says, so the hypothesis is needed.
* Updates: `NamesInv` says that the list of names of each task has nobody twice
  and does not have the pubsub at which a received update is; `BunchInv` that a
  task works on a record there is.  This is about the path of one copy.  Where
  two paths lead to a pubsub it gets a copy by each and carries both on, in the
  code as in the model; neither goes round.
* Together: `PartsInv` is the conjunction of these invariants.  `OneMoves` says
  that a step of the bench is a step or a stutter of each component, where the
  pool may move alone or under its service and the sets alone or under the file
  reception, so each keeps its invariant.

The ranges of machine words are kept folded (`MaxWord`, `Word`) in the proofs:
they need only `0 \in Word`, that `Word` is closed under the operations used,
and bounds on two divisions.

Model-checked and not proved: all liveness, and with it the last conjunct of
`DmDisplay` (`EventuallyShown`), since fairness and ENABLED are beyond the
prover.  The properties of the five runs that find a disagreement are false.

## 5. Where code and documentation disagree

1. **test shows no test pattern** (`rh/thread.c:523`): the pattern goes into the
   user buffers and is not copied to the DMA buffers that are sent.
2. **a halted loop is shown as running** (`rh/thread.c:558`): the client is not
   told, its menu shows "Running" and refuses the lower rate the thread's
   message advises.
3. **short files** (`rh/rhcli.c:492`): the words of a file with fewer lines
   than actuators are scattered over the table, but only its beginning is sent.
4. **sleep at start-up** (`rh/runBMCcacao_VMETRO.c:790`): the time of the last
   update starts in 1970, so a frame that is being written when the driver
   makes its first check is wiped although no hour has passed.
5. **the manager leaves a process behind** (`ro/remoteObjectManagerSvc.py:698`):
   "When we stop, everything we control stops!", but the shutdown walks once
   over the names while clients are still served.

Seen while modelling, without a run of their own (the models do what the code
does):

* Mirror: the thread frames the boot pattern from its first tick, before the
  STOP of the start-up arrives (`rh/thread.c:57`); `scexao_shm.py` loses
  increments when two processes call `set_data` at once.
* Manager: a signal that arrives while main checks a service whose process has
  died stops the service, and the check that goes on afterwards starts it again;
  only the last shutdown stops it for good.  `remove` of a service that the loop is about to check raises in
  `__get_po` and ends the main program; `stopall` stops half-way when a name has
  gone; the manager's `restart` does not reset the count of stops as
  `processObj.restart` does ("Manual restarts reset the stopcount"), which
  nothing calls, so a service that has used up its restarts stays without them.
* Commands: the sequence number is restored from a key under which nothing is
  stored; `del_trans` looks for fields that records do not have, so no
  transaction is deleted, although its docstring says it is; a repeated
  `send_cmd` of a tag is done at once and without a result; a call that is
  repeated after a failure reaches the instrument twice.
* Pool: `notify` wakes one of several waiters; `addThreads` uses a field that
  does not exist; workers of `startall(wait=False)` do not register.
* Sets: a child that ends with a TaskTimeout is polled for ever; an empty set
  ends with an exception; which of several values is returned is arbitrary.
* Files: an exception that is no TaskError (a rename that lost a race, the frame
  database) ends a request without a DE; transfers go on after their request has
  been answered with an error; a file is accepted by its size alone; renamed files
  are told apart by the second, so that with three transfers of a frame within
  one a file that was answered for is replaced; a request that cannot be unpacked
  or names no frames is acknowledged and gets no DE.
* PubSub: the "never to remove" of `publish_to` is overwritten when the other
  one renews its own subscription; a subscriber whose record was deleted while
  it stayed in the channels is told nothing, and each update to it ends with an
  unbound variable, until it renews; `computed_channels` never shrinks;
  updates may overtake each other.

## 6. What the models leave out

* Printing, menus, help, malformed arguments and unknown commands (they change
  nothing); end of file on stdin; malformed lines of a file, which leave
  `iActValue` as it was.
* Unknown command bytes: the thread ignores them and no client sends them.
* Bytes: elements of the pipe are whole arguments; a word split at a full pipe
  is a listed hazard without a property.
* The length of a tick, the PIO lines other than their failure, skipped-frame
  counts, `cnt1`, `cntloop`, timing logs, `FrameNum` beyond the pattern number.
* Memory is sequentially consistent per access; the machines are x86, and the
  loop's accesses are loads, and stores in program order.
* The writer of `dmvolt` is not stopped for an hour inside a frame, and does
  not die inside one.
* The user buffers are locked in memory, so `copyToKernel` cannot fault; a
  restart begins after the last transfer of the killed process.
* Creation, metadata and keywords of shared-memory images.
* Callbacks, pause and stop of tasks (`check_state`), `addThreads`, `reset` and
  `killall` of the pool; so nothing is claimed of the end of a service's stop,
  which depends on the quit event its `QueueTaskset` inherits.
* Message layouts and checksums of the instrument protocol, the channels for
  status and through commands, FITS over RPC.
* The processes the manager starts (output, signals other than that they may
  not die), its queries and load averages; the crash of the manager itself,
  which keeps nothing on disk.
* A signal during the handler of another one, and in the steps of a client's
  call (handlers run in the main thread only).
* `unsubscribe`, `deaggregate`, local subscribers and callbacks of a pubsub;
  values of updates; authentication.
* Everything `PROJECT.json` lists as `not_modelled`, with its reason.  The
  largest parts, by lines, are simulators, displays, status derivation, parsers
  and vendored libraries: sequential computation, drawing and I/O, with no
  protocol between actors of which a property could be stated.

## 7. Plan

Done: all modules, runs and theorems above, in the order of importance: what
reaches the mirror, then the services it is reached through.

Next models, in this order:

1. **NameSvc** (`ro/remoteObjectNameSvc.py`): register, ping, purge and lookup
   over lossy calls, replicated through PubSub; a live service is eventually
   found, a dead one dropped.  A ping during `purgeDead` is its hazard.
2. **Monitor** (`ro/Monitor.py`): trees of values with time stamps over PubSub;
   old values never overwrite new ones although updates overtake each other.
3. **TaskManager** (`gen2/Gen2/TaskManager.py`): queues, priorities and
   cancellation over the tasks modelled here.
4. **DmTrigger** (`rh/dm_trigger.c`): the file-triggered driver over the same
   `FramingThread`.
5. A byte-level pipe under `CommandFifo` for the split word.

Next proofs: with each of these models its types and the property named above;
of those there are, nothing that the prover can reach is left out.  Worth a
theorem of its own is the refinement of `DmDisplay` with sleeps and restarts,
for which the abstract specification must first say what a restart may show.
