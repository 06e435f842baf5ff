----------------------------- MODULE RhCliSystem -----------------------------
(***************************************************************************)
(* The program rhcli: the command-line client of rhcli.c and the framing   *)
(* thread of thread.c, with the pipe between them and the DPIO2 board.     *)
(***************************************************************************)
EXTENDS FramingThread, RhCli

vars == <<fifoVars, dmaVars, threadVars, cliVars>>

Init == FifoInit /\ DmaInit /\ ThreadInit /\ CliInit

ReaderOpen == tpc \notin {"setup", "dead"}
ThreadOver == tpc \in {"exited", "dead"}

CliLoop == OpenFifo(ReaderOpen) \/ CliWrite \/ LoopTest \/ Join(ThreadOver)

User == CliCommand \/ Sigint

(* The process has exited.                                                 *)
Terminated == cpc = "exited" /\ UNCHANGED vars

Next == \/ ThreadNext /\ UNCHANGED cliVars
        \/ (CliLoop \/ User) /\ UNCHANGED <<dmaVars, threadVars>>
        \/ Terminated

Spec == Init /\ [][Next]_vars

(* The thread, the board and main are scheduled; nobody has to type.       *)
Fairness == /\ WF_vars(ThreadStep /\ UNCHANGED cliVars)
            /\ WF_vars(HardwareStep /\ UNCHANGED cliVars)
            /\ WF_vars(CliLoop /\ UNCHANGED <<dmaVars, threadVars>>)

FairSpec == Spec /\ Fairness

-----------------------------------------------------------------------------
TypeOK == FifoTypeOK /\ ThreadTypeOK /\ CliTypeOK

(* The user has a prompt and every command sent has been carried out.      *)
Settled == cpc = "prompt" /\ Drained /\ tpc = "tick"

(* Once its commands are carried out, the thread frames only if the client *)
(* believes it does: iState, on which the client decides whether step,     *)
(* framerate and strobe are allowed, never says stopped of a running loop. *)
StoppedMeansStopped == Settled /\ iState = STATE_STOP => ~Run

(* After a load both DMA buffers hold the client's whole table, whatever   *)
(* was in them before and however the words were cut up by the pipe.       *)
(* Stated for files that have a line for every actuator.                   *)
LoadMirrorsTable ==
  Settled /\ iDataMode = 1 => \A b \in Buffers : dmaBuf[b] = sActValue

(* What the repository says and the code does not do.                      *)

(* "Load all actuators with a test pattern": in test mode what is sent is  *)
(* a test pattern.                                                         *)
TestPatternShown ==
  iDataMode = 3 /\ dma # NoDma => \E n \in TestNibbles : dmaBuf[dma] = TestFrame(n)

(* "Status: Running" of the menu and "halted" of the thread: once all      *)
(* commands are carried out the loop runs exactly when the menu says so.   *)
RunsAsShown == Settled => (Run <=> iState = STATE_RUN)

(* "Load all actuators from an ASCII file", "Loading %d actuator values":  *)
(* every value the client has read from a file reaches the DMA buffers.    *)
EveryFileWordLoaded ==
  Settled /\ iDataMode = 1 =>
    \A a \in Act : sActValue[a] # 0 => dmaBuf[idx][a] = sActValue[a]

-----------------------------------------------------------------------------
(* Every command written is read to its last argument, even one longer     *)
(* than the pipe: writer and reader never wait for each other.             *)
CommandsConsumed == out # << >> ~> Drained

(* A step is served or dropped in its tick, and never stays pending.       *)
StepServed == Step ~> ~Step

(* Once the client is told to end and has left its prompt it does end:     *)
(* TERM reaches the thread and pthread_join returns.                       *)
QuitEnds == cpc = "joining" ~> cpc = "exited"

(* The user gets the first prompt.                                         *)
PromptComes == <>(cpc \in {"prompt", "exited"})
=============================================================================
