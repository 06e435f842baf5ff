---------------------------- MODULE FramingThread ----------------------------
(***************************************************************************)
(* thread_code and rh_timer_callback of thread.c: the real-time thread     *)
(* that, once per timer tick, reads at most one command from the pipe,     *)
(* carries it out, and then, when it is running or has been asked for one  *)
(* step, starts the DMA transfer of a frame and waits for its end.         *)
(*                                                                         *)
(* Control is kept per tick: "tick" (before the nonblocking read of the    *)
(* command byte), the states in which the thread spins for the arguments   *)
(* of the command, "frame" (after the switch), "dmawait" (in sem_wait).    *)
(* The length of a tick, the PIO strobe lines and the count of skipped     *)
(* transfers, which the thread only prints, are left out; so is FrameNum,  *)
(* which only numbers the test patterns.                                   *)
(***************************************************************************)
EXTENDS DmaEngine

CONSTANT
  TestNibbles    \* values of FrameNum % 16 considered: a subset of 0..15

ASSUME NibbleAssumption == TestNibbles \subseteq 0 .. 15 /\ TestNibbles # {}

VARIABLES
  tpc,           \* where the thread is
  Run, Step, Term,
  iDataMode,     \* 0 clear, 1 load, 2 poke, 3 test pattern
  iErrorMode,    \* halt on error
  userBuf,       \* pUserBuffer[0] and [1]: every assignment sets both
  idx,           \* double buffer index
  count,         \* PokeIndex: number of words a LOAD announced
  next,          \* i: the actuator the next word of a LOAD is for
  Rate,          \* frame rate (Hz)
  strobe         \* <<Strobe, Fixed>>

threadVars == <<tpc, Run, Step, Term, iDataMode, iErrorMode, userBuf, idx,
                count, next, Rate, strobe>>
flagVars   == <<Step, Term, iDataMode, iErrorMode>>
loadVars   == <<count, next>>
timeVars   == <<Rate, strobe>>

(* user_buffer_elements words; pattern n has its number in the top nibble  *)
(* and one of twelve bits walking through the actuators.                   *)
ShiftPat     == <<1, 2, 4, 8, 16, 32, 64, 128, 256, 512, 1024, 2048>>
TestFrame(n) == [a \in Act |-> 4096 * n + ShiftPat[((a - 1) % 12) + 1]]

(* Outcomes of setting the strobe line: a failure stops the loop.          *)
PioOutcomes == {TRUE} \cup {FALSE : f \in Faults \cap {"ioctl"}}

-----------------------------------------------------------------------------
(* The static initial values of thread.c; the user buffers come from       *)
(* posix_memalign and are not cleared: any content, here the boot frame.   *)
ThreadInit == /\ tpc = "setup"
              /\ Run = TRUE /\ Step = FALSE /\ Term = FALSE
              /\ iDataMode = 0
              /\ iErrorMode = FALSE
              /\ userBuf = BootFrame
              /\ idx = 0
              /\ count = 0 /\ next = 1
              /\ Rate = 1200
              /\ strobe = <<10, 0>>

(* thread_code up to the first tick: the device, its interrupt, the        *)
(* buffers, then open(O_RDONLY|O_NONBLOCK) of the pipe.                    *)
Setup == /\ tpc = "setup"
         /\ \/ tpc' = "tick"
            \/ "setup" \in Faults /\ tpc' = "dead"
         /\ UNCHANGED <<fifoVars, dmaVars, Run, flagVars, userBuf, idx,
                        loadVars, timeVars>>

(* The nonblocking read found the pipe empty.                              *)
NoCommand == /\ tpc = "tick"
             /\ fifo = << >>
             /\ \E ok \in PioOutcomes : Run' = (Run /\ ok)
             /\ tpc' = "frame"
             /\ UNCHANGED <<fifoVars, dmaVars, flagVars, userBuf, idx,
                            loadVars, timeVars>>

(* The common part of the commands: raise the strobe, read the code c.     *)
Command(c) == tpc = "tick" /\ ReadItem /\ Head(fifo).val = c

(* Mutant: STOP does not clear Run. *)
StopCommand_KeepsRun == /\ Command(STOP_CMD)
                        /\ tpc' = "frame"
                        /\ UNCHANGED <<dmaVars, Run, flagVars, userBuf, idx, loadVars,
                                       timeVars>>

StopCommand == /\ Command(STOP_CMD)
               /\ Run' = FALSE
               /\ tpc' = "frame"
               /\ UNCHANGED <<dmaVars, flagVars, userBuf, idx, loadVars, timeVars>>

RunCommand == /\ Command(RUN_CMD)
              /\ Run' = TRUE
              /\ tpc' = "frame"
              /\ UNCHANGED <<dmaVars, flagVars, userBuf, idx, loadVars, timeVars>>

StepCommand == /\ Command(STEP_CMD)
               /\ \E ok \in PioOutcomes : Run' = (Run /\ ok)
               /\ Step' = TRUE
               /\ tpc' = "frame"
               /\ UNCHANGED <<dmaVars, Term, iDataMode, iErrorMode, userBuf, idx,
                              loadVars, timeVars>>

ClearCommand == /\ Command(CLEAR_CMD)
                /\ \E ok \in PioOutcomes : Run' = (Run /\ ok)
                /\ iDataMode' = 0
                /\ userBuf' = ZeroFrame
                /\ CopyToKernel(userBuf')
                /\ tpc' = "frame"
                /\ UNCHANGED <<dma, sent, irq, sem, dm, Step, Term, iErrorMode, idx,
                               loadVars, timeVars>>

TestCommand == /\ Command(TEST_CMD)
               /\ \E ok \in PioOutcomes : Run' = (Run /\ ok)
               /\ iDataMode' = 3
               /\ tpc' = "frame"
               /\ UNCHANGED <<dmaVars, Step, Term, iErrorMode, userBuf, idx,
                              loadVars, timeVars>>

(* Mutant: TERM only stops framing. *)
TermCommand_OnlyStops == /\ Command(TERM_CMD)
                         /\ Run' = FALSE
                         /\ tpc' = "frame"
                         /\ UNCHANGED <<dmaVars, flagVars, userBuf, idx, loadVars, timeVars>>

TermCommand == /\ Command(TERM_CMD)
               /\ \E ok \in PioOutcomes : Run' = (Run /\ ok)
               /\ Term' = TRUE
               /\ tpc' = "frame"
               /\ UNCHANGED <<dmaVars, Step, iDataMode, iErrorMode, userBuf, idx,
                              loadVars, timeVars>>

(* LOAD and POKE start from zero unless the last data command was the same *)
EnterMode(mode) ==
  /\ userBuf' = IF iDataMode = mode THEN userBuf ELSE ZeroFrame
  /\ iDataMode' = mode

LoadCommand == /\ Command(LOAD_CMD)
               /\ \E ok \in PioOutcomes : Run' = (Run /\ ok)
               /\ EnterMode(1)
               /\ tpc' = "count"
               /\ UNCHANGED <<dmaVars, Step, Term, iErrorMode, idx, loadVars, timeVars>>

PokeCommand == /\ Command(POKE_CMD)
               /\ \E ok \in PioOutcomes : Run' = (Run /\ ok)
               /\ EnterMode(2)
               /\ tpc' = "poke"
               /\ UNCHANGED <<dmaVars, Step, Term, iErrorMode, idx, loadVars, timeVars>>

(* The commands whose arguments change no frame.                           *)
SettingCommand == /\ \/ Command(HALTERR_CMD)   /\ tpc' = "halterr"
                     \/ Command(FRAMERATE_CMD) /\ tpc' = "rate"
                     \/ Command(STROBE_CMD)    /\ tpc' = "strobe"
                  /\ \E ok \in PioOutcomes : Run' = (Run /\ ok)
                  /\ UNCHANGED <<dmaVars, flagVars, userBuf, idx, loadVars, timeVars>>

-----------------------------------------------------------------------------
(* The arguments.  The thread spins until they are in the pipe.            *)
LoadCount == /\ tpc = "count"
             /\ ReadItem
             /\ count' = Head(fifo).val
             /\ next' = 1
             /\ IF count' = 0
                  THEN CopyToKernel(userBuf) /\ tpc' = "frame"
                  ELSE UNCHANGED dmaBuf /\ tpc' = "load"
             /\ UNCHANGED <<dma, sent, irq, sem, dm, Run, flagVars, userBuf, idx,
                            timeVars>>

(* Mutant: the loop over the words ends one too early. *)
LoadWord_Short == /\ tpc = "load"
                  /\ ReadItem
                  /\ userBuf' = [userBuf EXCEPT ![next] = Head(fifo).val]
                  /\ next' = next + 1
                  /\ IF next >= count - 1
                       THEN CopyToKernel(userBuf') /\ tpc' = "frame"
                       ELSE UNCHANGED <<dmaBuf, tpc>>
                  /\ UNCHANGED <<dma, sent, irq, sem, dm, Run, flagVars, idx, count,
                                 timeVars>>

LoadWord == /\ tpc = "load"
            /\ ReadItem
            /\ userBuf' = [userBuf EXCEPT ![next] = Head(fifo).val]
            /\ next' = next + 1
            /\ IF next = count
                 THEN CopyToKernel(userBuf') /\ tpc' = "frame"
                 ELSE UNCHANGED <<dmaBuf, tpc>>
            /\ UNCHANGED <<dma, sent, irq, sem, dm, Run, flagVars, idx, count, timeVars>>

(* Actuator indices are 0-based in the pipe; one out of range is ignored.  *)
PokeArgs == /\ tpc = "poke"
            /\ Len(fifo) >= 2
            /\ LET index == fifo[1].val
                   value == fifo[2].val
               IN userBuf' = IF index < NumAct
                               THEN [userBuf EXCEPT ![index + 1] = value]
                               ELSE userBuf
            /\ fifo' = SubSeq(fifo, 3, Len(fifo))
            /\ CopyToKernel(userBuf')
            /\ tpc' = "frame"
            /\ UNCHANGED <<out, dma, sent, irq, sem, dm, Run, flagVars, idx,
                           loadVars, timeVars>>

HalterrArg == /\ tpc = "halterr"
              /\ ReadItem
              /\ iErrorMode' = (Head(fifo).val # 0)
              /\ tpc' = "frame"
              /\ UNCHANGED <<dmaVars, Run, Step, Term, iDataMode, userBuf, idx,
                             loadVars, timeVars>>

FramerateArg == /\ tpc = "rate"
                /\ ReadItem
                /\ Rate' = Head(fifo).val
                /\ tpc' = "frame"
                /\ UNCHANGED <<dmaVars, Run, flagVars, userBuf, idx, loadVars, strobe>>

StrobeArgs == /\ tpc = "strobe"
              /\ Len(fifo) >= 2
              /\ strobe' = <<fifo[1].val, fifo[2].val>>
              /\ fifo' = SubSeq(fifo, 3, Len(fifo))
              /\ tpc' = "frame"
              /\ UNCHANGED <<out, dmaVars, Run, flagVars, userBuf, idx, loadVars, Rate>>
-----------------------------------------------------------------------------
Framing == (Run \/ Step) /\ ~Term

(* No frame in this tick; while (Term == 0) ends the loop.                 *)
NoFrame == /\ tpc = "frame"
           /\ ~Framing
           /\ tpc' = IF Term THEN "cleanup" ELSE "tick"
           /\ UNCHANGED <<fifoVars, dmaVars, Run, flagVars, userBuf, idx, loadVars,
                          timeVars>>

(* The test pattern is put into the user buffers only.                     *)
FillPattern == IF iDataMode = 3
                 THEN \E n \in TestNibbles : userBuf' = TestFrame(n)
                 ELSE UNCHANGED userBuf

StartFrame == /\ tpc = "frame"
              /\ Framing
              /\ FillPattern
              /\ \E ok \in PioOutcomes : Run' = (Run /\ ok)
              /\ StartDma(idx)
              /\ idx' = 1 - idx
              /\ tpc' = "dmawait"
              /\ UNCHANGED <<fifoVars, flagVars, loadVars, timeVars>>

(* Mutant: a skipped frame leaves the step pending. *)
SkipFrame_KeepsStep == /\ "dmastart" \in Faults
                       /\ tpc = "frame"
                       /\ Framing
                       /\ FillPattern
                       /\ \E ok \in PioOutcomes : Run' = (Run /\ ok /\ ~iErrorMode)
                       /\ tpc' = "tick"
                       /\ UNCHANGED <<fifoVars, dmaVars, flagVars, idx, loadVars, timeVars>>

(* startDmaTransfer fails: the loop halts if halt on error is set, and     *)
(* the frame is skipped in any case.                                       *)
SkipFrame == /\ "dmastart" \in Faults
             /\ tpc = "frame"
             /\ Framing
             /\ FillPattern
             /\ \E ok \in PioOutcomes : Run' = (Run /\ ok /\ ~iErrorMode)
             /\ Step' = FALSE
             /\ tpc' = "tick"
             /\ UNCHANGED <<fifoVars, dmaVars, Term, iDataMode, iErrorMode, idx,
                            loadVars, timeVars>>

(* Mutant: compiled without USE_SEMA. *)
FrameDone_NoWait == /\ tpc = "dmawait"
                    /\ Step' = FALSE
                    /\ tpc' = "tick"
                    /\ UNCHANGED <<fifoVars, dmaVars, Run, Term, iDataMode, iErrorMode,
                                   userBuf, idx, loadVars, timeVars>>

(* Mutant: Step is not reset. *)
FrameDone_KeepsStep == /\ tpc = "dmawait"
                       /\ SemWait
                       /\ tpc' = "tick"
                       /\ UNCHANGED <<fifoVars, Run, flagVars, userBuf, idx, loadVars,
                                      timeVars>>

FrameDone == /\ tpc = "dmawait"
             /\ SemWait
             /\ Step' = FALSE
             /\ tpc' = "tick"
             /\ UNCHANGED <<fifoVars, Run, Term, iDataMode, iErrorMode, userBuf, idx,
                            loadVars, timeVars>>

(* Buffers freed, strobes lowered, device closed; the pipe stays open.     *)
Cleanup == /\ tpc = "cleanup"
           /\ tpc' = "exited"
           /\ UNCHANGED <<fifoVars, dmaVars, Run, flagVars, userBuf, idx, loadVars,
                          timeVars>>

ReadCommand == \/ NoCommand \/ StopCommand \/ RunCommand \/ StepCommand
               \/ ClearCommand \/ TestCommand \/ TermCommand
               \/ LoadCommand \/ PokeCommand \/ SettingCommand

ReadArgs == \/ LoadCount \/ LoadWord \/ PokeArgs
            \/ HalterrArg \/ FramerateArg \/ StrobeArgs

EndTick == NoFrame \/ StartFrame \/ SkipFrame \/ FrameDone \/ Cleanup

ThreadStep == Setup \/ ReadCommand \/ ReadArgs \/ EndTick

(* The board runs beside the thread.                                       *)
HardwareStep == DmaNext /\ UNCHANGED <<fifoVars, threadVars>>

ThreadNext == ThreadStep \/ HardwareStep

-----------------------------------------------------------------------------
ThreadTypeOK ==
  /\ tpc \in {"setup", "tick", "count", "load", "halterr", "poke", "rate",
              "strobe", "frame", "dmawait", "cleanup", "exited", "dead"}
  /\ Run \in BOOLEAN /\ Step \in BOOLEAN /\ Term \in BOOLEAN
  /\ iDataMode \in 0 .. 3
  /\ iErrorMode \in BOOLEAN
  /\ userBuf \in Frame
  /\ idx \in Buffers
  /\ count \in Word /\ next \in Nat
  /\ Rate \in Word
  /\ strobe \in Word \X Word
  /\ DmaTypeOK

ArgStates == {"count", "load", "halterr", "poke", "rate", "strobe"}

(* The thread and its client agree on where a command begins: the element  *)
(* read next is a command byte exactly when the thread takes it for one.   *)
(* LOAD, POKE, STROBE... have no delimiter, so one argument read or        *)
(* written too many turns voltages into commands.                          *)
InSync == fifo # << >> =>
            /\ tpc = "tick"      => fifo[1].kind = "cmd"
            /\ tpc \in ArgStates => fifo[1].kind = "arg"

(* Every transfer has exactly one post of dmaDoneSemaphore_out and one     *)
(* wait for it, and the thread leaves sem_wait only when its own transfer  *)
(* is over: between frames nothing is in flight and no post is left over   *)
(* that would let a later sem_wait return early.                           *)
SemDiscipline == \/ dma # NoDma /\ ~irq /\ sem = 0 /\ tpc = "dmawait"
                 \/ dma = NoDma /\ irq /\ sem = 0 /\ tpc = "dmawait"
                 \/ dma = NoDma /\ ~irq /\ sem = 1 /\ tpc = "dmawait"
                 \/ /\ dma = NoDma /\ ~irq /\ sem = 0
                    /\ tpc = "dmawait" => "irq" \in Faults

(* The mirror gets the words of one frame: while a buffer is being sent    *)
(* nothing writes it, so the words already delivered still are its words.  *)
WholeFrame == \A a \in sent : dm[a] = dmaBuf[dma][a]

(* STEP asks for one frame: the request does not survive its tick, whether *)
(* the transfer was started, was skipped or the loop was running anyway.   *)
StepNotCarriedOver == tpc \in {"tick"} \cup ArgStates => ~Step
=============================================================================
