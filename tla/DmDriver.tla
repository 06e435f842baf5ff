------------------------------- MODULE DmDriver -------------------------------
(***************************************************************************)
(* The program runBMCcacao_VMETRO: the loop of DmLoop and the framing      *)
(* thread of thread.c with the pipe between them, the DPIO2 board, the     *)
(* image dmvolt and its writer, which is never stopped for an hour in the  *)
(* middle of a frame.  SIGINT ends the process at once (endme calls        *)
(* exit(0)), wherever its two threads are; the image and the mirror keep   *)
(* what they hold, and the program may be started again.                   *)
(***************************************************************************)
EXTENDS FramingThread, DmLoop

CONSTANTS
  MaxKills,    \* bound: how often SIGINT ends the program
  QuietStart   \* the writer begins only after the loop has sent one frame

ASSUME DriverAssumption == MaxKills \in Nat /\ QuietStart \in BOOLEAN

VARIABLE
  kills

vars == <<fifoVars, dmaVars, threadVars, streamVars, loopVars, kills>>

Init == /\ FifoInit /\ DmaInit /\ ThreadInit
        /\ StreamInit /\ LoopInit
        /\ kills = 0

ReaderOpen == tpc \notin {"setup", "dead"}
ThreadOver == tpc \in {"exited", "dead"}
Alive      == mpc \notin {"exited", "killed"}

Main == OpenFifo(ReaderOpen) \/ LoopStep \/ Join(ThreadOver)

(* exit(0) with neither TERM nor join.                                     *)
Sigint == /\ Alive
          /\ kills < MaxKills
          /\ kills' = kills + 1
          /\ mpc' = "killed"
          /\ UNCHANGED <<fifoVars, dmaVars, threadVars, streamVars, framecnt, seen, temp,
                         sActValue, mi, mcnt, late, hours>>

(* A new process, a new pipe, new DMA buffers, every variable of the two   *)
(* threads as in Init; nobody is so quick that the last transfer of the    *)
(* old process is still running.                                           *)
Restart == /\ mpc = "killed"
           /\ dma = NoDma
           /\ fifo' = << >> /\ out' = << >>
           /\ dmaBuf' = [b \in Buffers |-> BootFrame]
           /\ dma' = NoDma /\ sent' = {} /\ irq' = FALSE /\ sem' = 0
           /\ tpc' = "setup"
           /\ Run' = TRUE /\ Step' = FALSE /\ Term' = FALSE
           /\ iDataMode' = 0 /\ iErrorMode' = FALSE
           /\ userBuf' = BootFrame /\ idx' = 0
           /\ count' = 0 /\ next' = 1
           /\ Rate' = 1200 /\ strobe' = <<10, 0>>
           /\ mpc' = "opening"
           /\ framecnt' = -1 /\ seen' = 0
           /\ temp' = ZeroFrame /\ sActValue' = ZeroFrame
           /\ mi' = 1 /\ mcnt' = 0 /\ late' = TRUE
           /\ UNCHANGED <<dm, streamVars, hours, kills>>

ThreadAlone == /\ Alive
               /\ ThreadStep
               /\ UNCHANGED <<streamVars, loopVars, kills>>

BoardAlone == HardwareStep /\ UNCHANGED <<streamVars, loopVars, kills>>

MainAlone == /\ Alive
             /\ Main
             /\ UNCHANGED <<dmaVars, threadVars, writerVars, kills>>

WriterAlone == /\ WriterStep
               /\ QuietStart => framecnt >= 0
               /\ UNCHANGED <<fifoVars, dmaVars, threadVars, loopVars, kills>>

Environment == \/ /\ StatusQuit
                  /\ UNCHANGED <<fifoVars, dmaVars, threadVars, loopVars, kills>>
               \/ /\ HourPasses
                  /\ wpc = "idle"
                  /\ UNCHANGED <<dmaVars, threadVars, writerVars, kills>>

Terminated == ~Alive /\ UNCHANGED vars

Next == \/ ThreadAlone \/ BoardAlone \/ MainAlone \/ WriterAlone
        \/ Environment \/ Sigint \/ Restart \/ Terminated

Spec == Init /\ [][Next]_vars

(* The threads, the board and the writer are scheduled.                    *)
Fairness == /\ WF_vars(ThreadAlone) /\ WF_vars(BoardAlone)
            /\ WF_vars(MainAlone) /\ WF_vars(WriterAlone)

FairSpec == Spec /\ Fairness

-----------------------------------------------------------------------------
TypeOK == FifoTypeOK /\ ThreadTypeOK /\ StreamTypeOK /\ LoopTypeOK

(* The loop reads cnt0, then write, then the pixels; the writer stores     *)
(* pixels, then write, then cnt0, with no lock, and both increment cnt0.   *)
(* Still a counter that the loop has already served never hides a frame:   *)
(* what it sent last is the picture.                                       *)
NoFrameHidden ==
  mpc \in {"check", "gate", "idle"} /\ framecnt >= cnt0 /\ wpc = "idle" => temp = pix

(* Once a frame has been read from the pipe both DMA buffers hold exactly  *)
(* the words the loop sent, in the order of the mirror.                    *)
FrameReachesBuffers ==
  framecnt >= 0 /\ Drained /\ tpc \in {"tick", "dmawait"} =>
     \A b \in Buffers : dmaBuf[b] = sActValue

(* No frame of the loop is sent free-running: from the LOAD of the first   *)
(* one on each transfer answers one STEP, although the thread starts with  *)
(* Run set and finds the STOP of the startup commands in the pipe, where   *)
(* it may still lie when the loop already sends frames.                    *)
OnlySteps == iDataMode = 1 => ~Run

(* "if no command is received during this time, set DM to zero V": dmvolt  *)
(* is not zeroed before an hour has passed.                                *)
SleepOnlyAfterAnHour == mpc = "zero" => hours > 0

-----------------------------------------------------------------------------
Shown == \A a \in Act : dm[DmMap[a]] = Convert(pix[a])

(* However the writer, the two threads and the board are interleaved, the  *)
(* mirror ends with the last frame written, as long as the loop runs.      *)
Settles == <>[](Shown \/ ~Running)

(* An hour after the last frame the mirror goes to zero volts.             *)
IdleGoesToZero ==
  (WriterDone /\ framecnt = cnt0 /\ late) ~> (dm = ZeroFrame \/ ~Running)

(* After the status says so the program ends by itself, frames still in    *)
(* the pipe and a transfer in flight included.                             *)
QuitEnds == quit /\ Running ~> ~Alive
-----------------------------------------------------------------------------
(* The number of the frame of which w is the word of pixel a, 0 for what   *)
(* was there before the first.                                             *)
FrameOf(a, w) == LET frames == {k \in DOMAIN Commands : Convert(Commands[k][a]) = w}
                 IN IF frames = {} THEN 0 ELSE CHOOSE k \in frames : TRUE

Display == INSTANCE DmDisplay
             WITH Actuators <- Act,
                  MaxFrame  <- Len(Commands),
                  published <- [a \in Act |-> FrameOf(a, Convert(pix[a]))],
                  shown     <- [a \in Act |-> FrameOf(a, dm[DmMap[a]])],
                  on        <- Running

(* The program implements the display: frames are shown in order and the   *)
(* last one is shown.                                                      *)
ImplementsDisplay == Display!Spec
=============================================================================
