------------------------- MODULE FramingThread_proofs -------------------------
(***************************************************************************)
(* What is written to the pipe and read from it are words of sixteen bits; *)
(* what the framing thread and the board preserve, whoever is at the other *)
(* end of the pipe.  The proofs about the two programs cite these lemmas.  *)
(*                                                                         *)
(* The invariants are stated over the stream, what is in the pipe and      *)
(* what the client is still writing behind it: every command of it is      *)
(* followed by exactly its arguments, and it begins with what the thread   *)
(* is about to read (StreamInv); it ends in a STOP, or has no RUN and the  *)
(* thread stands (Halting); it has the LOAD of a frame, or the thread has  *)
(* taken that frame (LoadInv).                                             *)
(***************************************************************************)
EXTENDS FramingThread, SequenceTheorems, TLAPS

-----------------------------------------------------------------------------
(* Words and messages.                                                     *)

(* MaxWord is kept folded: the prover enumerates an interval of numerals.  *)
LEMMA WordBound == MaxWord \in Nat /\ 15677 <= MaxWord /\ 63488 <= MaxWord
  BY DEF MaxWord

(* The constants both clients send are words.                              *)
LEMMA SmallWord == \A k \in Nat : k <= 63488 => k \in Word
  BY WordBound DEF Word

(* So are the indices and the number of the actuators.                     *)
LEMMA ActIsWord == \A i \in 0 .. NumAct : i \in Word
  BY FifoAssumption, SmallWord

-----------------------------------------------------------------------------
(* What the client writes.                                                 *)

(* A word makes a command or an argument.                                  *)
LEMMA ItemTypes == \A v \in Word : Cmd(v) \in Item /\ Arg(v) \in Item
  BY DEF Cmd, Arg, Item

(* Every command but LOAD, with its arguments.                             *)
LEMMA SmallMsgTypes ==
  /\ \A c \in 0 .. 11 : <<Cmd(c)>> \in Seq(Item)
  /\ \A v \in Word : HalterrMsg(v) \in Seq(Item) /\ FramerateMsg(v) \in Seq(Item)
  /\ \A v, w \in Word : StrobeMsg(v, w) \in Seq(Item) /\ PokeMsg(v, w) \in Seq(Item)
  <1>1. \A c \in 0 .. 11 : Cmd(c) \in Item
      BY SmallWord, ItemTypes
  <1> QED BY <1>1, ItemTypes DEF HalterrMsg, FramerateMsg, StrobeMsg, PokeMsg, HALTERR_CMD,
                                 FRAMERATE_CMD, STROBE_CMD, POKE_CMD

(* The startup commands.                                                   *)
LEMMA StartupType == ASSUME NEW rate \in Word
                     PROVE  StartupMsgs(rate) \in Seq(Item)
  <1>1. <<Cmd(STOP_CMD)>> \in Seq(Item)
      BY SmallMsgTypes DEF STOP_CMD
  <1>2. 0 \in Word /\ 1 \in Word /\ 50 \in Word
      BY SmallWord
  <1>3. HalterrMsg(1) \in Seq(Item) /\ FramerateMsg(rate) \in Seq(Item)
           /\ StrobeMsg(50, 0) \in Seq(Item)
      BY <1>2, SmallMsgTypes
  <1> QED BY <1>1, <1>3, ConcatProperties DEF StartupMsgs

(* A LOAD with the words it carries.                                       *)
LEMMA LoadType ==
  ASSUME NEW words \in Seq(Word), Len(words) \in Word
  PROVE  LoadMsg(words) \in Seq(Item)
  <1>1. <<Cmd(LOAD_CMD), Arg(Len(words))>> \in Seq(Item)
    <2>1. LOAD_CMD \in Word
        BY SmallWord DEF LOAD_CMD
    <2> QED BY <2>1, ItemTypes
  <1>2. Args(words) \in Seq(Item)
    <2>1. \A i \in 1 .. Len(words) : Arg(words[i]) \in Item
        BY ItemTypes
    <2> QED BY <2>1 DEF Args
  <1> QED BY <1>1, <1>2, ConcatProperties DEF LoadMsg

-----------------------------------------------------------------------------
(* What read() leaves in the pipe is a pipe, and what it returns a word.   *)
LEMMA ReadItemType ==
  ASSUME FifoTypeOK, ReadItem
  PROVE  /\ FifoTypeOK'
         /\ Head(fifo).val \in Word
  <1>1. Head(fifo) \in Item /\ Tail(fifo) \in Seq(Item) /\ Len(Tail(fifo)) = Len(fifo) - 1
      BY DEF FifoTypeOK, ReadItem
  <1>2. Len(fifo) \in Nat
      BY DEF FifoTypeOK
  <1>3. FifoTypeOK'
      BY <1>1, <1>2, FifoAssumption DEF FifoTypeOK, ReadItem
  <1> QED BY <1>1, <1>3 DEF Item

(* The same for a read() of two arguments.                                 *)
LEMMA ReadTwoType ==
  ASSUME FifoTypeOK, Len(fifo) >= 2, fifo' = SubSeq(fifo, 3, Len(fifo)), UNCHANGED out
  PROVE  /\ FifoTypeOK'
         /\ fifo[1].val \in Word /\ fifo[2].val \in Word
  <1>1. fifo \in Seq(Item) /\ Len(fifo) \in Nat /\ Len(fifo) <= Capacity
      BY DEF FifoTypeOK
  <1>2. fifo[1] \in Item /\ fifo[2] \in Item
      BY <1>1
  <1>3. 3 \in Int /\ Len(fifo) \in Int /\ \A i \in 3 .. Len(fifo) : fifo[i] \in Item
      BY <1>1
  <1> DEFINE rest == SubSeq(fifo, 3, Len(fifo))
  <1>4. rest \in Seq(Item) /\ Len(rest) <= Len(fifo)
      BY <1>1, <1>3, SubSeqProperties
  <1>5. FifoTypeOK'
      BY <1>1, <1>4, FifoAssumption DEF FifoTypeOK, rest
  <1> QED BY <1>2, <1>5 DEF Item

(* A write() of the client.                                                *)
LEMMA ClientWriteType ==
  ASSUME FifoTypeOK, ClientWrite
  PROVE  FifoTypeOK'
  <1>1. Head(out) \in Item /\ Tail(out) \in Seq(Item) /\ out # << >>
      BY DEF ClientWrite, FifoTypeOK
  <1>2. /\ Append(fifo, Head(out)) \in Seq(Item)
        /\ Len(Append(fifo, Head(out))) = Len(fifo) + 1
      BY <1>1, AppendProperties DEF FifoTypeOK
  <1>3. Len(fifo) + 1 <= Capacity
      BY FifoAssumption DEF ClientWrite, FifoTypeOK
  <1> QED BY <1>1, <1>2, <1>3 DEF ClientWrite, FifoTypeOK

-----------------------------------------------------------------------------
(* The thread and the board.                                               *)

(* The twelve shifted bits fit below the top nibble.                       *)
LEMMA ShiftPatBound ==
  ASSUME NEW i \in 1 .. 12
  PROVE  ShiftPat[i] \in Nat /\ ShiftPat[i] <= 2048
  <1>1. \/ i = 1 \/ i = 2 \/ i = 3 \/ i = 4 \/ i = 5 \/ i = 6
        \/ i = 7 \/ i = 8 \/ i = 9 \/ i = 10 \/ i = 11 \/ i = 12
      OBVIOUS
  <1> QED BY <1>1 DEF ShiftPat

(* Every test pattern is a frame of unsigned shorts.                       *)
LEMMA TestFrameType == \A n \in TestNibbles : TestFrame(n) \in Frame
  <1> SUFFICES ASSUME NEW n \in TestNibbles, NEW a \in Act
               PROVE  4096 * n + ShiftPat[((a - 1) % 12) + 1] \in Word
      BY DEF TestFrame, Frame
  <1> DEFINE bit == ShiftPat[((a - 1) % 12) + 1]
  <1>1. n \in Int /\ 0 <= n /\ n <= 15
      BY NibbleAssumption
  <1>2. ((a - 1) % 12) + 1 \in 1 .. 12
      BY FifoAssumption DEF Act
  <1>3. bit \in Nat /\ bit <= 2048
      BY <1>2, ShiftPatBound
  <1> HIDE DEF bit
  <1>4. 4096 * n + bit \in Int /\ 0 <= 4096 * n + bit /\ 4096 * n + bit <= 63488
      BY <1>1, <1>3
  <1>5. 4096 * n + bit \in Word
      BY <1>4, WordBound DEF Word
  <1> QED BY <1>5 DEF bit

(* The words of the frames a program starts with.                          *)
LEMMA FirstFramesType == ZeroFrame \in Frame /\ BootFrame \in Frame
  BY WordBound DEF ZeroFrame, BootFrame, Frame, Word

(* The first state of the thread and of the board.                         *)
LEMMA InitialThreadTypes == DmaInit /\ ThreadInit => ThreadTypeOK
  <1> SUFFICES ASSUME DmaInit, ThreadInit
               PROVE  ThreadTypeOK
      OBVIOUS
  <1>1. 0 \in Word /\ 10 \in Word /\ 1200 \in Word
      BY SmallWord
  <1>2. DmaTypeOK
      BY FirstFramesType DEF DmaInit, DmaTypeOK
  <1>3. iDataMode \in 0 .. 3 /\ idx \in Buffers /\ next \in Nat /\ userBuf \in Frame
      BY FirstFramesType DEF ThreadInit, Buffers
  <1>4. count \in Word /\ Rate \in Word /\ strobe \in Word \X Word
      BY <1>1 DEF ThreadInit
  <1>5. Run \in BOOLEAN /\ Step \in BOOLEAN /\ Term \in BOOLEAN /\ iErrorMode \in BOOLEAN
      BY DEF ThreadInit
  <1>6. tpc = "setup"
      BY DEF ThreadInit
  <1> QED BY <1>2, <1>3, <1>4, <1>5, <1>6 DEF ThreadTypeOK

(* The thread and the board keep every variable of theirs, and the pipe,   *)
(* in its type.                                                            *)
LEMMA ThreadKeepsTypes ==
  ASSUME FifoTypeOK, ThreadTypeOK, ThreadNext
  PROVE  FifoTypeOK' /\ ThreadTypeOK'
  <1> USE FifoTypeOK, ThreadTypeOK
  <1>1. \A c : Command(c) => FifoTypeOK' /\ Head(fifo).val \in Word
      BY ReadItemType DEF Command
  <1>2. UNCHANGED fifoVars => FifoTypeOK'
      BY DEF FifoTypeOK, fifoVars
  <1>3. \A frame \in Frame : CopyToKernel(frame) => dmaBuf' \in [Buffers -> Frame]
      BY DEF CopyToKernel
  <1>4. CASE Setup
      BY <1>4, <1>2 DEF Setup, ThreadTypeOK, DmaTypeOK, dmaVars, flagVars, loadVars, timeVars
  <1>5. CASE ReadCommand
    <2>1. CASE NoCommand
        BY <2>1, <1>2 DEF NoCommand, ThreadTypeOK, DmaTypeOK, dmaVars, flagVars, loadVars, timeVars, PioOutcomes
    <2>2. CASE StopCommand
        BY <2>2, <1>1 DEF StopCommand, ThreadTypeOK, DmaTypeOK, dmaVars, flagVars, loadVars, timeVars
    <2>3. CASE RunCommand
        BY <2>3, <1>1 DEF RunCommand, ThreadTypeOK, DmaTypeOK, dmaVars, flagVars, loadVars, timeVars
    <2>4. CASE StepCommand
        BY <2>4, <1>1 DEF StepCommand, ThreadTypeOK, DmaTypeOK, dmaVars, loadVars, timeVars, PioOutcomes
    <2>5. CASE ClearCommand
      <3>1. dmaBuf' \in [Buffers -> Frame] /\ userBuf' \in Frame
          BY <2>5, <1>3, FirstFramesType DEF ClearCommand
      <3> QED BY <2>5, <3>1, <1>1 DEF ClearCommand, ThreadTypeOK, DmaTypeOK, loadVars, timeVars, PioOutcomes
    <2>6. CASE TestCommand
        BY <2>6, <1>1 DEF TestCommand, ThreadTypeOK, DmaTypeOK, dmaVars, loadVars, timeVars, PioOutcomes
    <2>7. CASE TermCommand
        BY <2>7, <1>1 DEF TermCommand, ThreadTypeOK, DmaTypeOK, dmaVars, loadVars, timeVars, PioOutcomes
    <2>8. \A mode \in 0 .. 3 : EnterMode(mode) => userBuf' \in Frame /\ iDataMode' \in 0 .. 3
        BY FirstFramesType DEF EnterMode, ThreadTypeOK
    <2>9. CASE LoadCommand
        BY <2>9, <2>8, <1>1 DEF LoadCommand, ThreadTypeOK, DmaTypeOK, dmaVars, loadVars, timeVars, PioOutcomes
    <2>10. CASE PokeCommand
        BY <2>10, <2>8, <1>1 DEF PokeCommand, ThreadTypeOK, DmaTypeOK, dmaVars, loadVars, timeVars, PioOutcomes
    <2>11. CASE SettingCommand
        BY <2>11, <1>1 DEF SettingCommand, ThreadTypeOK, DmaTypeOK, dmaVars, flagVars, loadVars, timeVars, PioOutcomes
    <2> QED BY <1>5, <2>1, <2>2, <2>3, <2>4, <2>5, <2>6, <2>7, <2>9, <2>10, <2>11 DEF ReadCommand
  <1>6. CASE ReadArgs
    <2>1. CASE LoadCount
      <3>1. FifoTypeOK' /\ count' \in Word
          BY <2>1, ReadItemType DEF LoadCount
      <3>2. dmaBuf' \in [Buffers -> Frame]
          BY <2>1, <1>3 DEF LoadCount, ThreadTypeOK, DmaTypeOK
      <3> QED BY <2>1, <3>1, <3>2 DEF LoadCount, ThreadTypeOK, DmaTypeOK, flagVars, timeVars
    <2>2. CASE LoadWord
      <3>1. FifoTypeOK' /\ Head(fifo).val \in Word
          BY <2>2, ReadItemType DEF LoadWord
      <3>2. userBuf' \in Frame
          BY <2>2, <3>1 DEF LoadWord, ThreadTypeOK, Frame
      <3>3. dmaBuf' \in [Buffers -> Frame]
          BY <2>2, <3>2, <1>3 DEF LoadWord, ThreadTypeOK, DmaTypeOK
      <3> QED BY <2>2, <3>1, <3>2, <3>3 DEF LoadWord, ThreadTypeOK, DmaTypeOK, flagVars, timeVars
    <2>3. CASE PokeArgs
      <3>1. FifoTypeOK' /\ fifo[2].val \in Word
          BY <2>3, ReadTwoType DEF PokeArgs
      <3>2. userBuf' \in Frame
          BY <2>3, <3>1 DEF PokeArgs, ThreadTypeOK, Frame
      <3>3. dmaBuf' \in [Buffers -> Frame]
          BY <2>3, <3>2, <1>3 DEF PokeArgs
      <3> QED BY <2>3, <3>1, <3>2, <3>3 DEF PokeArgs, ThreadTypeOK, DmaTypeOK, flagVars, loadVars, timeVars
    <2>4. CASE HalterrArg
        BY <2>4, ReadItemType DEF HalterrArg, ThreadTypeOK, DmaTypeOK, dmaVars, loadVars, timeVars
    <2>5. CASE FramerateArg
        BY <2>5, ReadItemType DEF FramerateArg, ThreadTypeOK, DmaTypeOK, dmaVars, flagVars, loadVars
    <2>6. CASE StrobeArgs
        BY <2>6, ReadTwoType DEF StrobeArgs, ThreadTypeOK, DmaTypeOK, dmaVars, flagVars, loadVars
    <2> QED BY <1>6, <2>1, <2>2, <2>3, <2>4, <2>5, <2>6 DEF ReadArgs
  <1>7. CASE EndTick
    <2>1. CASE NoFrame
        BY <2>1, <1>2 DEF NoFrame, ThreadTypeOK, DmaTypeOK, dmaVars, flagVars, loadVars, timeVars
    <2>2. FillPattern => userBuf' \in Frame
        BY TestFrameType DEF FillPattern, ThreadTypeOK
    <2>3. CASE StartFrame
        BY <2>3, <2>2, <1>2 DEF StartFrame, StartDma, ThreadTypeOK, DmaTypeOK, flagVars, loadVars, timeVars, Buffers, PioOutcomes
    <2>4. CASE SkipFrame
        BY <2>4, <2>2, <1>2 DEF SkipFrame, ThreadTypeOK, DmaTypeOK, dmaVars, loadVars, timeVars, PioOutcomes
    <2>5. CASE FrameDone
      <3>1. sem' \in Nat
          BY <2>5 DEF FrameDone, SemWait, DmaTypeOK, ThreadTypeOK
      <3>2. DmaTypeOK'
          BY <2>5, <3>1, Zenon DEF FrameDone, SemWait, DmaTypeOK, ThreadTypeOK
      <3> QED BY <2>5, <3>2, <1>2 DEF FrameDone, ThreadTypeOK, loadVars, timeVars
    <2>6. CASE Cleanup
        BY <2>6, <1>2 DEF Cleanup, ThreadTypeOK, DmaTypeOK, dmaVars, flagVars, loadVars, timeVars
    <2> QED BY <1>7, <2>1, <2>3, <2>4, <2>5, <2>6 DEF EndTick
  <1>8. CASE HardwareStep
    <2>1. FifoTypeOK' /\ UNCHANGED threadVars
        BY <1>8, <1>2 DEF HardwareStep
    <2>2. DmaTypeOK'
      <3>1. ASSUME NEW a \in Act, DmaWord(a)
            PROVE  DmaTypeOK'
          BY <3>1 DEF DmaWord, DmaTypeOK, ThreadTypeOK, Buffers, NoDma, Frame
      <3>2. CASE DmaEnd
          BY <3>2 DEF DmaEnd, DmaTypeOK, ThreadTypeOK
      <3>3. CASE DmaDoneNotifier
        <4>1. sem' \in Nat
            BY <3>3 DEF DmaDoneNotifier, DmaTypeOK, ThreadTypeOK
        <4> QED BY <3>3, <4>1, Zenon DEF DmaDoneNotifier, DmaTypeOK, ThreadTypeOK
      <3> QED BY <1>8, <3>1, <3>2, <3>3 DEF HardwareStep, DmaNext
    <2> QED BY <2>1, <2>2 DEF ThreadTypeOK, threadVars
  <1> QED BY <1>4, <1>5, <1>6, <1>7, <1>8 DEF ThreadNext, ThreadStep

-----------------------------------------------------------------------------
(* WholeFrame and SemDiscipline together are inductive once it is said     *)
(* that no word counts as sent between two transfers: the copies into the  *)
(* DMA buffers happen outside "dmawait", where SemDiscipline leaves no     *)
(* transfer in flight.                                                     *)
NothingSent == dma = NoDma => sent = {}

FrameInv == SemDiscipline /\ NothingSent /\ WholeFrame

(* No transfer is not a transfer of some buffer.                           *)
LEMMA NoDmaIsNone == NoDma \notin Buffers
  BY DEF NoDma, Buffers

(* Before the first tick nothing is in flight.                             *)
LEMMA FrameInvInit == DmaInit /\ ThreadInit => FrameInv
  BY DEF DmaInit, ThreadInit, FrameInv, SemDiscipline, NothingSent, WholeFrame

(* Outside sem_wait nothing is in flight.                                  *)
LEMMA QuietOutsideWait ==
  ASSUME FrameInv, tpc # "dmawait"
  PROVE  dma = NoDma /\ ~irq /\ sem = 0 /\ sent = {}
  BY DEF FrameInv, SemDiscipline, NothingSent

(* A step of the thread that neither enters nor leaves sem_wait and        *)
(* touches no more of the board than its buffers.                          *)
LEMMA BufferStepKeepsFrame ==
  ASSUME FrameInv, tpc # "dmawait", tpc' # "dmawait", UNCHANGED <<dma, sent, irq, sem, dm>>
  PROVE  FrameInv'
  <1>1. dma' = NoDma /\ ~irq' /\ sem' = 0 /\ sent' = {}
      BY QuietOutsideWait
  <1> QED BY <1>1 DEF FrameInv, SemDiscipline, NothingSent, WholeFrame

(* Every step of the thread keeps the frame invariant...                   *)
LEMMA ThreadStepKeepsFrame ==
  ASSUME FrameInv, ThreadTypeOK, ThreadStep
  PROVE  FrameInv'
  <1> USE FrameInv
  <1>1. CASE Setup \/ ReadCommand
    <2>1. tpc # "dmawait" /\ tpc' # "dmawait" /\ UNCHANGED <<dma, sent, irq, sem, dm>>
        BY <1>1 DEF Setup, ReadCommand, NoCommand, Command, StopCommand, RunCommand, StepCommand,
                    ClearCommand, TestCommand, TermCommand, LoadCommand, PokeCommand,
                    SettingCommand, dmaVars
    <2> QED BY <2>1, BufferStepKeepsFrame
  <1>2. CASE ReadArgs
    <2>1. tpc # "dmawait" /\ tpc' # "dmawait" /\ UNCHANGED <<dma, sent, irq, sem, dm>>
        BY <1>2 DEF ReadArgs, LoadCount, LoadWord, PokeArgs, HalterrArg, FramerateArg,
                    StrobeArgs, dmaVars
    <2> QED BY <2>1, BufferStepKeepsFrame
  <1>3. CASE NoFrame \/ SkipFrame \/ Cleanup
    <2>1. tpc # "dmawait" /\ tpc' # "dmawait" /\ UNCHANGED <<dma, sent, irq, sem, dm>>
        BY <1>3 DEF NoFrame, SkipFrame, Cleanup, dmaVars
    <2> QED BY <2>1, BufferStepKeepsFrame
  <1>4. CASE StartFrame
    <2>1. ~irq /\ sem = 0
        BY <1>4, QuietOutsideWait DEF StartFrame
    <2>2. dma' \in Buffers /\ sent' = {} /\ ~irq' /\ sem' = 0 /\ tpc' = "dmawait"
        BY <1>4, <2>1 DEF StartFrame, StartDma, ThreadTypeOK
    <2> QED BY <2>2, NoDmaIsNone DEF FrameInv, SemDiscipline, NothingSent, WholeFrame
  <1>5. CASE FrameDone
    <2>1. dma = NoDma /\ ~irq /\ sem = 1 /\ sent = {}
        BY <1>5 DEF FrameDone, SemWait, FrameInv, SemDiscipline, NothingSent
    <2>2. dma' = NoDma /\ ~irq' /\ sem' = 0 /\ sent' = {} /\ tpc' = "tick"
        BY <1>5, <2>1 DEF FrameDone, SemWait
    <2> QED BY <2>2 DEF FrameInv, SemDiscipline, NothingSent, WholeFrame
  <1> QED BY <1>1, <1>2, <1>3, <1>4, <1>5 DEF ThreadStep, EndTick

(* ... and so does every step of the board and of its notifier thread.     *)
LEMMA BoardKeepsFrame ==
  ASSUME FrameInv, ThreadTypeOK, HardwareStep
  PROVE  FrameInv'
  <1> USE FrameInv
  <1>1. tpc' = tpc
      BY DEF HardwareStep, threadVars
  <1>2. ASSUME NEW a \in Act, DmaWord(a)
        PROVE  FrameInv'
    <2>1. dma # NoDma /\ ~irq /\ sem = 0 /\ tpc = "dmawait"
        BY <1>2 DEF DmaWord, FrameInv, SemDiscipline
    <2>2. SemDiscipline' /\ NothingSent'
        BY <1>1, <1>2, <2>1 DEF DmaWord, SemDiscipline, NothingSent
    <2>3. ASSUME NEW b \in sent'
          PROVE  dm'[b] = dmaBuf'[dma'][b]
      <3>1. b \in Act /\ dm \in [Act -> Word]
          BY <1>2, <2>3 DEF DmaWord, ThreadTypeOK, DmaTypeOK, Frame
      <3>2. CASE b = a
          BY <1>2, <3>1, <3>2 DEF DmaWord
      <3>3. CASE b # a
          BY <1>2, <2>3, <3>1, <3>3 DEF DmaWord, FrameInv, WholeFrame
      <3> QED BY <3>2, <3>3
    <2> QED BY <2>2, <2>3 DEF FrameInv, WholeFrame
  <1>3. CASE DmaEnd
    <2>1. dma # NoDma /\ ~irq /\ sem = 0 /\ tpc = "dmawait"
        BY <1>3 DEF DmaEnd, FrameInv, SemDiscipline
    <2>2. dma' = NoDma /\ sent' = {} /\ sem' = 0 /\ tpc' = "dmawait"
        BY <1>1, <1>3, <2>1 DEF DmaEnd
    <2>3. irq' = TRUE \/ (~irq' /\ "irq" \in Faults)
        BY <1>3, <2>1 DEF DmaEnd
    <2> QED BY <2>2, <2>3 DEF FrameInv, SemDiscipline, NothingSent, WholeFrame
  <1>4. CASE DmaDoneNotifier
    <2>1. dma = NoDma /\ sem = 0 /\ sent = {} /\ tpc = "dmawait"
        BY <1>4 DEF DmaDoneNotifier, FrameInv, SemDiscipline, NothingSent
    <2>2. dma' = NoDma /\ ~irq' /\ sem' = 1 /\ sent' = {} /\ tpc' = "dmawait"
        BY <1>1, <1>4, <2>1 DEF DmaDoneNotifier
    <2> QED BY <2>2 DEF FrameInv, SemDiscipline, NothingSent, WholeFrame
  <1> QED BY <1>2, <1>3, <1>4 DEF HardwareStep, DmaNext

(* The two together.                                                       *)
LEMMA ThreadKeepsFrame ==
  ASSUME FrameInv, ThreadTypeOK, ThreadNext
  PROVE  FrameInv'
  BY ThreadStepKeepsFrame, BoardKeepsFrame DEF ThreadNext

-----------------------------------------------------------------------------
(* StepNotCarriedOver, with the state before the first tick.               *)
StepInv == tpc \in {"setup", "tick"} \cup ArgStates => ~Step

(* No step is pending at the start.                                        *)
LEMMA StepInvInit == ThreadInit => StepInv
  BY DEF ThreadInit, StepInv

(* What is left of it without the first state.                             *)
LEMMA StepInvImplies == StepInv => StepNotCarriedOver
  BY DEF StepInv, StepNotCarriedOver

(* Each path to the next tick resets Step, or finds it reset.              *)
LEMMA ThreadKeepsStep ==
  ASSUME StepInv, ThreadNext
  PROVE  StepInv'
  <1> USE StepInv DEF StepInv, ArgStates
  <1>1. CASE Setup
      BY <1>1 DEF Setup, flagVars
  <1>2. CASE ReadCommand
    <2>1. tpc = "tick"
        BY <1>2 DEF ReadCommand, NoCommand, Command, StopCommand, RunCommand, StepCommand,
                    ClearCommand, TestCommand, TermCommand, LoadCommand, PokeCommand,
                    SettingCommand
    <2>2. tpc' = "frame" \/ Step' = Step
        BY <1>2 DEF ReadCommand, NoCommand, StopCommand, RunCommand, StepCommand,
                    ClearCommand, TestCommand, TermCommand, LoadCommand, PokeCommand,
                    SettingCommand, flagVars
    <2> QED BY <2>1, <2>2
  <1>3. CASE ReadArgs
    <2>1. tpc \in ArgStates /\ Step' = Step
        BY <1>3 DEF ReadArgs, LoadCount, LoadWord, PokeArgs, HalterrArg, FramerateArg,
                    StrobeArgs, flagVars
    <2> QED BY <2>1
  <1>4. CASE NoFrame
      BY <1>4 DEF NoFrame, Framing, flagVars
  <1>5. CASE StartFrame \/ SkipFrame \/ FrameDone \/ Cleanup
    <2>1. tpc' \in {"dmawait", "exited"} \/ Step' = FALSE
        BY <1>5 DEF StartFrame, SkipFrame, FrameDone, Cleanup
    <2> QED BY <2>1
  <1>6. CASE HardwareStep
      BY <1>6 DEF HardwareStep, threadVars
  <1> QED BY <1>1, <1>2, <1>3, <1>4, <1>5, <1>6 DEF ThreadNext, ThreadStep, EndTick

-----------------------------------------------------------------------------
(* The stream: what the thread has still to read.                          *)

(* What is in the pipe and what is still being written behind it.          *)
Stream == fifo \o out

(* Number of arguments of a command; LOAD announces that of its words.     *)
NArgs(c) == IF c \in {HALTERR_CMD, FRAMERATE_CMD} THEN 1
            ELSE IF c \in {POKE_CMD, STROBE_CMD} THEN 2 ELSE 0

(* From element i on the stream s has n arguments, all of them, and then   *)
(* a command or nothing.                                                   *)
ArgsAt(s, i, n) == /\ i + n <= Len(s) + 1
                   /\ \A j \in i .. i + n - 1 : s[j].kind = "arg"
                   /\ i + n <= Len(s) => s[i + n].kind = "cmd"

(* The arguments of a LOAD: the number of words, then the words.           *)
CountedAt(s, i) == i <= Len(s) /\ ArgsAt(s, i, 1 + s[i].val)

(* Element i is a command with its arguments.                              *)
CommandAt(s, i) == /\ s[i].val = LOAD_CMD => CountedAt(s, i + 1)
                   /\ s[i].val # LOAD_CMD => ArgsAt(s, i + 1, NArgs(s[i].val))

(* Every command of the stream is followed by exactly its arguments.       *)
Framed(s) == \A i \in 1 .. Len(s) : s[i].kind = "cmd" => CommandAt(s, i)

(* The stream begins with the arguments the thread is about to read.       *)
Reading(s) ==
  /\ tpc = "count" => CountedAt(s, 1)
  /\ tpc = "load"  => next <= count /\ ArgsAt(s, 1, count - next + 1)
  /\ tpc \in {"halterr", "rate"} => ArgsAt(s, 1, 1)
  /\ tpc \in {"poke", "strobe"}  => ArgsAt(s, 1, 2)
  /\ tpc \notin ArgStates => ArgsAt(s, 1, 0)

StreamInv == Framed(Stream) /\ Reading(Stream)

(* t is what n reads leave of s.                                           *)
Skips(s, t, n) == /\ n <= Len(s)
                  /\ Len(t) = Len(s) - n
                  /\ \A i \in 1 .. Len(t) : t[i] = s[i + n]

(* The stream is made of items, and begins where the pipe does.            *)
LEMMA StreamType ==
  ASSUME FifoTypeOK
  PROVE  /\ Stream \in Seq(Item)
         /\ Len(fifo) <= Len(Stream)
         /\ \A i \in 1 .. Len(fifo) : Stream[i] = fifo[i]
  <1>1. fifo \in Seq(Item) /\ out \in Seq(Item)
      BY DEF FifoTypeOK
  <1> QED BY <1>1, ConcatProperties DEF Stream

(* It is after a step, too.                                                *)
LEMMA NextStreamType == ASSUME FifoTypeOK'
                        PROVE  Stream' \in Seq(Item)
  BY ConcatProperties DEF FifoTypeOK, Stream

(* A read() shortens the stream by what it returns.                        *)
LEMMA ReadItemSkips ==
  ASSUME FifoTypeOK, ReadItem
  PROVE  /\ FifoTypeOK'
         /\ Skips(Stream, Stream', 1)
         /\ Head(fifo) = Stream[1] /\ Stream[1] \in Item
  <1>1. fifo \in Seq(Item) /\ out \in Seq(Item) /\ fifo # << >>
      BY DEF FifoTypeOK, ReadItem
  <1>2. FifoTypeOK'
      BY ReadItemType
  <1>3. /\ Len(fifo') = Len(fifo) - 1 /\ fifo' \in Seq(Item) /\ out' = out
        /\ \A i \in 1 .. Len(fifo') : fifo'[i] = fifo[i + 1]
      BY <1>1, HeadTailProperties DEF ReadItem
  <1>4. /\ Stream \in Seq(Item) /\ Len(Stream) = Len(fifo) + Len(out)
        /\ \A i \in 1 .. Len(fifo) + Len(out) :
             Stream[i] = IF i <= Len(fifo) THEN fifo[i] ELSE out[i - Len(fifo)]
      BY <1>1, ConcatProperties DEF Stream
  <1>5. /\ Len(Stream') = Len(fifo') + Len(out)
        /\ \A i \in 1 .. Len(fifo') + Len(out) :
             Stream'[i] = IF i <= Len(fifo') THEN fifo'[i] ELSE out[i - Len(fifo')]
      BY <1>1, <1>3, ConcatProperties DEF Stream
  <1>6. Len(fifo) \in Nat /\ Len(out) \in Nat /\ Len(fifo) > 0
      BY <1>1
  <1>7. Skips(Stream, Stream', 1)
    <2>1. Len(Stream') = Len(Stream) - 1 /\ 1 <= Len(Stream)
        BY <1>3, <1>4, <1>5, <1>6
    <2>2. ASSUME NEW i \in 1 .. Len(Stream')
          PROVE  Stream'[i] = Stream[i + 1]
      <3>1. CASE i <= Len(fifo')
          BY <3>1, <2>1, <1>3, <1>4, <1>5, <1>6
      <3>2. CASE i > Len(fifo')
          BY <3>2, <2>1, <1>3, <1>4, <1>5, <1>6
      <3> QED BY <3>1, <3>2, <1>3, <1>6
    <2> QED BY <2>1, <2>2 DEF Skips
  <1>8. Head(fifo) = Stream[1] /\ Stream[1] \in Item
      BY <1>1, <1>4, <1>6
  <1> QED BY <1>2, <1>7, <1>8

(* The same for two arguments.                                             *)
LEMMA ReadTwoSkips ==
  ASSUME FifoTypeOK, Len(fifo) >= 2, fifo' = SubSeq(fifo, 3, Len(fifo)), UNCHANGED out
  PROVE  /\ FifoTypeOK'
         /\ Skips(Stream, Stream', 2)
  <1>1. fifo \in Seq(Item) /\ out \in Seq(Item) /\ Len(fifo) \in Nat /\ Len(out) \in Nat
      BY DEF FifoTypeOK
  <1>2. FifoTypeOK'
      BY ReadTwoType
  <1>3. \A i \in 3 .. Len(fifo) : fifo[i] \in Item
      BY <1>1
  <1>4. /\ Len(fifo') = IF 3 <= Len(fifo) THEN Len(fifo) - 3 + 1 ELSE 0
        /\ \A i \in 1 .. Len(fifo) - 3 + 1 : fifo'[i] = fifo[3 + i - 1]
      BY <1>1, <1>3, SubSeqProperties
  <1>5. /\ Len(fifo') = Len(fifo) - 2 /\ fifo' \in Seq(Item)
        /\ \A i \in 1 .. Len(fifo') : fifo'[i] = fifo[i + 2]
    <2> DEFINE n == Len(fifo)
               m == Len(fifo')
    <2>0. n \in Nat /\ n >= 2 /\ m = IF 3 <= n THEN n - 3 + 1 ELSE 0
        BY <1>1, <1>4
    <2> HIDE DEF n, m
    <2>1. m = n - 2
        BY <2>0
    <2> USE DEF n, m
    <2>2. ASSUME NEW i \in 1 .. Len(fifo')
          PROVE  fifo'[i] = fifo[i + 2]
      <3>1. i \in 1 .. Len(fifo) - 3 + 1 /\ 3 + i - 1 = i + 2
          BY <1>1, <2>1 DEF n, m
      <3> QED BY <3>1, <1>4
    <2> QED BY <2>1, <2>2, <1>2 DEF FifoTypeOK
  <1>6. /\ Len(Stream) = Len(fifo) + Len(out)
        /\ \A i \in 1 .. Len(fifo) + Len(out) :
             Stream[i] = IF i <= Len(fifo) THEN fifo[i] ELSE out[i - Len(fifo)]
      BY <1>1, ConcatProperties DEF Stream
  <1>7. /\ Len(Stream') = Len(fifo') + Len(out)
        /\ \A i \in 1 .. Len(fifo') + Len(out) :
             Stream'[i] = IF i <= Len(fifo') THEN fifo'[i] ELSE out[i - Len(fifo')]
      BY <1>1, <1>5, ConcatProperties DEF Stream
  <1>8. Skips(Stream, Stream', 2)
    <2>1. Len(Stream') = Len(Stream) - 2 /\ 2 <= Len(Stream)
        BY <1>1, <1>5, <1>6, <1>7
    <2>2. ASSUME NEW i \in 1 .. Len(Stream')
          PROVE  Stream'[i] = Stream[i + 2]
      <3>1. /\ Len(fifo) \in Nat /\ Len(out) \in Nat /\ Len(fifo') = Len(fifo) - 2
            /\ 2 <= Len(fifo)
            /\ i \in 1 .. Len(fifo') + Len(out) /\ i + 2 \in 1 .. Len(fifo) + Len(out)
          BY <1>1, <1>5, <1>6, <1>7, <2>1
      <3>2. Stream'[i] = IF i <= Len(fifo') THEN fifo'[i] ELSE out[i - Len(fifo')]
          BY <1>7, <3>1
      <3>3. Stream[i + 2] = IF i + 2 <= Len(fifo) THEN fifo[i + 2] ELSE out[i + 2 - Len(fifo)]
          BY <1>6, <3>1
      <3>4. PICK n \in Nat : n = Len(fifo)
          BY <3>1
      <3>5. PICK m \in Nat : m = Len(fifo')
          BY <3>1, <3>4
      <3>6. m = n - 2 /\ i \in Nat
          BY <3>1, <3>4, <3>5
      <3>7. CASE i <= m
        <4>1. i \in 1 .. m /\ i + 2 <= n
            BY <3>1, <3>6, <3>7
        <4> QED BY <1>5, <3>2, <3>3, <3>4, <3>5, <3>7, <4>1
      <3>8. CASE ~(i <= m)
        <4>1. ~(i + 2 <= n) /\ i + 2 - n = i - m
            BY <3>6, <3>8
        <4> QED BY <3>2, <3>3, <3>4, <3>5, <3>8, <4>1
      <3> QED BY <3>7, <3>8
    <2> QED BY <2>1, <2>2 DEF Skips
  <1> QED BY <1>2, <1>8

(* A write() of the client moves an element along the stream.              *)
LEMMA ClientWriteStream ==
  ASSUME FifoTypeOK, ClientWrite
  PROVE  Stream' = Stream
  <1>1. fifo \in Seq(Item) /\ out \in Seq(Item) /\ out # << >>
      BY DEF FifoTypeOK, ClientWrite
  <1>2. Head(out) \in Item /\ Tail(out) \in Seq(Item) /\ <<Head(out)>> \in Seq(Item)
      BY <1>1
  <1>3. Append(fifo, Head(out)) = fifo \o <<Head(out)>>
      BY <1>1, <1>2, AppendIsConcat
  <1>4. <<Head(out)>> \o Tail(out) = out
      BY <1>1, <1>2
  <1>5. (fifo \o <<Head(out)>>) \o Tail(out) = fifo \o (<<Head(out)>> \o Tail(out))
      BY <1>1, <1>2, ConcatAssociative
  <1> QED BY <1>3, <1>4, <1>5 DEF ClientWrite, Stream

(* What is left of a framed stream is framed.                              *)
LEMMA ArgsSkip ==
  ASSUME NEW s \in Seq(Item), NEW t \in Seq(Item), NEW n \in Nat, Skips(s, t, n),
         NEW i \in Nat \ {0}, NEW k \in Nat, ArgsAt(s, i + n, k)
  PROVE  ArgsAt(t, i, k)
  <1>1. Len(s) \in Nat /\ Len(t) \in Nat
      OBVIOUS
  <1>2. i + k <= Len(t) + 1
      BY <1>1 DEF Skips, ArgsAt
  <1>3. ASSUME NEW j \in i .. i + k - 1
        PROVE  t[j].kind = "arg"
    <2>1. j \in 1 .. Len(t) /\ j + n \in i + n .. i + n + k - 1
        BY <1>1, <1>2
    <2> QED BY <2>1 DEF Skips, ArgsAt
  <1>4. ASSUME i + k <= Len(t)
        PROVE  t[i + k].kind = "cmd"
    <2>1. i + k \in 1 .. Len(t) /\ i + k + n = i + n + k /\ i + n + k <= Len(s)
        BY <1>1, <1>4 DEF Skips
    <2> QED BY <2>1 DEF Skips, ArgsAt
  <1> QED BY <1>2, <1>3, <1>4 DEF ArgsAt

(* NArgs is a small number.                                                *)
LEMMA NArgsType == \A c : NArgs(c) \in Nat
  BY DEF NArgs

(* The words of an item can be counted.                                    *)
LEMMA ValType == ASSUME NEW s \in Seq(Item), NEW i \in 1 .. Len(s)
                 PROVE  s[i].val \in Nat
  <1>1. s[i] \in Item
      OBVIOUS
  <1>2. s[i].val \in 0 .. MaxWord
      BY <1>1 DEF Item, Word
  <1> QED BY <1>2, WordBound

(* What is left of the arguments of a LOAD.                                *)
LEMMA CountedSkip ==
  ASSUME NEW s \in Seq(Item), NEW t \in Seq(Item), NEW n \in Nat, Skips(s, t, n),
         NEW i \in Nat \ {0}, CountedAt(s, i + n)
  PROVE  CountedAt(t, i)
  <1>1. i + n <= Len(s) /\ i \in 1 .. Len(t) /\ i + n \in 1 .. Len(s) /\ t[i] = s[i + n]
      BY DEF CountedAt, Skips
  <1>2. 1 + s[i + n].val \in Nat
      BY <1>1, ValType
  <1>3. ArgsAt(t, i, 1 + s[i + n].val)
      BY <1>2, ArgsSkip DEF CountedAt
  <1> QED BY <1>1, <1>3 DEF CountedAt

(* The commands of what is left have their arguments.                      *)
LEMMA FramedSkip ==
  ASSUME NEW s \in Seq(Item), NEW t \in Seq(Item), NEW n \in Nat, Skips(s, t, n), Framed(s)
  PROVE  Framed(t)
  <1> SUFFICES ASSUME NEW i \in 1 .. Len(t), t[i].kind = "cmd"
               PROVE  CommandAt(t, i)
      BY DEF Framed
  <1>1. t[i] = s[i + n] /\ i + n \in 1 .. Len(s) /\ i \in Nat \ {0} /\ i + 1 \in Nat \ {0}
      BY DEF Skips
  <1>2. CommandAt(s, i + n) /\ (i + n) + 1 = (i + 1) + n
      BY <1>1 DEF Framed
  <1>3. CASE t[i].val = LOAD_CMD
    <2>1. CountedAt(s, (i + 1) + n)
        BY <1>1, <1>2, <1>3 DEF CommandAt
    <2>2. CountedAt(t, i + 1)
        BY <2>1, <1>1, CountedSkip
    <2> QED BY <1>3, <2>2 DEF CommandAt
  <1>4. CASE t[i].val # LOAD_CMD
    <2>1. ArgsAt(s, (i + 1) + n, NArgs(t[i].val))
        BY <1>1, <1>2, <1>4 DEF CommandAt
    <2>2. ArgsAt(t, i + 1, NArgs(t[i].val))
        BY <2>1, <1>1, ArgsSkip, NArgsType
    <2> QED BY <1>4, <2>2 DEF CommandAt
  <1> QED BY <1>3, <1>4

-----------------------------------------------------------------------------
(* Streams put one behind the other.                                       *)

(* What \o does, for streams.                                              *)
LEMMA Concat ==
  ASSUME NEW s \in Seq(Item), NEW t \in Seq(Item)
  PROVE  /\ s \o t \in Seq(Item)
         /\ Len(s \o t) = Len(s) + Len(t)
         /\ \A i \in 1 .. Len(s) : (s \o t)[i] = s[i]
         /\ \A i \in 1 .. Len(t) : (s \o t)[Len(s) + i] = t[i]
  <1>1. Len(s) \in Nat /\ Len(t) \in Nat
      OBVIOUS
  <1>2. /\ s \o t \in Seq(Item) /\ Len(s \o t) = Len(s) + Len(t)
        /\ \A i \in 1 .. Len(s) + Len(t) :
             (s \o t)[i] = IF i <= Len(s) THEN s[i] ELSE t[i - Len(s)]
      BY ConcatProperties
  <1>3. ASSUME NEW i \in 1 .. Len(t)
        PROVE  (s \o t)[Len(s) + i] = t[i]
    <2>1. Len(s) + i \in 1 .. Len(s) + Len(t) /\ ~(Len(s) + i <= Len(s))
            /\ Len(s) + i - Len(s) = i
        BY <1>1
    <2> QED BY <2>1, <1>2
  <1>4. ASSUME NEW i \in 1 .. Len(s)
        PROVE  (s \o t)[i] = s[i]
    <2>1. i \in 1 .. Len(s) + Len(t) /\ i <= Len(s)
        BY <1>1
    <2> QED BY <2>1, <1>2
  <1> QED BY <1>2, <1>3, <1>4

(* The arguments of a command stay with it when commands are put behind.   *)
LEMMA ArgsBefore ==
  ASSUME NEW s \in Seq(Item), NEW t \in Seq(Item), ArgsAt(t, 1, 0),
         NEW i \in Nat \ {0}, NEW k \in Nat, ArgsAt(s, i, k)
  PROVE  ArgsAt(s \o t, i, k)
  <1> DEFINE u == s \o t
  <1>1. /\ Len(s) \in Nat /\ Len(t) \in Nat /\ Len(u) = Len(s) + Len(t)
        /\ \A j \in 1 .. Len(s) : u[j] = s[j]
        /\ \A j \in 1 .. Len(t) : u[Len(s) + j] = t[j]
      BY Concat
  <1> HIDE DEF u
  <1>2. i + k <= Len(s) + 1 /\ i + k <= Len(u) + 1
      BY <1>1 DEF ArgsAt
  <1>3. ASSUME NEW j \in i .. i + k - 1
        PROVE  u[j].kind = "arg"
    <2>1. j \in 1 .. Len(s)
        BY <1>1, <1>2
    <2> QED BY <1>1, <2>1 DEF ArgsAt
  <1>4. ASSUME i + k <= Len(u)
        PROVE  u[i + k].kind = "cmd"
    <2>1. CASE i + k <= Len(s)
      <3>1. i + k \in 1 .. Len(s)
          BY <2>1
      <3> QED BY <1>1, <3>1 DEF ArgsAt
    <2>2. CASE i + k = Len(s) + 1
      <3>1. 1 \in 1 .. Len(t) /\ 1 + 0 <= Len(t)
          BY <1>1, <1>4, <2>2
      <3>2. t[1].kind = "cmd"
          BY <3>1 DEF ArgsAt
      <3> QED BY <1>1, <3>1, <3>2, <2>2
    <2> QED BY <1>2, <1>1, <2>1, <2>2
  <1>5. ArgsAt(u, i, k)
      BY <1>2, <1>3, <1>4 DEF ArgsAt
  <1> QED BY <1>5 DEF u

(* The same, wherever the arguments are in the second stream.              *)
LEMMA ArgsBehind ==
  ASSUME NEW s \in Seq(Item), NEW t \in Seq(Item),
         NEW i \in Nat \ {0}, NEW k \in Nat, ArgsAt(t, i, k)
  PROVE  ArgsAt(s \o t, Len(s) + i, k)
  <1> DEFINE u == s \o t
             n == Len(s)
  <1>1. /\ n \in Nat /\ Len(t) \in Nat /\ Len(u) = n + Len(t)
        /\ \A j \in 1 .. Len(t) : u[n + j] = t[j]
      BY Concat
  <1> HIDE DEF u, n
  <1>2. (n + i) + k <= Len(u) + 1
      BY <1>1 DEF ArgsAt
  <1>3. ASSUME NEW j \in n + i .. (n + i) + k - 1
        PROVE  u[j].kind = "arg"
    <2>1. j - n \in i .. i + k - 1 /\ j - n \in 1 .. Len(t) /\ n + (j - n) = j
        BY <1>1 DEF ArgsAt
    <2> QED BY <1>1, <2>1 DEF ArgsAt
  <1>4. ASSUME (n + i) + k <= Len(u)
        PROVE  u[(n + i) + k].kind = "cmd"
    <2>1. i + k \in 1 .. Len(t) /\ i + k <= Len(t) /\ n + (i + k) = (n + i) + k
        BY <1>1, <1>4
    <2> QED BY <1>1, <2>1 DEF ArgsAt
  <1>5. ArgsAt(u, n + i, k)
      BY <1>2, <1>3, <1>4 DEF ArgsAt
  <1> QED BY <1>5 DEF u, n

(* And for the arguments of a LOAD.                                        *)
LEMMA CountedBefore ==
  ASSUME NEW s \in Seq(Item), NEW t \in Seq(Item), ArgsAt(t, 1, 0),
         NEW i \in Nat \ {0}, CountedAt(s, i)
  PROVE  CountedAt(s \o t, i)
  <1>1. i \in 1 .. Len(s)
      BY DEF CountedAt
  <1>2. (s \o t)[i] = s[i] /\ i <= Len(s \o t)
      BY <1>1, Concat
  <1>3. 1 + s[i].val \in Nat
      BY <1>1, ValType
  <1>4. ArgsAt(s \o t, i, 1 + s[i].val)
      BY <1>3, ArgsBefore DEF CountedAt
  <1> QED BY <1>2, <1>4 DEF CountedAt

(* The arguments of a LOAD, behind another stream.                         *)
LEMMA CountedBehind ==
  ASSUME NEW s \in Seq(Item), NEW t \in Seq(Item),
         NEW i \in Nat \ {0}, CountedAt(t, i)
  PROVE  CountedAt(s \o t, Len(s) + i)
  <1>1. i \in 1 .. Len(t)
      BY DEF CountedAt
  <1>2. (s \o t)[Len(s) + i] = t[i] /\ Len(s) + i <= Len(s \o t)
      BY <1>1, Concat
  <1>3. 1 + t[i].val \in Nat
      BY <1>1, ValType
  <1>4. ArgsAt(s \o t, Len(s) + i, 1 + t[i].val)
      BY <1>3, ArgsBehind DEF CountedAt
  <1> QED BY <1>2, <1>4 DEF CountedAt

(* Whole commands put behind whole commands.                               *)
Message(m) == m \in Seq(Item) /\ Framed(m) /\ ArgsAt(m, 1, 0)

(* Whole commands put behind whole commands.                               *)
LEMMA FramedConcat ==
  ASSUME NEW s \in Seq(Item), Framed(s), NEW t, Message(t)
  PROVE  Framed(s \o t)
  <1> DEFINE u == s \o t
             n == Len(s)
  <1>1. /\ t \in Seq(Item) /\ n \in Nat /\ Len(t) \in Nat /\ Len(u) = n + Len(t)
        /\ \A j \in 1 .. n : u[j] = s[j]
        /\ \A j \in 1 .. Len(t) : u[n + j] = t[j]
      BY Concat DEF Message
  <1> HIDE DEF u, n
  <1>2. ASSUME NEW i \in 1 .. n, s[i].kind = "cmd"
        PROVE  CommandAt(u, i)
    <2>1. CommandAt(s, i) /\ u[i] = s[i] /\ i + 1 \in Nat \ {0}
        BY <1>1, <1>2 DEF Framed, n
    <2>2. s[i].val = LOAD_CMD => CountedAt(u, i + 1)
        BY <2>1, <1>1, CountedBefore DEF CommandAt, Message, u
    <2>3. s[i].val # LOAD_CMD => ArgsAt(u, i + 1, NArgs(s[i].val))
        BY <2>1, <1>1, ArgsBefore, NArgsType DEF CommandAt, Message, u
    <2> QED BY <2>1, <2>2, <2>3 DEF CommandAt
  <1>3. ASSUME NEW i \in 1 .. Len(t), t[i].kind = "cmd"
        PROVE  CommandAt(u, n + i)
    <2>1. u[n + i] = t[i] /\ i + 1 \in Nat \ {0} /\ n + (i + 1) = (n + i) + 1
        BY <1>1
    <2>4. CommandAt(t, i)
        BY <1>3 DEF Framed, Message
    <2>2. t[i].val = LOAD_CMD => CountedAt(u, n + (i + 1))
        BY <2>1, <2>4, <1>1, CountedBehind DEF CommandAt, u, n
    <2>3. t[i].val # LOAD_CMD => ArgsAt(u, n + (i + 1), NArgs(t[i].val))
        BY <2>1, <2>4, <1>1, ArgsBehind, NArgsType DEF CommandAt, u, n
    <2> QED BY <2>1, <2>2, <2>3 DEF CommandAt
  <1>4. ASSUME NEW i \in 1 .. Len(u), u[i].kind = "cmd"
        PROVE  CommandAt(u, i)
    <2>1. CASE i <= n
        BY <1>1, <1>2, <1>4, <2>1
    <2>2. CASE i > n
      <3>1. i - n \in 1 .. Len(t) /\ n + (i - n) = i
          BY <1>1, <2>2
      <3>2. t[i - n].kind = "cmd"
          BY <1>1, <1>4, <3>1
      <3>3. CommandAt(u, n + (i - n))
          BY <1>3, <3>1, <3>2
      <3> QED BY <3>1, <3>3
    <2> QED BY <1>1, <2>1, <2>2
  <1>5. Framed(u)
      BY <1>4 DEF Framed
  <1> QED BY <1>5 DEF u

(* Two messages in one.                                                    *)
LEMMA MessageConcat ==
  ASSUME NEW s, Message(s), NEW t, Message(t)
  PROVE  Message(s \o t)
  <1>1. s \o t \in Seq(Item) /\ Framed(s \o t)
      BY Concat, FramedConcat DEF Message
  <1>2. ArgsAt(s \o t, 1, 0)
      BY ArgsBefore DEF Message
  <1> QED BY <1>1, <1>2 DEF Message

(* What the thread is reading goes on when commands are put behind.        *)
LEMMA ReadingConcat ==
  ASSUME NEW s \in Seq(Item), Reading(s), NEW t, Message(t), ThreadTypeOK
  PROVE  Reading(s \o t)
  <1>1. t \in Seq(Item) /\ ArgsAt(t, 1, 0)
      BY DEF Message
  <1>2. tpc = "count" => CountedAt(s \o t, 1)
      BY <1>1, CountedBefore DEF Reading
  <1>3. tpc = "load"  => next <= count /\ ArgsAt(s \o t, 1, count - next + 1)
    <2> SUFFICES ASSUME tpc = "load"
                 PROVE  next <= count /\ ArgsAt(s \o t, 1, count - next + 1)
        OBVIOUS
    <2>1. next <= count /\ ArgsAt(s, 1, count - next + 1)
        BY DEF Reading
    <2>2. count \in Nat /\ next \in Nat
        BY WordBound DEF ThreadTypeOK, Word
    <2>3. count - next + 1 \in Nat
        BY <2>1, <2>2
    <2> QED BY <1>1, <2>1, <2>3, ArgsBefore
  <1>4. tpc \in {"halterr", "rate"} => ArgsAt(s \o t, 1, 1)
      BY <1>1, ArgsBefore DEF Reading
  <1>5. tpc \in {"poke", "strobe"}  => ArgsAt(s \o t, 1, 2)
      BY <1>1, ArgsBefore DEF Reading
  <1>6. tpc \notin ArgStates => ArgsAt(s \o t, 1, 0)
      BY <1>1, ArgsBefore DEF Reading
  <1> QED BY <1>2, <1>3, <1>4, <1>5, <1>6 DEF Reading

(* A client whose last write() has ended writes whole commands.            *)
LEMMA WritesMessage ==
  ASSUME FifoTypeOK, ThreadTypeOK, StreamInv, out = << >>, fifo' = fifo, Message(out'),
         UNCHANGED <<tpc, count, next>>
  PROVE  StreamInv' /\ Stream' = Stream \o out'
  <1>1. fifo \in Seq(Item) /\ Stream = fifo
      BY ConcatEmptySeq DEF FifoTypeOK, Stream
  <1>2. Stream' = Stream \o out'
      BY <1>1 DEF Stream
  <1>3. Framed(Stream \o out') /\ Reading(Stream \o out')
      BY <1>1, FramedConcat, ReadingConcat DEF StreamInv
  <1>4. Reading(Stream)'
      BY <1>2, <1>3 DEF Reading
  <1> QED BY <1>2, <1>3, <1>4 DEF StreamInv

-----------------------------------------------------------------------------
(* The commands of the clients are whole.                                  *)

(* Writing nothing, and the commands without arguments.                    *)
LEMMA NoMessage == Message(<< >>)
  BY DEF Message, Framed, ArgsAt

PlainCommands == {RUN_CMD, STOP_CMD, STEP_CMD, CLEAR_CMD, TEST_CMD, TERM_CMD}

LEMMA PlainMessage == ASSUME NEW c \in PlainCommands
                      PROVE  Message(<<Cmd(c)>>)
  <1>1. c # LOAD_CMD /\ NArgs(c) = 0 /\ c \in 0 .. 11
      BY DEF PlainCommands, RUN_CMD, STOP_CMD, STEP_CMD, CLEAR_CMD, TEST_CMD, TERM_CMD,
             LOAD_CMD, HALTERR_CMD, FRAMERATE_CMD, POKE_CMD, STROBE_CMD, NArgs
  <1> DEFINE m == <<Cmd(c)>>
  <1>2. m \in Seq(Item)
      BY <1>1, SmallMsgTypes
  <1>3. Len(m) = 1 /\ m[1].kind = "cmd" /\ m[1].val = c
      BY DEF Cmd
  <1> HIDE DEF m
  <1>4. ArgsAt(m, 1, 0) /\ ArgsAt(m, 2, 0)
      BY <1>3 DEF ArgsAt
  <1>5. Framed(m)
      BY <1>1, <1>3, <1>4 DEF Framed, CommandAt
  <1> QED BY <1>2, <1>4, <1>5 DEF Message, m

(* A command with one argument.                                            *)
LEMMA OneArgMessage ==
  ASSUME NEW c \in {HALTERR_CMD, FRAMERATE_CMD}, NEW v \in Word
  PROVE  Message(<<Cmd(c), Arg(v)>>)
  <1>1. c # LOAD_CMD /\ NArgs(c) = 1 /\ c \in 0 .. 11
      BY DEF LOAD_CMD, HALTERR_CMD, FRAMERATE_CMD, NArgs
  <1> DEFINE m == <<Cmd(c), Arg(v)>>
  <1>2. m \in Seq(Item)
    <2>1. Cmd(c) \in Item /\ Arg(v) \in Item
        BY <1>1, SmallWord, ItemTypes
    <2> QED BY <2>1
  <1>3. Len(m) = 2 /\ m[1].kind = "cmd" /\ m[1].val = c /\ m[2].kind = "arg"
      BY DEF Cmd, Arg
  <1> HIDE DEF m
  <1>4. ArgsAt(m, 1, 0) /\ ArgsAt(m, 2, 1)
      BY <1>3 DEF ArgsAt
  <1>5. Framed(m)
    <2> SUFFICES ASSUME NEW i \in 1 .. Len(m), m[i].kind = "cmd"
                 PROVE  CommandAt(m, i)
        BY DEF Framed
    <2>1. i = 1
        BY <1>3
    <2> QED BY <2>1, <1>1, <1>3, <1>4 DEF CommandAt
  <1> QED BY <1>2, <1>4, <1>5 DEF Message, m

(* A command with two arguments.                                           *)
LEMMA TwoArgMessage ==
  ASSUME NEW c \in {POKE_CMD, STROBE_CMD}, NEW v \in Word, NEW w \in Word
  PROVE  Message(<<Cmd(c), Arg(v), Arg(w)>>)
  <1>1. c # LOAD_CMD /\ NArgs(c) = 2 /\ c \in 0 .. 11
      BY DEF LOAD_CMD, HALTERR_CMD, FRAMERATE_CMD, POKE_CMD, STROBE_CMD, NArgs
  <1> DEFINE m == <<Cmd(c), Arg(v), Arg(w)>>
  <1>2. m \in Seq(Item)
    <2>1. Cmd(c) \in Item /\ Arg(v) \in Item /\ Arg(w) \in Item
        BY <1>1, SmallWord, ItemTypes
    <2> QED BY <2>1
  <1>3. Len(m) = 3 /\ m[1].kind = "cmd" /\ m[1].val = c /\ m[2].kind = "arg"
           /\ m[3].kind = "arg"
      BY DEF Cmd, Arg
  <1> HIDE DEF m
  <1>4. ArgsAt(m, 1, 0) /\ ArgsAt(m, 2, 2)
      BY <1>3 DEF ArgsAt
  <1>5. Framed(m)
    <2> SUFFICES ASSUME NEW i \in 1 .. Len(m), m[i].kind = "cmd"
                 PROVE  CommandAt(m, i)
        BY DEF Framed
    <2>1. i = 1
        BY <1>3
    <2> QED BY <2>1, <1>1, <1>3, <1>4 DEF CommandAt
  <1> QED BY <1>2, <1>4, <1>5 DEF Message, m

(* The commands that set the thread up, and POKE.                          *)
LEMMA SettingMessages ==
  /\ \A v \in Word : Message(HalterrMsg(v)) /\ Message(FramerateMsg(v))
  /\ \A v, w \in Word : Message(StrobeMsg(v, w)) /\ Message(PokeMsg(v, w))
  BY OneArgMessage, TwoArgMessage DEF HalterrMsg, FramerateMsg, StrobeMsg, PokeMsg

(* What both clients send first.                                           *)
LEMMA StartupMessage == ASSUME NEW rate \in Word
                        PROVE  Message(StartupMsgs(rate))
  <1>1. Message(<<Cmd(STOP_CMD)>>)
      BY PlainMessage DEF PlainCommands
  <1>2. 0 \in Word /\ 1 \in Word /\ 50 \in Word
      BY SmallWord
  <1>3. Message(HalterrMsg(1)) /\ Message(FramerateMsg(rate)) /\ Message(StrobeMsg(50, 0))
      BY <1>2, SettingMessages
  <1> QED BY <1>1, <1>3, MessageConcat DEF StartupMsgs

(* The elements of a LOAD.                                                 *)
LEMMA LoadElements ==
  ASSUME NEW words \in Seq(Word), Len(words) \in Word
  PROVE  /\ LoadMsg(words) \in Seq(Item)
         /\ Len(LoadMsg(words)) = Len(words) + 2
         /\ LoadMsg(words)[1] = Cmd(LOAD_CMD)
         /\ LoadMsg(words)[2] = Arg(Len(words))
         /\ \A a \in 1 .. Len(words) : LoadMsg(words)[2 + a] = Arg(words[a])
  <1>1. <<Cmd(LOAD_CMD), Arg(Len(words))>> \in Seq(Item)
    <2>1. LOAD_CMD \in Word
        BY SmallWord DEF LOAD_CMD
    <2> QED BY <2>1, ItemTypes
  <1>2. Args(words) \in Seq(Item) /\ Len(Args(words)) = Len(words)
          /\ \A a \in 1 .. Len(words) : Args(words)[a] = Arg(words[a])
    <2>1. \A i \in 1 .. Len(words) : Arg(words[i]) \in Item
        BY ItemTypes
    <2> QED BY <2>1 DEF Args
  <1> DEFINE head == <<Cmd(LOAD_CMD), Arg(Len(words))>>
  <1>3. Len(head) = 2 /\ head[1] = Cmd(LOAD_CMD) /\ head[2] = Arg(Len(words))
      OBVIOUS
  <1>4. /\ head \o Args(words) \in Seq(Item)
        /\ Len(head \o Args(words)) = Len(head) + Len(Args(words))
        /\ \A i \in 1 .. Len(head) : (head \o Args(words))[i] = head[i]
        /\ \A i \in 1 .. Len(Args(words)) : (head \o Args(words))[Len(head) + i] = Args(words)[i]
      BY <1>1, <1>2, Concat
  <1>5. LoadMsg(words) = head \o Args(words)
      BY DEF LoadMsg
  <1> HIDE DEF head
  <1>6. Len(words) \in Nat
      OBVIOUS
  <1> QED BY <1>2, <1>3, <1>4, <1>5, <1>6

(* A LOAD is a whole command.                                              *)
LEMMA LoadMessage ==
  ASSUME NEW words \in Seq(Word), Len(words) \in Word
  PROVE  Message(LoadMsg(words))
  <1> DEFINE m == LoadMsg(words)
             n == Len(words)
  <1>1. /\ m \in Seq(Item) /\ Len(m) = n + 2 /\ n \in Nat
        /\ m[1] = Cmd(LOAD_CMD) /\ m[2] = Arg(n)
        /\ \A a \in 1 .. n : m[2 + a] = Arg(words[a])
      BY LoadElements
  <1> HIDE DEF m, n
  <1>2. m[1].kind = "cmd" /\ m[1].val = LOAD_CMD /\ m[2].kind = "arg" /\ m[2].val = n
      BY <1>1 DEF Cmd, Arg
  <1>3. \A j \in 2 .. n + 2 : m[j].kind = "arg"
    <2> SUFFICES ASSUME NEW j \in 2 .. n + 2
                 PROVE  m[j].kind = "arg"
        OBVIOUS
    <2>1. CASE j = 2
        BY <1>2, <2>1
    <2>2. CASE j # 2
      <3>1. j - 2 \in 1 .. n /\ 2 + (j - 2) = j
          BY <1>1, <2>2
      <3>2. m[j] = Arg(words[j - 2])
          BY <1>1, <3>1
      <3> QED BY <3>2 DEF Arg
    <2> QED BY <2>1, <2>2
  <1>4. CountedAt(m, 2)
      BY <1>1, <1>2, <1>3 DEF CountedAt, ArgsAt
  <1>5. Framed(m)
    <2> SUFFICES ASSUME NEW i \in 1 .. Len(m), m[i].kind = "cmd"
                 PROVE  CommandAt(m, i)
        BY DEF Framed
    <2>1. i = 1
        BY <1>1, <1>3
    <2> QED BY <2>1, <1>2, <1>4 DEF CommandAt
  <1>6. ArgsAt(m, 1, 0)
      BY <1>1, <1>2 DEF ArgsAt
  <1> QED BY <1>1, <1>5, <1>6 DEF Message, m

-----------------------------------------------------------------------------
(* The thread reads the stream in step with what the clients write.        *)

(* What the thread takes for a command byte is one.                        *)
LEMMA CommandReads ==
  ASSUME FifoTypeOK, StreamInv, NEW c, Command(c)
  PROVE  /\ Skips(Stream, Stream', 1)
         /\ Stream[1] = Cmd(c) /\ CommandAt(Stream, 1)
         /\ Stream' \in Seq(Item) /\ Framed(Stream')
  <1>1. /\ FifoTypeOK' /\ Skips(Stream, Stream', 1)
        /\ Head(fifo) = Stream[1] /\ Stream[1] \in Item
      BY ReadItemSkips DEF Command
  <1>2. Stream \in Seq(Item) /\ Stream' \in Seq(Item)
      BY <1>1, StreamType, NextStreamType
  <1>3. 1 \in 1 .. Len(Stream) /\ 1 + 0 <= Len(Stream)
      BY <1>1, <1>2 DEF Skips
  <1>4. Stream[1].kind = "cmd" /\ Stream[1].val = c
      BY <1>1, <1>3 DEF Command, StreamInv, Reading, ArgsAt, ArgStates
  <1>5. Stream[1] = Cmd(c)
      BY <1>1, <1>4 DEF Item, Cmd
  <1>6. CommandAt(Stream, 1)
      BY <1>3, <1>4 DEF StreamInv, Framed
  <1>7. Framed(Stream')
      BY <1>1, <1>2, FramedSkip DEF StreamInv
  <1> QED BY <1>1, <1>2, <1>5, <1>6, <1>7

(* The stream the thread has left after a command: its arguments are next. *)
LEMMA CommandLeaves ==
  ASSUME FifoTypeOK, StreamInv, NEW c, Command(c)
  PROVE  /\ c = LOAD_CMD => CountedAt(Stream', 1)
         /\ c # LOAD_CMD => ArgsAt(Stream', 1, NArgs(c))
  <1>1. /\ Skips(Stream, Stream', 1) /\ Stream[1] = Cmd(c) /\ CommandAt(Stream, 1)
        /\ Stream' \in Seq(Item)
      BY CommandReads
  <1>5. Stream[1].val = c
      BY <1>1 DEF Cmd
  <1>2. Stream \in Seq(Item) /\ 1 \in Nat \ {0} /\ 1 \in Nat
      BY StreamType
  <1>3. ASSUME c = LOAD_CMD
        PROVE  CountedAt(Stream', 1)
    <2>1. CountedAt(Stream, 1 + 1)
        BY <1>1, <1>5, <1>3 DEF CommandAt
    <2> QED BY <2>1, <1>1, <1>2, CountedSkip
  <1>4. ASSUME c # LOAD_CMD
        PROVE  ArgsAt(Stream', 1, NArgs(c))
    <2>1. ArgsAt(Stream, 1 + 1, NArgs(c))
        BY <1>1, <1>5, <1>4 DEF CommandAt
    <2> QED BY <2>1, <1>1, <1>2, ArgsSkip, NArgsType
  <1> QED BY <1>3, <1>4

(* What the thread takes for one of n arguments is one.                    *)
LEMMA ArgReads ==
  ASSUME FifoTypeOK, StreamInv, ReadItem, NEW n \in Nat, ArgsAt(Stream, 1, n + 1)
  PROVE  /\ Skips(Stream, Stream', 1)
         /\ Stream[1].kind = "arg"
         /\ Stream' \in Seq(Item) /\ Framed(Stream') /\ ArgsAt(Stream', 1, n)
  <1>1. FifoTypeOK' /\ Skips(Stream, Stream', 1)
      BY ReadItemSkips
  <1>2. Stream \in Seq(Item) /\ Stream' \in Seq(Item)
      BY <1>1, StreamType, NextStreamType
  <1>3. Framed(Stream')
      BY <1>1, <1>2, FramedSkip DEF StreamInv
  <1>4. Stream[1].kind = "arg"
    <2>1. 1 \in 1 .. 1 + (n + 1) - 1
        OBVIOUS
    <2> QED BY <2>1 DEF ArgsAt
  <1>5. ArgsAt(Stream, 1 + 1, n)
    <2>1. 2 + n = 1 + (n + 1) /\ \A j \in 2 .. 2 + n - 1 : j \in 1 .. 1 + (n + 1) - 1
        OBVIOUS
    <2> QED BY <2>1 DEF ArgsAt
  <1>6. ArgsAt(Stream', 1, n)
      BY <1>1, <1>2, <1>5, ArgsSkip
  <1> QED BY <1>1, <1>2, <1>3, <1>4, <1>6

(* The same for two at once.                                               *)
LEMMA ArgsRead ==
  ASSUME FifoTypeOK, StreamInv, tpc \in {"poke", "strobe"},
         Len(fifo) >= 2, fifo' = SubSeq(fifo, 3, Len(fifo)), UNCHANGED out
  PROVE  /\ Skips(Stream, Stream', 2)
         /\ Stream[1].kind = "arg" /\ Stream[2].kind = "arg"
         /\ Stream' \in Seq(Item) /\ Framed(Stream') /\ ArgsAt(Stream', 1, 0)
  <1>1. FifoTypeOK' /\ Skips(Stream, Stream', 2)
      BY ReadTwoSkips
  <1>2. Stream \in Seq(Item) /\ Stream' \in Seq(Item)
      BY <1>1, StreamType, NextStreamType
  <1>3. Framed(Stream')
      BY <1>1, <1>2, FramedSkip DEF StreamInv
  <1>4. ArgsAt(Stream, 1, 2)
      BY DEF StreamInv, Reading
  <1>5. Stream[1].kind = "arg" /\ Stream[2].kind = "arg" /\ ArgsAt(Stream, 1 + 2, 0)
      BY <1>4 DEF ArgsAt
  <1>6. ArgsAt(Stream', 1, 0)
      BY <1>1, <1>2, <1>5, ArgsSkip
  <1> QED BY <1>1, <1>2, <1>3, <1>5, <1>6
(* A step that reads nothing and stays out of the arguments.               *)
LEMMA NoReadKeepsStream ==
  ASSUME StreamInv, UNCHANGED fifoVars, tpc \notin ArgStates, tpc' \notin ArgStates
  PROVE  StreamInv'
  <1>1. Stream' = Stream
      BY DEF Stream, fifoVars
  <1>2. ArgsAt(Stream, 1, 0)
      BY DEF StreamInv, Reading
  <1>3. Reading(Stream)'
      BY <1>1, <1>2 DEF Reading, ArgStates
  <1> QED BY <1>1, <1>3 DEF StreamInv

(* After the last argument, or a command without any.                      *)
LEMMA EndOfCommand ==
  ASSUME tpc' \notin ArgStates, Framed(Stream'), ArgsAt(Stream', 1, 0)
  PROVE  StreamInv'
  BY DEF StreamInv, Reading, ArgStates

(* Every step of the thread and of the board leaves the thread in step     *)
(* with the stream.                                                        *)
LEMMA ThreadKeepsStream ==
  ASSUME FifoTypeOK, ThreadTypeOK, StreamInv, ThreadNext
  PROVE  StreamInv'
  <1> USE FifoTypeOK, ThreadTypeOK, StreamInv
  <1>1. CASE Setup \/ EndTick \/ NoCommand
    <2>1. UNCHANGED fifoVars /\ tpc \notin ArgStates /\ tpc' \notin ArgStates
        BY <1>1 DEF Setup, EndTick, NoFrame, StartFrame, SkipFrame, FrameDone, Cleanup,
                    NoCommand, ArgStates
    <2> QED BY <2>1, NoReadKeepsStream
  <1>2. ASSUME NEW c \in PlainCommands, Command(c), tpc' = "frame"
        PROVE  StreamInv'
    <2>1. c # LOAD_CMD /\ NArgs(c) = 0
        BY DEF PlainCommands, RUN_CMD, STOP_CMD, STEP_CMD, CLEAR_CMD, TEST_CMD, TERM_CMD,
               LOAD_CMD, HALTERR_CMD, FRAMERATE_CMD, POKE_CMD, STROBE_CMD, NArgs
    <2>2. Framed(Stream') /\ ArgsAt(Stream', 1, 0)
        BY <1>2, <2>1, CommandReads, CommandLeaves
    <2>3. tpc' \notin ArgStates
        BY <1>2 DEF ArgStates
    <2> QED BY <2>2, <2>3, EndOfCommand
  <1>3. CASE StopCommand \/ RunCommand \/ StepCommand \/ ClearCommand \/ TestCommand
               \/ TermCommand
    <2>1. \E c \in PlainCommands : Command(c) /\ tpc' = "frame"
        BY <1>3 DEF StopCommand, RunCommand, StepCommand, ClearCommand, TestCommand,
                    TermCommand, PlainCommands
    <2> QED BY <2>1, <1>2
  <1>4. CASE LoadCommand
    <2>1. Command(LOAD_CMD) /\ tpc' = "count"
        BY <1>4 DEF LoadCommand
    <2>2. Framed(Stream') /\ CountedAt(Stream', 1)
        BY <2>1, CommandReads, CommandLeaves
    <2> QED BY <2>1, <2>2 DEF StreamInv, Reading, ArgStates
  <1>5. CASE PokeCommand
    <2>1. Command(POKE_CMD) /\ tpc' = "poke"
        BY <1>5 DEF PokeCommand
    <2>2. POKE_CMD # LOAD_CMD /\ NArgs(POKE_CMD) = 2
        BY DEF LOAD_CMD, HALTERR_CMD, FRAMERATE_CMD, POKE_CMD, STROBE_CMD, NArgs
    <2>3. Framed(Stream') /\ ArgsAt(Stream', 1, 2)
        BY <2>1, <2>2, CommandReads, CommandLeaves
    <2> QED BY <2>1, <2>3 DEF StreamInv, Reading, ArgStates
  <1>6. CASE SettingCommand
    <2>1. \/ Command(HALTERR_CMD)   /\ tpc' = "halterr"
          \/ Command(FRAMERATE_CMD) /\ tpc' = "rate"
          \/ Command(STROBE_CMD)    /\ tpc' = "strobe"
        BY <1>6 DEF SettingCommand
    <2>2. /\ \A c \in {HALTERR_CMD, FRAMERATE_CMD} : c # LOAD_CMD /\ NArgs(c) = 1
          /\ STROBE_CMD # LOAD_CMD /\ NArgs(STROBE_CMD) = 2
        BY DEF LOAD_CMD, HALTERR_CMD, FRAMERATE_CMD, POKE_CMD, STROBE_CMD, NArgs
    <2>3. CASE Command(HALTERR_CMD) /\ tpc' = "halterr"
      <3>1. Framed(Stream') /\ ArgsAt(Stream', 1, 1)
          BY <2>3, <2>2, CommandReads, CommandLeaves
      <3> QED BY <2>3, <3>1 DEF StreamInv, Reading, ArgStates
    <2>4. CASE Command(FRAMERATE_CMD) /\ tpc' = "rate"
      <3>1. Framed(Stream') /\ ArgsAt(Stream', 1, 1)
          BY <2>4, <2>2, CommandReads, CommandLeaves
      <3> QED BY <2>4, <3>1 DEF StreamInv, Reading, ArgStates
    <2>5. CASE Command(STROBE_CMD) /\ tpc' = "strobe"
      <3>1. Framed(Stream') /\ ArgsAt(Stream', 1, 2)
          BY <2>5, <2>2, CommandReads, CommandLeaves
      <3> QED BY <2>5, <3>1 DEF StreamInv, Reading, ArgStates
    <2> QED BY <2>1, <2>3, <2>4, <2>5
  <1>7. CASE LoadCount
    <2>1. CountedAt(Stream, 1)
        BY <1>7 DEF LoadCount, StreamInv, Reading
    <2>2. Head(fifo) = Stream[1] /\ Head(fifo).val \in Word
        BY <1>7, ReadItemSkips, ReadItemType DEF LoadCount
    <2>3. count' \in Nat /\ ArgsAt(Stream, 1, count' + 1) /\ next' = 1
        BY <1>7, <2>1, <2>2, WordBound DEF LoadCount, CountedAt, Word
    <2>4. Framed(Stream') /\ ArgsAt(Stream', 1, count')
        BY <1>7, <2>3, ArgReads DEF LoadCount
    <2>5. CASE count' = 0
      <3>1. tpc' = "frame"
          BY <1>7, <2>5 DEF LoadCount
      <3> QED BY <2>4, <2>5, <3>1, EndOfCommand DEF ArgStates
    <2>6. CASE count' # 0
      <3>1. tpc' = "load" /\ next' <= count' /\ count' - next' + 1 = count'
          BY <1>7, <2>3, <2>6 DEF LoadCount
      <3> QED BY <2>4, <3>1 DEF StreamInv, Reading, ArgStates
    <2> QED BY <2>5, <2>6
  <1>8. CASE LoadWord
    <2>1. next <= count /\ ArgsAt(Stream, 1, count - next + 1)
        BY <1>8 DEF LoadWord, StreamInv, Reading
    <2>2. count \in Nat /\ next \in Nat
        BY WordBound DEF ThreadTypeOK, Word
    <2>3. count - next \in Nat
        BY <2>1, <2>2
    <2>4. Framed(Stream') /\ ArgsAt(Stream', 1, count - next)
        BY <1>8, <2>1, <2>3, ArgReads DEF LoadWord
    <2>5. next' = next + 1 /\ count' = count
        BY <1>8 DEF LoadWord
    <2>6. CASE next = count
      <3>1. tpc' = "frame" /\ count - next = 0
          BY <1>8, <2>2, <2>6 DEF LoadWord
      <3> QED BY <2>4, <3>1, EndOfCommand DEF ArgStates
    <2>7. CASE next # count
      <3>1. tpc' = "load" /\ next' <= count' /\ count' - next' + 1 = count - next
          BY <1>8, <2>1, <2>2, <2>5, <2>7 DEF LoadWord
      <3> QED BY <2>4, <3>1 DEF StreamInv, Reading, ArgStates
    <2> QED BY <2>6, <2>7
  <1>9. CASE PokeArgs \/ StrobeArgs
    <2>1. /\ tpc \in {"poke", "strobe"} /\ Len(fifo) >= 2
          /\ fifo' = SubSeq(fifo, 3, Len(fifo)) /\ UNCHANGED out /\ tpc' = "frame"
        BY <1>9 DEF PokeArgs, StrobeArgs
    <2>2. Framed(Stream') /\ ArgsAt(Stream', 1, 0)
        BY <2>1, ArgsRead
    <2> QED BY <2>1, <2>2, EndOfCommand DEF ArgStates
  <1>10. CASE HalterrArg \/ FramerateArg
    <2>1. tpc \in {"halterr", "rate"} /\ ReadItem /\ tpc' = "frame"
        BY <1>10 DEF HalterrArg, FramerateArg
    <2>2. 0 \in Nat /\ ArgsAt(Stream, 1, 0 + 1)
        BY <2>1 DEF StreamInv, Reading
    <2>3. Framed(Stream') /\ ArgsAt(Stream', 1, 0)
        BY <2>1, <2>2, ArgReads
    <2> QED BY <2>1, <2>3, EndOfCommand DEF ArgStates
  <1>11. CASE HardwareStep
    <2>1. UNCHANGED <<fifo, out, tpc, count, next>>
        BY <1>11 DEF HardwareStep, fifoVars, threadVars
    <2>2. Stream' = Stream
        BY <2>1 DEF Stream
    <2> QED BY <2>1, <2>2 DEF StreamInv, Reading
  <1> QED BY <1>1, <1>3, <1>4, <1>5, <1>6, <1>7, <1>8, <1>9, <1>10, <1>11
          DEF ThreadNext, ThreadStep, ReadCommand, ReadArgs

(* Before the first command.                                               *)
LEMMA StreamInvInit == FifoInit /\ ThreadInit => StreamInv
  <1> SUFFICES ASSUME FifoInit, ThreadInit
               PROVE  StreamInv
      OBVIOUS
  <1>1. Stream = << >> /\ tpc \notin ArgStates
      BY DEF FifoInit, ThreadInit, Stream, ArgStates
  <1> QED BY <1>1 DEF StreamInv, Framed, Reading, ArgsAt, ArgStates

(* The invariant says what InSync says of the head of the pipe.            *)
LEMMA StreamInvImplies ==
  ASSUME FifoTypeOK, ThreadTypeOK, StreamInv
  PROVE  InSync
  <1> SUFFICES ASSUME fifo # << >>
               PROVE  /\ tpc = "tick"      => fifo[1].kind = "cmd"
                      /\ tpc \in ArgStates => fifo[1].kind = "arg"
      BY DEF InSync
  <1>1. Stream \in Seq(Item) /\ Len(Stream) \in Nat /\ 1 <= Len(Stream) /\ Stream[1] = fifo[1]
      BY StreamType DEF FifoTypeOK
  <1>2. ASSUME tpc = "tick"
        PROVE  Stream[1].kind = "cmd"
      BY <1>1, <1>2 DEF StreamInv, Reading, ArgStates, ArgsAt
  <1>3. ASSUME NEW n \in Nat, ArgsAt(Stream, 1, n), n >= 1
        PROVE  Stream[1].kind = "arg"
    <2>1. 1 \in 1 .. 1 + n - 1
        BY <1>3
    <2> QED BY <2>1, <1>3 DEF ArgsAt
  <1>4. ASSUME tpc \in ArgStates
        PROVE  Stream[1].kind = "arg"
    <2>1. CASE tpc = "count"
      <3>1. 1 + Stream[1].val \in Nat /\ 1 + Stream[1].val >= 1
          BY <1>1, ValType
      <3>2. ArgsAt(Stream, 1, 1 + Stream[1].val)
          BY <2>1 DEF StreamInv, Reading, CountedAt
      <3> QED BY <3>1, <3>2, <1>3
    <2>2. CASE tpc = "load"
      <3>1. count - next + 1 \in Nat /\ count - next + 1 >= 1
          BY <2>2, WordBound DEF StreamInv, Reading, ThreadTypeOK, Word
      <3>2. ArgsAt(Stream, 1, count - next + 1)
          BY <2>2 DEF StreamInv, Reading
      <3> QED BY <3>1, <3>2, <1>3
    <2>3. CASE tpc \in {"halterr", "rate"}
        BY <2>3, <1>3 DEF StreamInv, Reading
    <2>4. CASE tpc \in {"poke", "strobe"}
        BY <2>4, <1>3 DEF StreamInv, Reading
    <2> QED BY <1>4, <2>1, <2>2, <2>3, <2>4 DEF ArgStates
  <1> QED BY <1>1, <1>2, <1>4

-----------------------------------------------------------------------------
(* RUN and STOP.                                                           *)

(* No command c in the stream.                                             *)
NoCmd(s, c) == \A i \in 1 .. Len(s) : s[i] # Cmd(c)

(* The stream has a STOP and no RUN behind it.                             *)
StopAhead(s) == \E i \in 1 .. Len(s) : /\ s[i] = Cmd(STOP_CMD)
                                       /\ \A j \in i .. Len(s) : s[j] # Cmd(RUN_CMD)

(* The thread frames no more once it has read what it was sent.            *)
Halting == StopAhead(Stream) \/ (NoCmd(Stream, RUN_CMD) /\ ~Run)

(* An argument is not a command, and the commands differ.                  *)
LEMMA CmdFacts ==
  /\ \A c, v : Cmd(c) # Arg(v)
  /\ \A c, d : Cmd(c) = Cmd(d) => c = d
  /\ \A c : Cmd(c).kind = "cmd" /\ Cmd(c).val = c
  /\ \A v : Arg(v).kind = "arg" /\ Arg(v).val = v
  BY DEF Cmd, Arg

(* Reading adds no command...                                              *)
LEMMA NoCmdSkip ==
  ASSUME NEW s \in Seq(Item), NEW t \in Seq(Item), NEW n \in Nat, Skips(s, t, n),
         NEW c, NoCmd(s, c)
  PROVE  NoCmd(t, c)
  <1> SUFFICES ASSUME NEW i \in 1 .. Len(t)
               PROVE  t[i] # Cmd(c)
      BY DEF NoCmd
  <1>1. t[i] = s[i + n] /\ i + n \in 1 .. Len(s)
      BY DEF Skips
  <1> QED BY <1>1 DEF NoCmd

(* ... and neither does writing what has none.                             *)
LEMMA NoCmdConcat ==
  ASSUME NEW s \in Seq(Item), NEW t \in Seq(Item), NEW c, NoCmd(s, c), NoCmd(t, c)
  PROVE  NoCmd(s \o t, c)
  <1> DEFINE u == s \o t
             n == Len(s)
  <1>1. /\ n \in Nat /\ Len(t) \in Nat /\ Len(u) = n + Len(t)
        /\ \A j \in 1 .. n : u[j] = s[j]
        /\ \A j \in 1 .. Len(t) : u[n + j] = t[j]
      BY Concat
  <1>2. (\A j \in 1 .. n : s[j] # Cmd(c)) /\ \A j \in 1 .. Len(t) : t[j] # Cmd(c)
      BY DEF NoCmd
  <1> HIDE DEF u, n
  <1>3. ASSUME NEW i \in 1 .. Len(u)
        PROVE  u[i] # Cmd(c)
    <2>1. CASE i <= n
        BY <1>1, <1>2, <2>1
    <2>2. CASE i > n
      <3>1. i - n \in 1 .. Len(t) /\ n + (i - n) = i
          BY <1>1, <2>2
      <3> QED BY <1>1, <1>2, <3>1
    <2> QED BY <1>1, <2>1, <2>2
  <1>4. NoCmd(u, c)
      BY <1>3 DEF NoCmd
  <1> QED BY <1>4 DEF u

(* What the commands of the clients do not contain.                        *)
LEMMA PlainNo == \A c, d : c # d => NoCmd(<<Cmd(d)>>, c)
  BY CmdFacts DEF NoCmd

(* The commands with arguments contain no other command.                   *)
LEMMA SettingNo ==
  /\ \A c, v : c # HALTERR_CMD   => NoCmd(HalterrMsg(v), c)
  /\ \A c, v : c # FRAMERATE_CMD => NoCmd(FramerateMsg(v), c)
  /\ \A c, v, w : c # STROBE_CMD => NoCmd(StrobeMsg(v, w), c)
  /\ \A c, v, w : c # POKE_CMD   => NoCmd(PokeMsg(v, w), c)
  <1>1. ASSUME NEW c, NEW d, NEW v, c # d
        PROVE  NoCmd(<<Cmd(d), Arg(v)>>, c)
    <2> DEFINE m == <<Cmd(d), Arg(v)>>
    <2>1. Len(m) = 2 /\ m[1] # Cmd(c) /\ m[2] # Cmd(c)
        BY <1>1, CmdFacts
    <2> HIDE DEF m
    <2>2. NoCmd(m, c)
        BY <2>1 DEF NoCmd
    <2> QED BY <2>2 DEF m
  <1>2. ASSUME NEW c, NEW d, NEW v, NEW w, c # d
        PROVE  NoCmd(<<Cmd(d), Arg(v), Arg(w)>>, c)
    <2> DEFINE m == <<Cmd(d), Arg(v), Arg(w)>>
    <2>1. Len(m) = 3 /\ m[1] # Cmd(c) /\ m[2] # Cmd(c) /\ m[3] # Cmd(c)
        BY <1>2, CmdFacts
    <2> HIDE DEF m
    <2>2. NoCmd(m, c)
        BY <2>1 DEF NoCmd
    <2> QED BY <2>2 DEF m
  <1> QED BY <1>1, <1>2 DEF HalterrMsg, FramerateMsg, StrobeMsg, PokeMsg

(* The startup commands are these four.                                    *)
LEMMA StartupNo ==
  ASSUME NEW rate \in Word, NEW c,
         c \notin {STOP_CMD, HALTERR_CMD, FRAMERATE_CMD, STROBE_CMD}
  PROVE  NoCmd(StartupMsgs(rate), c)
  <1>1. 0 \in Word /\ 1 \in Word /\ 50 \in Word
      BY SmallWord
  <1>2. /\ <<Cmd(STOP_CMD)>> \in Seq(Item) /\ HalterrMsg(1) \in Seq(Item)
        /\ FramerateMsg(rate) \in Seq(Item) /\ StrobeMsg(50, 0) \in Seq(Item)
      BY <1>1, SmallMsgTypes DEF STOP_CMD
  <1>3. /\ NoCmd(<<Cmd(STOP_CMD)>>, c) /\ NoCmd(HalterrMsg(1), c)
        /\ NoCmd(FramerateMsg(rate), c) /\ NoCmd(StrobeMsg(50, 0), c)
      BY PlainNo, SettingNo
  <1>4. /\ <<Cmd(STOP_CMD)>> \o HalterrMsg(1) \in Seq(Item)
        /\ NoCmd(<<Cmd(STOP_CMD)>> \o HalterrMsg(1), c)
      BY <1>2, <1>3, NoCmdConcat, Concat
  <1>5. /\ <<Cmd(STOP_CMD)>> \o HalterrMsg(1) \o FramerateMsg(rate) \in Seq(Item)
        /\ NoCmd(<<Cmd(STOP_CMD)>> \o HalterrMsg(1) \o FramerateMsg(rate), c)
      BY <1>2, <1>3, <1>4, NoCmdConcat, Concat
  <1> QED BY <1>2, <1>3, <1>5, NoCmdConcat DEF StartupMsgs

(* A LOAD contains no other command.                                       *)
LEMMA LoadNo ==
  ASSUME NEW words \in Seq(Word), Len(words) \in Word, NEW c, c # LOAD_CMD
  PROVE  NoCmd(LoadMsg(words), c)
  <1> DEFINE m == LoadMsg(words)
             n == Len(words)
  <1>1. /\ Len(m) = n + 2 /\ n \in Nat
        /\ m[1] = Cmd(LOAD_CMD) /\ m[2] = Arg(n)
        /\ \A a \in 1 .. n : m[2 + a] = Arg(words[a])
      BY LoadElements
  <1> HIDE DEF m, n
  <1>2. ASSUME NEW i \in 1 .. Len(m)
        PROVE  m[i] # Cmd(c)
    <2>1. CASE i <= 2
        BY <1>1, <2>1, CmdFacts
    <2>2. CASE i > 2
      <3>1. i - 2 \in 1 .. n /\ 2 + (i - 2) = i
          BY <1>1, <2>2
      <3>2. m[i] = Arg(words[i - 2])
          BY <1>1, <3>1
      <3> QED BY <3>2, CmdFacts
    <2> QED BY <1>1, <2>1, <2>2
  <1>3. NoCmd(m, c)
      BY <1>2 DEF NoCmd
  <1> QED BY <1>3 DEF m

(* The startup commands begin with STOP.                                   *)
LEMMA StartupFirst == ASSUME NEW rate \in Word
                      PROVE  /\ StartupMsgs(rate) \in Seq(Item)
                             /\ Len(StartupMsgs(rate)) >= 1
                             /\ StartupMsgs(rate)[1] = Cmd(STOP_CMD)
  <1>1. 0 \in Word /\ 1 \in Word /\ 50 \in Word
      BY SmallWord
  <1>2. /\ <<Cmd(STOP_CMD)>> \in Seq(Item) /\ HalterrMsg(1) \in Seq(Item)
        /\ FramerateMsg(rate) \in Seq(Item) /\ StrobeMsg(50, 0) \in Seq(Item)
      BY <1>1, SmallMsgTypes DEF STOP_CMD
  <1> DEFINE m1 == <<Cmd(STOP_CMD)>>
             m2 == m1 \o HalterrMsg(1)
             m3 == m2 \o FramerateMsg(rate)
             m4 == m3 \o StrobeMsg(50, 0)
  <1>3. m1 \in Seq(Item) /\ Len(m1) = 1 /\ m1[1] = Cmd(STOP_CMD)
      BY <1>2
  <1> HIDE DEF m1
  <1>4. m2 \in Seq(Item) /\ Len(m2) >= 1 /\ m2[1] = Cmd(STOP_CMD)
      BY <1>2, <1>3, Concat
  <1> HIDE DEF m2
  <1>5. m3 \in Seq(Item) /\ Len(m3) >= 1 /\ m3[1] = Cmd(STOP_CMD)
      BY <1>2, <1>4, Concat
  <1> HIDE DEF m3
  <1>6. m4 \in Seq(Item) /\ Len(m4) >= 1 /\ m4[1] = Cmd(STOP_CMD)
      BY <1>2, <1>5, Concat
  <1> QED BY <1>6 DEF StartupMsgs, m1, m2, m3, m4

(* Only RUN sets Run, and STOP clears it.                                  *)
LEMMA RunOnlyByCommand ==
  ASSUME ThreadTypeOK, ThreadNext, Run'
  PROVE  Run \/ Command(RUN_CMD)
  BY DEF ThreadNext, ThreadStep, HardwareStep, threadVars, flagVars, Setup, ReadCommand, ReadArgs, EndTick,
         NoCommand, StopCommand, RunCommand, StepCommand, ClearCommand, TestCommand, TermCommand,
         LoadCommand, PokeCommand, SettingCommand, LoadCount, LoadWord, PokeArgs, HalterrArg,
         FramerateArg, StrobeArgs, NoFrame, StartFrame, SkipFrame, FrameDone, Cleanup,
         PioOutcomes, ThreadTypeOK

(* STOP clears Run.                                                        *)
LEMMA StopClearsRun ==
  ASSUME FifoTypeOK, StreamInv, ThreadNext, Command(STOP_CMD)
  PROVE  ~Run'
  <1>1. tpc = "tick" /\ fifo # << >> /\ Head(fifo).val = STOP_CMD /\ fifo' = Tail(fifo)
      BY DEF Command, ReadItem
  <1>2. fifo' # fifo
      BY <1>1, HeadTailProperties DEF FifoTypeOK
  <1>3. ReadCommand /\ ~NoCommand
      BY <1>1, <1>2 DEF ThreadNext, ThreadStep, HardwareStep, Setup, ReadArgs, EndTick, LoadCount, LoadWord,
         PokeArgs, HalterrArg, FramerateArg, StrobeArgs, NoFrame, StartFrame, SkipFrame,
         FrameDone, Cleanup, NoCommand, fifoVars
  <1>4. StopCommand
      BY <1>1, <1>3 DEF ReadCommand, RunCommand, StepCommand, ClearCommand, TestCommand, TermCommand,
         LoadCommand, PokeCommand, SettingCommand, Command, RUN_CMD, STOP_CMD, STEP_CMD,
         CLEAR_CMD, TEST_CMD, TERM_CMD, LOAD_CMD, POKE_CMD, HALTERR_CMD, FRAMERATE_CMD, STROBE_CMD
  <1> QED BY <1>4 DEF StopCommand

(* A step reads nothing, one command, or one or two arguments.             *)
LEMMA ThreadReads ==
  ASSUME FifoTypeOK, ThreadTypeOK, StreamInv, ThreadNext
  PROVE  \/ Stream' = Stream /\ \A c : ~Command(c)
         \/ \E c : Command(c)
         \/ /\ tpc # "tick"
            /\ \E n \in {1, 2} : /\ Skips(Stream, Stream', n)
                                 /\ \A i \in 1 .. n : Stream[i].kind = "arg"
  <1> USE FifoTypeOK, ThreadTypeOK, StreamInv
  <1>1. ASSUME UNCHANGED fifoVars
        PROVE  Stream' = Stream /\ \A c : ~Command(c)
    <2>1. Stream' = Stream
        BY <1>1 DEF Stream, fifoVars
    <2>2. fifo \in Seq(Item)
        BY DEF FifoTypeOK
    <2>3. fifo # << >> => Tail(fifo) # fifo
        BY <2>2, HeadTailProperties
    <2>4. \A c : ~Command(c)
        BY <1>1, <2>3 DEF Command, ReadItem, fifoVars
    <2> QED BY <2>1, <2>4
  <1>2. CASE Setup \/ EndTick \/ NoCommand \/ HardwareStep
    <2>1. UNCHANGED fifoVars
        BY <1>2 DEF Setup, EndTick, NoFrame, StartFrame, SkipFrame, FrameDone, Cleanup,
                    NoCommand, HardwareStep
    <2> QED BY <2>1, <1>1
  <1>3. CASE ReadCommand /\ ~NoCommand
    <2>1. \E c : Command(c)
        BY <1>3 DEF ReadCommand, StopCommand, RunCommand, StepCommand, ClearCommand,
                    TestCommand, TermCommand, LoadCommand, PokeCommand, SettingCommand
    <2> QED BY <2>1
  <1>4. ASSUME ReadItem, NEW n \in Nat, ArgsAt(Stream, 1, n + 1)
        PROVE  \E m \in {1, 2} : /\ Skips(Stream, Stream', m)
                                 /\ \A i \in 1 .. m : Stream[i].kind = "arg"
    <2>1. Skips(Stream, Stream', 1) /\ Stream[1].kind = "arg"
        BY <1>4, ArgReads
    <2>2. \A i \in 1 .. 1 : Stream[i].kind = "arg"
        BY <2>1
    <2> QED BY <2>1, <2>2
  <1>5. CASE LoadCount
    <2>1. ReadItem /\ CountedAt(Stream, 1) /\ tpc # "tick"
        BY <1>5 DEF LoadCount, StreamInv, Reading
    <2>2. Stream[1].val \in Nat /\ 1 + Stream[1].val = Stream[1].val + 1
      <3>1. Stream \in Seq(Item) /\ 1 \in 1 .. Len(Stream)
          BY <2>1, StreamType DEF CountedAt
      <3> QED BY <3>1, ValType
    <2>3. ArgsAt(Stream, 1, Stream[1].val + 1)
        BY <2>1, <2>2 DEF CountedAt
    <2> QED BY <2>1, <2>2, <2>3, <1>4
  <1>6. CASE LoadWord
    <2>1. ReadItem /\ next <= count /\ ArgsAt(Stream, 1, count - next + 1) /\ tpc # "tick"
        BY <1>6 DEF LoadWord, StreamInv, Reading
    <2>2. count - next \in Nat
        BY <2>1, WordBound DEF ThreadTypeOK, Word
    <2> QED BY <2>1, <2>2, <1>4
  <1>7. CASE PokeArgs \/ StrobeArgs
    <2>1. /\ tpc \in {"poke", "strobe"} /\ Len(fifo) >= 2 /\ tpc # "tick"
          /\ fifo' = SubSeq(fifo, 3, Len(fifo)) /\ UNCHANGED out
        BY <1>7 DEF PokeArgs, StrobeArgs
    <2>2. Skips(Stream, Stream', 2) /\ Stream[1].kind = "arg" /\ Stream[2].kind = "arg"
        BY <2>1, ArgsRead
    <2>3. \A i \in 1 .. 2 : Stream[i].kind = "arg"
        BY <2>2
    <2> QED BY <2>1, <2>2, <2>3
  <1>8. CASE HalterrArg \/ FramerateArg
    <2>1. tpc \in {"halterr", "rate"} /\ ReadItem /\ tpc # "tick"
        BY <1>8 DEF HalterrArg, FramerateArg
    <2>2. 0 \in Nat /\ ArgsAt(Stream, 1, 0 + 1)
        BY <2>1 DEF StreamInv, Reading
    <2> QED BY <2>1, <2>2, <1>4
  <1> QED BY <1>2, <1>3, <1>5, <1>6, <1>7, <1>8
          DEF ThreadNext, ThreadStep, ReadCommand, ReadArgs

(* A STOP that is not read by this step is still ahead.                    *)
LEMMA StopAheadSkip ==
  ASSUME NEW s \in Seq(Item), NEW t \in Seq(Item), NEW n \in Nat, Skips(s, t, n),
         StopAhead(s), \A i \in 1 .. n : s[i] # Cmd(STOP_CMD)
  PROVE  StopAhead(t)
  <1>1. PICK i \in 1 .. Len(s) : /\ s[i] = Cmd(STOP_CMD)
                                 /\ \A j \in i .. Len(s) : s[j] # Cmd(RUN_CMD)
      BY DEF StopAhead
  <1>2. i > n
      BY <1>1
  <1>3. i - n \in 1 .. Len(t) /\ t[i - n] = s[i]
      BY <1>2 DEF Skips
  <1>4. ASSUME NEW j \in i - n .. Len(t)
        PROVE  t[j] # Cmd(RUN_CMD)
    <2>1. j \in 1 .. Len(t) /\ j + n \in i .. Len(s)
        BY <1>2 DEF Skips
    <2> QED BY <2>1, <1>1 DEF Skips
  <1> QED BY <1>1, <1>3, <1>4 DEF StopAhead

(* The thread does not start again by itself.                              *)
LEMMA ThreadKeepsHalting ==
  ASSUME FifoTypeOK, ThreadTypeOK, StreamInv, Halting, ThreadNext
  PROVE  Halting'
  <1>1. Stream \in Seq(Item) /\ Stream' \in Seq(Item)
      BY StreamType, NextStreamType, ThreadKeepsTypes
  <1>2. CASE Stream' = Stream /\ \A c : ~Command(c)
    <2>1. Run' => Run
        BY <1>2, RunOnlyByCommand
    <2> QED BY <1>2, <2>1 DEF Halting
  <1>3. ASSUME NEW c, Command(c)
        PROVE  Halting'
    <2>1. Skips(Stream, Stream', 1) /\ Stream[1] = Cmd(c)
        BY <1>3, CommandReads
    <2>2. 1 \in 1 .. Len(Stream) /\ 1 \in Nat
        BY <1>1, <2>1 DEF Skips
    <2>3. ASSUME Run'
          PROVE  Run \/ c = RUN_CMD
        BY <2>3, <1>3, RunOnlyByCommand DEF Command
    <2>4. CASE NoCmd(Stream, RUN_CMD) /\ ~Run
      <3>1. NoCmd(Stream', RUN_CMD)
          BY <1>1, <2>1, <2>2, <2>4, NoCmdSkip
      <3>2. c # RUN_CMD
          BY <2>1, <2>2, <2>4 DEF NoCmd
      <3> QED BY <3>1, <3>2, <2>3, <2>4 DEF Halting
    <2>5. CASE StopAhead(Stream) /\ c # STOP_CMD
      <3>1. \A i \in 1 .. 1 : Stream[i] # Cmd(STOP_CMD)
          BY <2>1, <2>5, CmdFacts
      <3>2. StopAhead(Stream')
          BY <3>1, <1>1, <2>1, <2>2, <2>5, StopAheadSkip
      <3> QED BY <3>2 DEF Halting
    <2>6. CASE StopAhead(Stream) /\ c = STOP_CMD
      <3>1. ~Run'
          BY <1>3, <2>6, StopClearsRun
      <3>2. PICK i \in 1 .. Len(Stream) : /\ Stream[i] = Cmd(STOP_CMD)
                                          /\ \A j \in i .. Len(Stream) : Stream[j] # Cmd(RUN_CMD)
          BY <2>6 DEF StopAhead
      <3>3. CASE i = 1
        <4>1. NoCmd(Stream, RUN_CMD)
            BY <3>2, <3>3 DEF NoCmd
        <4>2. NoCmd(Stream', RUN_CMD)
            BY <4>1, <1>1, <2>1, <2>2, NoCmdSkip
        <4> QED BY <3>1, <4>2 DEF Halting
      <3>4. CASE i # 1
        <4>1. i - 1 \in 1 .. Len(Stream') /\ Stream'[i - 1] = Stream[i]
            BY <3>4, <2>1, <1>1 DEF Skips
        <4>2. ASSUME NEW j \in i - 1 .. Len(Stream')
              PROVE  Stream'[j] # Cmd(RUN_CMD)
          <5>1. j \in 1 .. Len(Stream') /\ j + 1 \in i .. Len(Stream)
              BY <3>4, <2>1, <1>1 DEF Skips
          <5> QED BY <5>1, <3>2, <2>1 DEF Skips
        <4>3. StopAhead(Stream')
            BY <4>1, <4>2, <3>2 DEF StopAhead
        <4> QED BY <4>3 DEF Halting
      <3> QED BY <3>3, <3>4
    <2> QED BY <2>4, <2>5, <2>6 DEF Halting
  <1>4. ASSUME NEW n \in {1, 2}, tpc # "tick", Skips(Stream, Stream', n),
               \A i \in 1 .. n : Stream[i].kind = "arg"
        PROVE  Halting'
    <2>1. \A i \in 1 .. n : Stream[i] # Cmd(STOP_CMD)
        BY <1>4, CmdFacts
    <2>2. Run' => Run
        BY <1>4, RunOnlyByCommand DEF Command
    <2>3. CASE NoCmd(Stream, RUN_CMD) /\ ~Run
        BY <1>1, <1>4, <2>2, <2>3, NoCmdSkip DEF Halting
    <2>4. CASE StopAhead(Stream)
        BY <1>1, <1>4, <2>1, <2>4, StopAheadSkip DEF Halting
    <2> QED BY <2>3, <2>4 DEF Halting
  <1> QED BY <1>2, <1>3, <1>4, ThreadReads

(* A client's STOP, or a message without RUN.                              *)
LEMMA HaltingAfter ==
  ASSUME NEW s \in Seq(Item), NEW m \in Seq(Item), Stream = s, Stream' = s \o m,
         NoCmd(m, RUN_CMD),
         \/ Halting /\ Run' = Run
         \/ Len(m) >= 1 /\ m[1] = Cmd(STOP_CMD)
  PROVE  Halting'
  <1> DEFINE u == s \o m
             n == Len(s)
  <1>1. /\ n \in Nat /\ Len(m) \in Nat /\ Len(u) = n + Len(m)
        /\ \A j \in 1 .. n : u[j] = s[j]
        /\ \A j \in 1 .. Len(m) : u[n + j] = m[j]
      BY Concat
  <1> HIDE DEF u, n
  <1>2. \A j \in 1 .. Len(m) : m[j] # Cmd(RUN_CMD)
      BY DEF NoCmd
  <1>3. ASSUME NEW i \in 1 .. Len(u), u[i] = Cmd(STOP_CMD),
               \A j \in i .. n : s[j] # Cmd(RUN_CMD)
        PROVE  StopAhead(u)
    <2>1. ASSUME NEW j \in i .. Len(u)
          PROVE  u[j] # Cmd(RUN_CMD)
      <3>1. CASE j <= n
          BY <1>1, <1>3, <3>1
      <3>2. CASE j > n
        <4>1. j - n \in 1 .. Len(m) /\ n + (j - n) = j
            BY <1>1, <3>2
        <4> QED BY <1>1, <1>2, <4>1
      <3> QED BY <1>1, <3>1, <3>2
    <2> QED BY <1>3, <2>1 DEF StopAhead
  <1>4. CASE Len(m) >= 1 /\ m[1] = Cmd(STOP_CMD)
    <2>1. n + 1 \in 1 .. Len(u) /\ u[n + 1] = Cmd(STOP_CMD)
        BY <1>1, <1>4
    <2>2. \A j \in n + 1 .. n : s[j] # Cmd(RUN_CMD)
        BY <1>1
    <2>3. StopAhead(u)
        BY <2>1, <2>2, <1>3
    <2> QED BY <2>3 DEF Halting, u
  <1>5. CASE StopAhead(s)
    <2>1. PICK i \in 1 .. n : s[i] = Cmd(STOP_CMD) /\ \A j \in i .. n : s[j] # Cmd(RUN_CMD)
        BY <1>5 DEF StopAhead, n
    <2>2. i \in 1 .. Len(u) /\ u[i] = Cmd(STOP_CMD)
        BY <1>1, <2>1
    <2>3. StopAhead(u)
        BY <2>1, <2>2, <1>3
    <2> QED BY <2>3 DEF Halting, u
  <1>6. CASE NoCmd(s, RUN_CMD) /\ ~Run /\ Run' = Run
    <2>1. NoCmd(u, RUN_CMD)
        BY <1>6, NoCmdConcat DEF u
    <2> QED BY <2>1, <1>6 DEF Halting, u
  <1> QED BY <1>4, <1>5, <1>6 DEF Halting

-----------------------------------------------------------------------------
(* LOAD: the frame t on its way to the DMA buffers.                        *)

(* Behind element k the stream s has the LOAD of t, and no other LOAD.     *)
LoadAt(s, k, t) == /\ k + NumAct + 2 <= Len(s)
                   /\ s[k + 1] = Cmd(LOAD_CMD)
                   /\ s[k + 2] = Arg(NumAct)
                   /\ \A a \in Act : s[k + 2 + a] = Arg(t[a])
                   /\ \A j \in k + 2 .. Len(s) : s[j] # Cmd(LOAD_CMD)

LoadAhead(t) == \E k \in Nat : LoadAt(Stream, k, t)

(* The thread has read the last LOAD, which was that of t: its arguments   *)
(* are next in the stream, or it is in the middle of its words, or the DMA *)
(* buffers hold it until another data command comes.                       *)
LoadTaken(t) ==
  /\ NoCmd(Stream, LOAD_CMD)
  /\ tpc = "count" => /\ NumAct + 1 <= Len(Stream)
                      /\ Stream[1] = Arg(NumAct)
                      /\ \A a \in Act : Stream[1 + a] = Arg(t[a])
  /\ tpc = "load"  => /\ count = NumAct
                      /\ next \in Act /\ NumAct - next + 1 <= Len(Stream)
                      /\ \A a \in next .. NumAct : Stream[a - next + 1] = Arg(t[a])
                      /\ \A a \in 1 .. next - 1 : userBuf[a] = t[a]
  /\ tpc \notin {"count", "load"} /\ iDataMode = 1 => \A b \in Buffers : dmaBuf[b] = t

(* The data mode while the arguments of LOAD and POKE are read.            *)
ModeInv == /\ tpc \in {"count", "load"} => iDataMode = 1
           /\ tpc = "poke" => iDataMode = 2

LoadInv(t) == ModeInv /\ (LoadAhead(t) \/ LoadTaken(t))

(* Only LOAD and POKE lead to their arguments.                             *)
LEMMA ThreadKeepsMode ==
  ASSUME ModeInv, ThreadNext
  PROVE  ModeInv'
  <1> USE DEF ModeInv
  <1>1. CASE Setup \/ EndTick
      BY <1>1 DEF Setup, EndTick, NoFrame, StartFrame, SkipFrame, FrameDone, Cleanup
  <1>2. CASE ReadCommand
      BY <1>2 DEF ReadCommand, NoCommand, StopCommand, RunCommand, StepCommand, ClearCommand,
                  TestCommand, TermCommand, LoadCommand, PokeCommand, SettingCommand, EnterMode
  <1>3. CASE ReadArgs
      BY <1>3 DEF ReadArgs, LoadCount, LoadWord, PokeArgs, HalterrArg, FramerateArg, StrobeArgs,
                  flagVars
  <1>4. CASE HardwareStep
      BY <1>4 DEF HardwareStep, threadVars
  <1> QED BY <1>1, <1>2, <1>3, <1>4 DEF ThreadNext, ThreadStep

(* Reading what is before the LOAD of t brings it nearer.                  *)
LEMMA LoadAtSkip ==
  ASSUME NEW s \in Seq(Item), NEW u \in Seq(Item), NEW n \in Nat, Skips(s, u, n),
         NEW t, NEW k \in Nat, LoadAt(s, k, t), n <= k
  PROVE  LoadAt(u, k - n, t)
  <1>1. Len(s) \in Nat /\ Len(u) = Len(s) - n /\ NumAct \in Nat
      BY FifoAssumption DEF Skips
  <1>2. \A j \in 1 .. Len(u) : u[j] = s[j + n]
      BY DEF Skips
  <1>3. (k - n) + NumAct + 2 <= Len(u)
      BY <1>1 DEF LoadAt
  <1>4. u[(k - n) + 1] = Cmd(LOAD_CMD) /\ u[(k - n) + 2] = Arg(NumAct)
    <2>1. /\ (k - n) + 1 \in 1 .. Len(u) /\ ((k - n) + 1) + n = k + 1
          /\ (k - n) + 2 \in 1 .. Len(u) /\ ((k - n) + 2) + n = k + 2
        BY <1>1, <1>3
    <2> QED BY <2>1, <1>2 DEF LoadAt
  <1>5. ASSUME NEW a \in Act
        PROVE  u[(k - n) + 2 + a] = Arg(t[a])
    <2>1. (k - n) + 2 + a \in 1 .. Len(u) /\ ((k - n) + 2 + a) + n = k + 2 + a
        BY <1>1, <1>3 DEF Act
    <2> QED BY <2>1, <1>2 DEF LoadAt
  <1>6. ASSUME NEW j \in (k - n) + 2 .. Len(u)
        PROVE  u[j] # Cmd(LOAD_CMD)
    <2>1. j \in 1 .. Len(u) /\ j + n \in k + 2 .. Len(s)
        BY <1>1
    <2> QED BY <2>1, <1>2 DEF LoadAt
  <1> QED BY <1>3, <1>4, <1>5, <1>6 DEF LoadAt

(* Every step of the thread brings the frame further.                      *)
LEMMA NotReadYet ==
  ASSUME NEW t, FifoTypeOK, ThreadTypeOK, StreamInv, LoadAhead(t), ThreadNext
  PROVE  LoadAhead(t)' \/ (LoadTaken(t)' /\ iDataMode' = 1)
  <1> USE FifoTypeOK, ThreadTypeOK, StreamInv
  <1>1. Stream \in Seq(Item) /\ Stream' \in Seq(Item)
      BY StreamType, NextStreamType, ThreadKeepsTypes
  <1>2. PICK k \in Nat : LoadAt(Stream, k, t)
      BY DEF LoadAhead
  <1>3. ASSUME NEW n \in Nat, Skips(Stream, Stream', n), n <= k
        PROVE  LoadAhead(t)'
    <2>1. k - n \in Nat /\ LoadAt(Stream', k - n, t)
        BY <1>1, <1>2, <1>3, LoadAtSkip
    <2> QED BY <2>1 DEF LoadAhead
  <1>4. NumAct \in Nat /\ NumAct >= 1 /\ Len(Stream) \in Nat
      BY <1>1, FifoAssumption
  <1>5. k + 1 \in 1 .. Len(Stream) /\ Stream[k + 1] = Cmd(LOAD_CMD)
      BY <1>2, <1>4 DEF LoadAt
  <1>6. CASE Stream' = Stream
      BY <1>2, <1>6 DEF LoadAhead
  <1>7. ASSUME NEW c, Command(c)
        PROVE  LoadAhead(t)' \/ (LoadTaken(t)' /\ iDataMode' = 1)
    <2>1. Skips(Stream, Stream', 1) /\ Stream[1] = Cmd(c) /\ 1 \in Nat
        BY <1>7, CommandReads
    <2>2. CASE k >= 1
        BY <1>3, <2>1, <2>2
    <2>3. CASE k = 0
      <3>1. c = LOAD_CMD
          BY <1>5, <2>1, <2>3, CmdFacts
      <3>2. tpc = "tick" /\ fifo # << >> /\ Head(fifo).val = LOAD_CMD /\ fifo' = Tail(fifo)
          BY <1>7, <3>1 DEF Command, ReadItem
      <3>3. fifo' # fifo
          BY <3>2, HeadTailProperties DEF FifoTypeOK
      <3>4. ReadCommand /\ ~NoCommand
          BY <3>2, <3>3 DEF ThreadNext, ThreadStep, HardwareStep, Setup, ReadArgs, EndTick,
             LoadCount, LoadWord, PokeArgs, HalterrArg, FramerateArg, StrobeArgs, NoFrame,
             StartFrame, SkipFrame, FrameDone, Cleanup, NoCommand, fifoVars
      <3>5. LoadCommand
          BY <3>2, <3>4 DEF ReadCommand, StopCommand, RunCommand, StepCommand, ClearCommand,
             TestCommand, TermCommand, PokeCommand, SettingCommand, Command, RUN_CMD, STOP_CMD,
             STEP_CMD, CLEAR_CMD, TEST_CMD, TERM_CMD, LOAD_CMD, POKE_CMD, HALTERR_CMD,
             FRAMERATE_CMD, STROBE_CMD
      <3>6. tpc' = "count" /\ iDataMode' = 1
          BY <3>5 DEF LoadCommand, EnterMode
      <3>7. /\ Len(Stream') = Len(Stream) - 1
            /\ \A j \in 1 .. Len(Stream') : Stream'[j] = Stream[j + 1]
          BY <2>1 DEF Skips
      <3>8. NumAct + 1 <= Len(Stream') /\ Stream'[1] = Arg(NumAct)
        <4>1. 0 + NumAct + 2 <= Len(Stream) /\ Stream[0 + 2] = Arg(NumAct)
            BY <1>2, <2>3 DEF LoadAt
        <4>2. NumAct + 1 <= Len(Stream') /\ 1 \in 1 .. Len(Stream') /\ 1 + 1 = 0 + 2
            BY <4>1, <1>4, <3>7
        <4> QED BY <4>1, <4>2, <3>7
      <3>9. ASSUME NEW a \in Act
            PROVE  Stream'[1 + a] = Arg(t[a])
        <4>1. Stream[0 + 2 + a] = Arg(t[a])
            BY <1>2, <2>3 DEF LoadAt
        <4>2. 1 + a \in 1 .. Len(Stream') /\ (1 + a) + 1 = 0 + 2 + a
            BY <1>4, <3>8 DEF Act
        <4> QED BY <4>1, <4>2, <3>7
      <3>10. NoCmd(Stream', LOAD_CMD)
        <4> SUFFICES ASSUME NEW j \in 1 .. Len(Stream')
                     PROVE  Stream'[j] # Cmd(LOAD_CMD)
            BY DEF NoCmd
        <4>1. j + 1 \in 0 + 2 .. Len(Stream)
            BY <1>4, <3>7
        <4>2. Stream[j + 1] # Cmd(LOAD_CMD)
            BY <4>1, <1>2, <2>3 DEF LoadAt
        <4> QED BY <4>2, <3>7
      <3> QED BY <3>6, <3>8, <3>9, <3>10 DEF LoadTaken
    <2> QED BY <2>2, <2>3
  <1>8. ASSUME NEW n \in {1, 2}, Skips(Stream, Stream', n),
               \A i \in 1 .. n : Stream[i].kind = "arg"
        PROVE  LoadAhead(t)'
    <2>1. Stream[k + 1].kind = "cmd"
        BY <1>5, CmdFacts
    <2>2. n <= k
        BY <2>1, <1>8
    <2> QED BY <1>3, <1>8, <2>2
  <1> QED BY <1>6, <1>7, <1>8, ThreadReads

(* Once it is taken its words go one by one into the user buffers, and all *)
(* of them into the DMA buffers, until another data command is read.       *)
LEMMA TakenStaysTaken ==
  ASSUME NEW t \in Frame, FifoTypeOK, ThreadTypeOK, StreamInv, ModeInv, LoadTaken(t), ThreadNext
  PROVE  LoadTaken(t)'
  <1> USE FifoTypeOK, ThreadTypeOK, StreamInv, ModeInv, LoadTaken(t)
  <1>1. Stream \in Seq(Item) /\ Stream' \in Seq(Item)
      BY StreamType, NextStreamType, ThreadKeepsTypes
  <1>2. NumAct \in Nat /\ NumAct >= 1 /\ Len(Stream) \in Nat
      BY <1>1, FifoAssumption
  <1>3. NoCmd(Stream', LOAD_CMD)
    <2>1. CASE Stream' = Stream
        BY <2>1 DEF LoadTaken
    <2>2. ASSUME NEW n \in Nat, Skips(Stream, Stream', n)
          PROVE  NoCmd(Stream', LOAD_CMD)
        BY <1>1, <2>2, NoCmdSkip DEF LoadTaken
    <2>3. ASSUME NEW c, Command(c)
          PROVE  NoCmd(Stream', LOAD_CMD)
        BY <2>2, <2>3, CommandReads
    <2> QED BY <2>1, <2>2, <2>3, ThreadReads
  <1>4. ~Command(LOAD_CMD)
    <2> SUFFICES ASSUME Command(LOAD_CMD)
                 PROVE  FALSE
        OBVIOUS
    <2>1. Skips(Stream, Stream', 1) /\ Stream[1] = Cmd(LOAD_CMD)
        BY CommandReads
    <2>2. 1 \in 1 .. Len(Stream)
        BY <1>2, <2>1 DEF Skips
    <2> QED BY <2>1, <2>2 DEF LoadTaken, NoCmd
  <1>5. ASSUME tpc' \notin {"count", "load"}, tpc \notin {"count", "load"},
               dmaBuf' = dmaBuf, iDataMode' = 1 => iDataMode = 1
        PROVE  LoadTaken(t)'
      BY <1>3, <1>5 DEF LoadTaken
  <1>6. ASSUME tpc' \notin {"count", "load"}, iDataMode' # 1
        PROVE  LoadTaken(t)'
      BY <1>3, <1>6 DEF LoadTaken
  <1>7. CASE Setup \/ EndTick
    <2>1. tpc \notin {"count", "load"} /\ tpc' \notin {"count", "load"}
        BY <1>7 DEF Setup, EndTick, NoFrame, StartFrame, SkipFrame, FrameDone, Cleanup
    <2>2. dmaBuf' = dmaBuf /\ iDataMode' = iDataMode
        BY <1>7 DEF Setup, EndTick, NoFrame, StartFrame, SkipFrame, FrameDone, Cleanup, StartDma,
                    SemWait, dmaVars, flagVars
    <2> QED BY <2>1, <2>2, <1>5
  <1>8. CASE ReadCommand
    <2>1. tpc = "tick" /\ ~LoadCommand
        BY <1>8, <1>4 DEF ReadCommand, NoCommand, StopCommand, RunCommand, StepCommand,
           ClearCommand, TestCommand, TermCommand, LoadCommand, PokeCommand, SettingCommand,
           Command
    <2>2. tpc' \notin {"count", "load"}
        BY <1>8, <2>1 DEF ReadCommand, NoCommand, StopCommand, RunCommand, StepCommand,
           ClearCommand, TestCommand, TermCommand, PokeCommand, SettingCommand
    <2>3. iDataMode' # 1 \/ (dmaBuf' = dmaBuf /\ iDataMode' = iDataMode)
        BY <1>8, <2>1 DEF ReadCommand, NoCommand, StopCommand, RunCommand, StepCommand,
           ClearCommand, TestCommand, TermCommand, PokeCommand, SettingCommand, EnterMode,
           dmaVars, flagVars
    <2> QED BY <2>1, <2>2, <2>3, <1>5, <1>6
  <1>9. CASE LoadCount
    <2>1. /\ NumAct + 1 <= Len(Stream) /\ Stream[1] = Arg(NumAct)
          /\ \A a \in Act : Stream[1 + a] = Arg(t[a])
        BY <1>9 DEF LoadCount, LoadTaken
    <2>2. Head(fifo) = Stream[1] /\ Skips(Stream, Stream', 1)
        BY <1>9, ReadItemSkips DEF LoadCount
    <2>3. count' = NumAct /\ next' = 1 /\ tpc' = "load"
        BY <1>9, <1>2, <2>1, <2>2, CmdFacts DEF LoadCount
    <2>4. /\ Len(Stream') = Len(Stream) - 1
          /\ \A j \in 1 .. Len(Stream') : Stream'[j] = Stream[j + 1]
        BY <2>2 DEF Skips
    <2>5. ASSUME NEW a \in 1 .. NumAct
          PROVE  Stream'[a - 1 + 1] = Arg(t[a])
      <3>1. a \in Act /\ a - 1 + 1 = a /\ a \in 1 .. Len(Stream') /\ a + 1 = 1 + a
          BY <1>2, <2>1, <2>4 DEF Act
      <3> QED BY <3>1, <2>1, <2>4
    <2>6. /\ next' \in Act /\ NumAct - next' + 1 <= Len(Stream')
          /\ \A a \in next' .. NumAct : Stream'[a - next' + 1] = Arg(t[a])
          /\ \A a \in 1 .. next' - 1 : userBuf'[a] = t[a]
        BY <1>2, <2>1, <2>3, <2>4, <2>5 DEF Act
    <2> QED BY <1>3, <2>3, <2>6 DEF LoadTaken
  <1>10. CASE LoadWord
    <2>1. /\ count = NumAct /\ next \in Act /\ NumAct - next + 1 <= Len(Stream)
          /\ \A a \in next .. NumAct : Stream[a - next + 1] = Arg(t[a])
          /\ \A a \in 1 .. next - 1 : userBuf[a] = t[a]
        BY <1>10 DEF LoadWord, LoadTaken
    <2>2. Head(fifo) = Stream[1] /\ Skips(Stream, Stream', 1)
        BY <1>10, ReadItemSkips DEF LoadWord
    <2>3. Head(fifo).val = t[next]
      <3>1. next \in next .. NumAct /\ next - next + 1 = 1
          BY <1>2, <2>1 DEF Act
      <3>2. Stream[1] = Arg(t[next])
          BY <2>1, <3>1
      <3> QED BY <2>2, <3>2, CmdFacts
    <2>4. userBuf' = [userBuf EXCEPT ![next] = t[next]] /\ next' = next + 1 /\ count' = NumAct
        BY <1>10, <2>1, <2>3 DEF LoadWord
    <2>5. userBuf \in [Act -> Word] /\ t \in [Act -> Word]
        BY DEF ThreadTypeOK, Frame
    <2>6. \A a \in 1 .. next : userBuf'[a] = t[a]
      <3> SUFFICES ASSUME NEW a \in 1 .. next
                   PROVE  userBuf'[a] = t[a]
          OBVIOUS
      <3>1. a \in Act /\ (a = next \/ a \in 1 .. next - 1)
          BY <2>1, <1>2 DEF Act
      <3> QED BY <3>1, <2>1, <2>4, <2>5
    <2>7. CASE next = NumAct
      <3>1. tpc' = "frame" /\ dmaBuf' = [b \in Buffers |-> userBuf']
          BY <1>10, <2>1, <2>7 DEF LoadWord, CopyToKernel
      <3>2. userBuf' = t
        <4>1. userBuf' \in [Act -> Word]
            BY ThreadKeepsTypes DEF ThreadTypeOK, Frame
        <4>2. \A a \in Act : userBuf'[a] = t[a]
            BY <2>6, <2>7 DEF Act
        <4> QED BY <4>1, <4>2, <2>5
      <3> QED BY <1>3, <3>1, <3>2 DEF LoadTaken
    <2>8. CASE next # NumAct
      <3>1. tpc' = "load"
          BY <1>10, <2>1, <2>8 DEF LoadWord
      <3>2. next' \in Act /\ next \in Nat /\ NumAct - next' + 1 = NumAct - next
          BY <1>2, <2>1, <2>4, <2>8 DEF Act
      <3>3. /\ Len(Stream') = Len(Stream) - 1
            /\ \A j \in 1 .. Len(Stream') : Stream'[j] = Stream[j + 1]
          BY <2>2 DEF Skips
      <3>4. ASSUME NEW a \in next' .. NumAct
            PROVE  Stream'[a - next' + 1] = Arg(t[a])
        <4>1. /\ a - next' + 1 \in 1 .. Len(Stream') /\ (a - next' + 1) + 1 = a - next + 1
              /\ a \in next .. NumAct
            BY <1>2, <2>1, <2>4, <3>2, <3>3
        <4> QED BY <4>1, <3>3, <2>1
      <3>5. \A a \in 1 .. next' - 1 : userBuf'[a] = t[a]
          BY <2>4, <2>6, <3>2
      <3>6. NumAct - next' + 1 <= Len(Stream')
          BY <1>2, <2>1, <3>2, <3>3
      <3> QED BY <1>3, <2>4, <3>1, <3>2, <3>4, <3>5, <3>6 DEF LoadTaken
    <2> QED BY <2>7, <2>8
  <1>11. CASE PokeArgs
      BY <1>11, <1>6 DEF PokeArgs, ModeInv, flagVars
  <1>12. CASE HalterrArg \/ FramerateArg \/ StrobeArgs
    <2>1. tpc \notin {"count", "load"} /\ tpc' \notin {"count", "load"} /\ dmaBuf' = dmaBuf
            /\ iDataMode' = iDataMode
        BY <1>12 DEF HalterrArg, FramerateArg, StrobeArgs, dmaVars, flagVars
    <2> QED BY <2>1, <1>5
  <1>13. CASE HardwareStep
    <2>1. UNCHANGED <<fifo, out, tpc, count, next, userBuf, iDataMode, dmaBuf>>
        BY <1>13 DEF HardwareStep, threadVars, fifoVars, DmaNext, DmaWord, DmaEnd, DmaDoneNotifier
    <2>2. Stream' = Stream
        BY <2>1 DEF Stream
    <2> QED BY <2>1, <2>2 DEF LoadTaken
  <1> QED BY <1>7, <1>8, <1>9, <1>10, <1>11, <1>12, <1>13 DEF ThreadNext, ThreadStep, ReadArgs

(* Every step of the thread and of the board.                              *)
LEMMA ThreadKeepsLoad ==
  ASSUME NEW t \in Frame, FifoTypeOK, ThreadTypeOK, StreamInv, LoadInv(t), ThreadNext
  PROVE  LoadInv(t)'
  BY NotReadYet, TakenStaysTaken, ThreadKeepsMode DEF LoadInv

(* A message without a LOAD leaves the last one the last...                *)
LEMMA LoadStaysLast ==
  ASSUME NEW t, NEW m \in Seq(Item), FifoTypeOK, LoadInv(t), Stream' = Stream \o m,
         NoCmd(m, LOAD_CMD), UNCHANGED <<dmaVars, threadVars>>
  PROVE  LoadInv(t)' /\ (LoadAhead(t) => LoadAhead(t)')
  <1> DEFINE s == Stream
             u == Stream \o m
             n == Len(s)
  <1>1. /\ s \in Seq(Item) /\ n \in Nat /\ Len(m) \in Nat /\ Len(u) = n + Len(m)
        /\ \A j \in 1 .. n : u[j] = s[j]
        /\ \A j \in 1 .. Len(m) : u[n + j] = m[j]
      BY StreamType, Concat
  <1>2. NumAct \in Nat /\ NumAct >= 1
      BY FifoAssumption
  <1>3. \A j \in 1 .. Len(m) : m[j] # Cmd(LOAD_CMD)
      BY DEF NoCmd
  <1> HIDE DEF u, n, s
  <1>4. UNCHANGED <<tpc, count, next, userBuf, iDataMode, dmaBuf>>
      BY DEF dmaVars, threadVars
  <1>5. ASSUME NEW k \in Nat, LoadAt(s, k, t)
        PROVE  LoadAt(u, k, t)
    <2>1. k + NumAct + 2 <= n
        BY <1>5 DEF LoadAt, n
    <2>2. k + NumAct + 2 <= Len(u) /\ k + 1 \in 1 .. n /\ k + 2 \in 1 .. n
        BY <2>1, <1>1, <1>2
    <2>3. u[k + 1] = Cmd(LOAD_CMD) /\ u[k + 2] = Arg(NumAct)
        BY <2>2, <1>1, <1>5 DEF LoadAt
    <2>4. ASSUME NEW a \in Act
          PROVE  u[k + 2 + a] = Arg(t[a])
      <3>1. k + 2 + a \in 1 .. n
          BY <2>1, <1>1, <1>2 DEF Act
      <3> QED BY <3>1, <1>1, <1>5 DEF LoadAt
    <2>5. ASSUME NEW j \in k + 2 .. Len(u)
          PROVE  u[j] # Cmd(LOAD_CMD)
      <3>1. CASE j <= n
        <4>1. j \in 1 .. n /\ j \in k + 2 .. Len(s)
            BY <3>1, <1>1 DEF n
        <4> QED BY <4>1, <1>1, <1>5 DEF LoadAt
      <3>2. CASE j > n
        <4>1. j - n \in 1 .. Len(m) /\ n + (j - n) = j
            BY <3>2, <1>1
        <4> QED BY <4>1, <1>1, <1>3
      <3> QED BY <3>1, <3>2, <1>1
    <2> QED BY <2>2, <2>3, <2>4, <2>5 DEF LoadAt
  <1>6. ASSUME LoadAhead(t)
        PROVE  LoadAhead(t)' /\ LoadInv(t)'
    <2>1. PICK k \in Nat : LoadAt(s, k, t)
        BY <1>6 DEF LoadAhead, s
    <2>2. LoadAhead(t)'
        BY <2>1, <1>5 DEF LoadAhead, u
    <2> QED BY <2>2, <1>4 DEF LoadInv, ModeInv
  <1>7. ASSUME LoadTaken(t)
        PROVE  LoadInv(t)'
    <2>1. NoCmd(u, LOAD_CMD)
        BY <1>1, <1>7, NoCmdConcat DEF LoadTaken, u, s
    <2>2. ASSUME tpc = "count"
          PROVE  /\ NumAct + 1 <= Len(u)
                 /\ u[1] = Arg(NumAct)
                 /\ \A a \in Act : u[1 + a] = Arg(t[a])
      <3>1. NumAct + 1 <= n /\ s[1] = Arg(NumAct) /\ \A a \in Act : s[1 + a] = Arg(t[a])
          BY <2>2, <1>7 DEF LoadTaken, s, n
      <3>2. 1 \in 1 .. n /\ NumAct + 1 <= Len(u)
          BY <3>1, <1>1, <1>2
      <3>3. ASSUME NEW a \in Act
            PROVE  u[1 + a] = Arg(t[a])
        <4>1. 1 + a \in 1 .. n
            BY <3>1, <1>1, <1>2 DEF Act
        <4> QED BY <4>1, <3>1, <1>1
      <3> QED BY <3>1, <3>2, <3>3, <1>1
    <2>3. ASSUME tpc = "load"
          PROVE  /\ count = NumAct
                 /\ next \in Act /\ NumAct - next + 1 <= Len(u)
                 /\ \A a \in next .. NumAct : u[a - next + 1] = Arg(t[a])
                 /\ \A a \in 1 .. next - 1 : userBuf[a] = t[a]
      <3>1. /\ count = NumAct /\ next \in Act /\ NumAct - next + 1 <= n
            /\ \A a \in next .. NumAct : s[a - next + 1] = Arg(t[a])
            /\ \A a \in 1 .. next - 1 : userBuf[a] = t[a]
          BY <2>3, <1>7 DEF LoadTaken, s, n
      <3>2. NumAct - next + 1 <= Len(u)
          BY <3>1, <1>1, <1>2 DEF Act
      <3>3. ASSUME NEW a \in next .. NumAct
            PROVE  u[a - next + 1] = Arg(t[a])
        <4>1. a - next + 1 \in 1 .. n
            BY <3>1, <1>1, <1>2 DEF Act
        <4> QED BY <4>1, <3>1, <1>1
      <3> QED BY <3>1, <3>2, <3>3
    <2>4. LoadTaken(t)'
        BY <1>4, <1>7, <2>1, <2>2, <2>3 DEF LoadTaken, u
    <2> QED BY <2>4, <1>4, <1>7 DEF LoadInv, ModeInv
  <1>8. LoadAhead(t) => LoadAhead(t)' /\ LoadInv(t)'
      BY <1>6
  <1>9. LoadAhead(t) \/ LoadTaken(t)
      BY DEF LoadInv
  <1> QED BY <1>7, <1>8, <1>9

(* ... and the LOAD of t, with what may follow it, puts t on its way.      *)
LEMMA LoadSent ==
  ASSUME NEW t \in Frame, NEW m \in Seq(Item), FifoTypeOK, ModeInv,
         Stream' = Stream \o m, UNCHANGED <<dmaVars, threadVars>>,
         LoadAt(m, 0, t)
  PROVE  LoadInv(t)' /\ LoadAhead(t)'
  <1> DEFINE s == Stream
             u == Stream \o m
             n == Len(s)
  <1>1. /\ s \in Seq(Item) /\ n \in Nat /\ Len(m) \in Nat /\ Len(u) = n + Len(m)
        /\ \A j \in 1 .. Len(m) : u[n + j] = m[j]
      BY StreamType, Concat
  <1>2. NumAct \in Nat /\ NumAct >= 1
      BY FifoAssumption
  <1> HIDE DEF u, n, s
  <1>3. /\ NumAct + 2 <= Len(m) /\ m[1] = Cmd(LOAD_CMD) /\ m[2] = Arg(NumAct)
        /\ \A a \in Act : m[2 + a] = Arg(t[a])
        /\ \A j \in 2 .. Len(m) : m[j] # Cmd(LOAD_CMD)
    <2>1. 0 + NumAct + 2 = NumAct + 2 /\ 0 + 1 = 1 /\ 0 + 2 = 2
        BY <1>2
    <2> QED BY <2>1 DEF LoadAt
  <1>4. n + NumAct + 2 <= Len(u) /\ u[n + 1] = Cmd(LOAD_CMD) /\ u[n + 2] = Arg(NumAct)
    <2>1. 1 \in 1 .. Len(m) /\ 2 \in 1 .. Len(m)
        BY <1>1, <1>2, <1>3
    <2>2. u[n + 1] = m[1] /\ u[n + 2] = m[2]
        BY <2>1, <1>1
    <2>3. n + NumAct + 2 <= Len(u)
        BY <1>1, <1>2, <1>3
    <2> QED BY <2>2, <2>3, <1>3
  <1>5. ASSUME NEW a \in Act
        PROVE  u[n + 2 + a] = Arg(t[a])
    <2>1. 2 + a \in 1 .. Len(m) /\ n + (2 + a) = n + 2 + a
        BY <1>1, <1>2, <1>3 DEF Act
    <2> QED BY <2>1, <1>1, <1>3
  <1>6. ASSUME NEW j \in n + 2 .. Len(u)
        PROVE  u[j] # Cmd(LOAD_CMD)
    <2>1. j - n \in 1 .. Len(m) /\ n + (j - n) = j /\ j - n \in 2 .. Len(m)
        BY <1>1
    <2> QED BY <2>1, <1>1, <1>3
  <1>7. LoadAt(u, n, t)
      BY <1>4, <1>5, <1>6 DEF LoadAt
  <1>8. LoadAhead(t)'
      BY <1>1, <1>7 DEF LoadAhead, u
  <1>9. ModeInv'
      BY DEF ModeInv, threadVars
  <1> QED BY <1>8, <1>9 DEF LoadInv

(* The LOAD of a frame, with nothing behind it that is another.            *)
LEMMA LoadOfFrame ==
  ASSUME NEW t \in Seq(Word), Len(t) = NumAct,
         NEW m \in Seq(Item), NoCmd(m, LOAD_CMD)
  PROVE  /\ LoadMsg(t) \o m \in Seq(Item)
         /\ LoadAt(LoadMsg(t) \o m, 0, t)
  <1>1. NumAct \in Nat /\ NumAct >= 1 /\ NumAct \in Word
      BY FifoAssumption, ActIsWord
  <1> DEFINE l == LoadMsg(t)
             k == Len(l)
             u == l \o m
  <1>2. /\ l \in Seq(Item) /\ k = NumAct + 2
        /\ l[1] = Cmd(LOAD_CMD) /\ l[2] = Arg(NumAct)
        /\ \A a \in 1 .. NumAct : l[2 + a] = Arg(t[a])
      BY <1>1, LoadElements
  <1> HIDE DEF l
  <1>3. /\ u \in Seq(Item) /\ Len(m) \in Nat /\ Len(u) = k + Len(m)
        /\ \A j \in 1 .. k : u[j] = l[j]
        /\ \A j \in 1 .. Len(m) : u[k + j] = m[j]
    <2>1. l \in Seq(Item) /\ Len(m) \in Nat
        BY <1>2
    <2> QED BY <2>1, Concat
  <1>4. \A j \in 1 .. Len(m) : m[j] # Cmd(LOAD_CMD)
      BY DEF NoCmd
  <1> HIDE DEF u, k
  <1>5. 1 \in 1 .. k /\ 2 \in 1 .. k
      BY <1>1, <1>2
  <1>6. u[0 + 1] = Cmd(LOAD_CMD) /\ u[0 + 2] = Arg(NumAct) /\ 0 + NumAct + 2 <= Len(u)
      BY <1>1, <1>2, <1>3, <1>5
  <1>7. ASSUME NEW a \in Act
        PROVE  u[0 + 2 + a] = Arg(t[a])
    <2>1. a \in 1 .. NumAct /\ 2 + a \in 1 .. k /\ 0 + 2 + a = 2 + a
        BY <1>1, <1>2 DEF Act
    <2> QED BY <2>1, <1>2, <1>3
  <1>8. ASSUME NEW j \in 0 + 2 .. Len(u)
        PROVE  u[j] # Cmd(LOAD_CMD)
    <2>1. CASE j = 2
        BY <1>2, <1>3, <1>5, <2>1, CmdFacts
    <2>2. CASE j > 2 /\ j <= k
      <3>1. j - 2 \in 1 .. NumAct /\ 2 + (j - 2) = j /\ j \in 1 .. k
          BY <1>1, <1>2, <2>2
      <3>2. u[j] = Arg(t[j - 2])
          BY <3>1, <1>2, <1>3
      <3> QED BY <3>2, CmdFacts
    <2>3. CASE j > k
      <3>1. j - k \in 1 .. Len(m) /\ k + (j - k) = j
          BY <1>1, <1>2, <1>3, <2>3
      <3>2. u[j] = m[j - k]
          BY <3>1, <1>3
      <3> QED BY <3>1, <3>2, <1>4
    <2> QED BY <1>1, <1>2, <2>1, <2>2, <2>3
  <1>9. LoadAt(u, 0, t)
      BY <1>6, <1>7, <1>8 DEF LoadAt
  <1> QED BY <1>3, <1>9 DEF u, l

(* A frame as the sequence LOAD carries.                                   *)
LEMMA FrameIsSeq == ASSUME NEW t \in Frame
                    PROVE  t \in Seq(Word) /\ Len(t) = NumAct
  BY FifoAssumption DEF Frame, Act

-----------------------------------------------------------------------------
(* What the thread does not read it does not do.                           *)

(* The thread and the board write nothing into the pipe.                   *)
LEMMA ThreadLeavesOut == ThreadNext => out' = out
  BY DEF ThreadNext, ThreadStep, HardwareStep, Setup, ReadCommand, ReadArgs, EndTick, fifoVars,
         NoCommand, StopCommand, RunCommand, StepCommand, ClearCommand, TestCommand, TermCommand,
         LoadCommand, PokeCommand, SettingCommand, LoadCount, LoadWord, PokeArgs, HalterrArg,
         FramerateArg, StrobeArgs, NoFrame, StartFrame, SkipFrame, FrameDone, Cleanup, Command,
         ReadItem

(* The mirror is the business of the board.                                *)
LEMMA ThreadLeavesMirror == ThreadStep => dm' = dm
  BY DEF ThreadStep, Setup, ReadCommand, ReadArgs, EndTick, dmaVars, NoCommand, StopCommand,
         RunCommand, StepCommand, ClearCommand, TestCommand, TermCommand, LoadCommand,
         PokeCommand, SettingCommand, LoadCount, LoadWord, PokeArgs, HalterrArg, FramerateArg,
         StrobeArgs, NoFrame, StartFrame, SkipFrame, FrameDone, Cleanup, FillPattern, StartDma,
         SemWait

(* What they read they find there.                                         *)
LEMMA EmptyStaysEmpty == ThreadNext /\ fifo = << >> => fifo' = << >>
  BY DEF ThreadNext, ThreadStep, HardwareStep, Setup, ReadCommand, ReadArgs, EndTick, fifoVars,
         NoCommand, StopCommand, RunCommand, StepCommand, ClearCommand, TestCommand, TermCommand,
         LoadCommand, PokeCommand, SettingCommand, LoadCount, LoadWord, PokeArgs, HalterrArg,
         FramerateArg, StrobeArgs, NoFrame, StartFrame, SkipFrame, FrameDone, Cleanup, Command,
         ReadItem

(* The stream gets no new command from the thread.                         *)
LEMMA ThreadKeepsNoCmd ==
  ASSUME NEW c, FifoTypeOK, ThreadTypeOK, StreamInv, NoCmd(Stream, c), ThreadNext
  PROVE  NoCmd(Stream, c)'
  <1>1. Stream \in Seq(Item) /\ Stream' \in Seq(Item)
      BY StreamType, NextStreamType, ThreadKeepsTypes
  <1>2. CASE Stream' = Stream
      BY <1>2 DEF NoCmd
  <1>3. ASSUME NEW n \in Nat, Skips(Stream, Stream', n)
        PROVE  NoCmd(Stream', c)
      BY <1>1, <1>3, NoCmdSkip
  <1>4. ASSUME NEW d, Command(d)
        PROVE  NoCmd(Stream', c)
      BY <1>3, <1>4, CommandReads
  <1> QED BY <1>2, <1>3, <1>4, ThreadReads

(* The data mode changes by a data command only.                           *)
LEMMA ModeOnlyByCommand ==
  ASSUME ThreadNext
  PROVE  \/ iDataMode' = iDataMode
         \/ Command(LOAD_CMD) /\ iDataMode' = 1
         \/ \E c \in {CLEAR_CMD, TEST_CMD, POKE_CMD} : Command(c)
  BY DEF ThreadNext, ThreadStep, HardwareStep, threadVars, flagVars, Setup, ReadCommand,
         ReadArgs, EndTick, NoCommand, StopCommand, RunCommand, StepCommand, ClearCommand,
         TestCommand, TermCommand, LoadCommand, PokeCommand, SettingCommand, LoadCount,
         LoadWord, PokeArgs, HalterrArg, FramerateArg, StrobeArgs, NoFrame, StartFrame,
         SkipFrame, FrameDone, Cleanup, EnterMode

(* A command that is not in the stream is not carried out.                 *)
LEMMA NoCmdNoCommand ==
  ASSUME NEW c, FifoTypeOK, StreamInv, NoCmd(Stream, c)
  PROVE  ~Command(c)
  <1> SUFFICES ASSUME Command(c)
               PROVE  FALSE
      OBVIOUS
  <1>1. Skips(Stream, Stream', 1) /\ Stream[1] = Cmd(c)
      BY CommandReads
  <1>2. Stream \in Seq(Item)
      BY StreamType
  <1>3. 1 \in 1 .. Len(Stream)
      BY <1>1, <1>2 DEF Skips
  <1> QED BY <1>1, <1>3 DEF NoCmd

(* A LOAD that was sent is ahead or was the last data command read, when   *)
(* no other data command comes behind it.                                  *)
LEMMA ThreadKeepsSent ==
  ASSUME NEW t, FifoTypeOK, ThreadTypeOK, StreamInv, ThreadNext,
         LoadAhead(t) \/ iDataMode = 1,
         \A c \in {CLEAR_CMD, TEST_CMD, POKE_CMD} : NoCmd(Stream, c)
  PROVE  LoadAhead(t)' \/ iDataMode' = 1
  <1>1. \A c \in {CLEAR_CMD, TEST_CMD, POKE_CMD} : ~Command(c)
      BY NoCmdNoCommand
  <1>2. CASE LoadAhead(t)
      BY <1>2, NotReadYet
  <1>3. CASE iDataMode = 1
      BY <1>1, <1>3, ModeOnlyByCommand
  <1> QED BY <1>2, <1>3
=============================================================================
