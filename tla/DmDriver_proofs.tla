--------------------------- MODULE DmDriver_proofs ---------------------------
(***************************************************************************)
(* Safety of runBMCcacao_VMETRO for any number of actuators, any capacity  *)
(* of the pipe, any frames, and any number of interruptions and restarts.  *)
(*                                                                         *)
(* Three invariants on top of the types: what main writes leaves the       *)
(* stream of FramingThread_proofs in order and the last LOAD in it that of *)
(* sActValue; no RUN is in it, and no LOAD is read before the STOP; and    *)
(* the counter of dmvolt, with the registers of its two increments, is     *)
(* past the counter served whenever the picture sent is not the last.      *)
(*                                                                         *)
(* And the refinement of DmDisplay, as far as it is safety: from the       *)
(* mirror over the DMA buffer, the user buffer, the frame being read and   *)
(* the LOADs of the stream to sActValue, temp and the image no actuator    *)
(* has an older frame than in the place before.                            *)
(***************************************************************************)
EXTENDS DmDriver, FramingThread_proofs, FunctionTheorems, FiniteSetTheorems

(* The voltage word of a pixel is a word: the conversion saturates.        *)
LEMMA ConvertType == \A t \in Word : Convert(t) \in Word
  <1> SUFFICES ASSUME NEW t \in Word
               PROVE  Convert(t) \in Word
      OBVIOUS
  <1>1. t \in Nat
      BY WordBound DEF Word
  <1>2. CASE t >= 16384
      BY <1>2, WordBound DEF Convert, Word
  <1>3. CASE ~(t >= 16384)
    <2>1. 4 * t \in Nat /\ 4 * t <= 65535
        BY <1>1, <1>3
    <2> DEFINE word == 4 * t
    <2>2. word \in Nat /\ word <= MaxWord
        BY <2>1 DEF MaxWord
    <2> HIDE DEF word
    <2>3. word \in Word
        BY <2>2 DEF Word
    <2> QED BY <1>3, <2>3 DEF Convert, word
  <1> QED BY <1>2, <1>3

(* The words sent are a frame, for any wiring of the mirror.               *)
LEMMA MappedType == \A t \in Frame : Mapped(t) \in Frame
  <1> SUFFICES ASSUME NEW t \in Frame, NEW i \in Act
               PROVE  Convert(t[CHOOSE a \in Act : DmMap[a] = i]) \in Word
      BY DEF Mapped, Frame
  <1>1. (CHOOSE a \in Act : DmMap[a] = i) \in Act
      BY LoopAssumption
  <1> QED BY <1>1, ConvertType DEF Frame

(* The LOAD of a whole frame.                                              *)
LEMMA LoadFrameType == \A f \in Frame : LoadMsg(f) \in Seq(Item)
  <1> SUFFICES ASSUME NEW f \in Frame
               PROVE  LoadMsg(f) \in Seq(Item)
      OBVIOUS
  <1>1. f \in Seq(Word) /\ Len(f) = NumAct
      BY FifoAssumption DEF Frame, Act
  <1>2. Len(f) \in Word
      BY <1>1, FifoAssumption, ActIsWord
  <1> QED BY <1>1, <1>2, LoadType

-----------------------------------------------------------------------------
(* The first state.                                                        *)
LEMMA InitTypes == Init => TypeOK
  <1> SUFFICES ASSUME Init
               PROVE  TypeOK
      OBVIOUS
  <1>1. FifoTypeOK
      BY FifoAssumption DEF Init, FifoInit, FifoTypeOK
  <1>2. ThreadTypeOK
      BY InitialThreadTypes DEF Init
  <1>3. 0 \in Word
      BY SmallWord
  <1>4. StreamTypeOK
    <2>1. pix \in Frame /\ cnt0 \in Nat /\ wcnt \in Nat /\ frame \in 0 .. Len(Commands)
        BY <1>3, CommandsAssumption DEF Init, StreamInit, Frame
    <2>2. write \in BOOLEAN /\ quit \in BOOLEAN
        BY DEF Init, StreamInit
    <2>3. wpc = "idle" /\ todo = {}
        BY DEF Init, StreamInit
    <2> QED BY <2>1, <2>2, <2>3 DEF StreamTypeOK
  <1>5. LoopTypeOK
    <2>1. /\ framecnt = -1 /\ seen \in Nat /\ mcnt \in Nat
          /\ temp \in Frame /\ sActValue \in Frame
          /\ mi \in Act /\ hours \in 0 .. MaxHours
        BY <1>3, FifoAssumption, LoopAssumption DEF Init, LoopInit, Frame, Act
    <2>2. late \in BOOLEAN
        BY DEF Init, LoopInit
    <2>3. mpc = "opening"
        BY DEF Init, LoopInit
    <2> QED BY <2>1, <2>2, <2>3 DEF LoopTypeOK
  <1> QED BY <1>1, <1>2, <1>4, <1>5 DEF TypeOK

(* Every step of main.                                                     *)
LEMMA MainKeepsTypes ==
  ASSUME FifoTypeOK, StreamTypeOK, LoopTypeOK, Main, UNCHANGED writerVars
  PROVE  FifoTypeOK' /\ StreamTypeOK' /\ LoopTypeOK'
  <1> USE FifoTypeOK, StreamTypeOK, LoopTypeOK
  <1>1. UNCHANGED imageVars => StreamTypeOK'
      BY DEF StreamTypeOK, imageVars, writerVars
  <1>2. UNCHANGED fifoVars => FifoTypeOK'
      BY DEF FifoTypeOK, fifoVars
  <1>3. CASE OpenFifo(ReaderOpen)
    <2>1. 2000 \in Word
        BY SmallWord
    <2>2. StartupMsgs(2000) \in Seq(Item)
        BY <2>1, StartupType
    <2> QED BY <1>1, <1>3, <2>2 DEF OpenFifo, FifoTypeOK, LoopTypeOK
  <1>4. CASE EnterLoop
      BY <1>1, <1>2, <1>4 DEF EnterLoop, LoopTypeOK
  <1>5. CASE CheckStatus
    <2>1. <<Cmd(TERM_CMD)>> \in Seq(Item)
        BY SmallMsgTypes DEF TERM_CMD
    <2>2. FifoTypeOK' /\ seen' \in Nat
        BY <1>5, <2>1 DEF CheckStatus, FifoTypeOK, StreamTypeOK, LoopTypeOK
    <2> QED BY <1>1, <1>5, <2>2 DEF CheckStatus, LoopTypeOK
  <1>6. CASE Gate
    <2>1. mi' \in Act
        BY <1>6, FifoAssumption DEF Gate, Act
    <2> QED BY <1>1, <1>2, <1>6, <2>1 DEF Gate, LoopTypeOK
  <1>7. CASE CopyPixel
    <2>1. temp' \in Frame
        BY <1>7 DEF CopyPixel, LoopTypeOK, StreamTypeOK, Frame
    <2>2. Mapped(temp') \in Frame
        BY <2>1, MappedType
    <2>3. Append(LoadMsg(Mapped(temp')), Cmd(STEP_CMD)) \in Seq(Item)
      <3>1. STEP_CMD \in Word
          BY SmallWord DEF STEP_CMD
      <3> QED BY <2>2, <3>1, LoadFrameType, ItemTypes, AppendProperties
    <2>4. mi < NumAct => mi + 1 \in Act
        BY FifoAssumption DEF LoopTypeOK, Act
    <2>5. FifoTypeOK'
        BY <1>7, <2>3 DEF CopyPixel, FifoTypeOK
    <2>6. sActValue' \in Frame /\ mi' \in Act /\ mpc' \in {"copy", "send"}
        BY <1>7, <2>2, <2>4 DEF CopyPixel, LoopTypeOK
    <2> QED BY <1>1, <1>7, <2>1, <2>5, <2>6 DEF CopyPixel, LoopTypeOK
  <1>8. CASE Sent
    <2>1. framecnt' \in Nat \cup {-1}
        BY <1>8 DEF Sent, LoopTypeOK
    <2> QED BY <1>1, <1>2, <1>8, <2>1 DEF Sent, LoopTypeOK
  <1>9. CASE Idle
      BY <1>2, <1>9 DEF Idle, LoopTypeOK, StreamTypeOK, writerVars
  <1>10. CASE ZeroPixel
    <2>1. pix' \in Frame
      <3>1. 0 \in Word
          BY SmallWord
      <3> QED BY <1>10, <3>1 DEF ZeroPixel, StreamTypeOK, Frame
    <2>2. mi < NumAct => mi + 1 \in Act
        BY FifoAssumption DEF LoopTypeOK, Act
    <2>3. mi' \in Act /\ mpc' \in {"zero", "unflag"}
        BY <1>10, <2>2 DEF ZeroPixel, LoopTypeOK
    <2> QED BY <1>2, <1>10, <2>1, <2>3 DEF ZeroPixel, LoopTypeOK, StreamTypeOK, writerVars
  <1>11. CASE Unflag
      BY <1>2, <1>11 DEF Unflag, LoopTypeOK, StreamTypeOK, writerVars
  <1>12. CASE ReadCnt
    <2>1. mcnt' \in Nat
        BY <1>12 DEF ReadCnt, StreamTypeOK
    <2> QED BY <1>1, <1>2, <1>12, <2>1 DEF ReadCnt, LoopTypeOK
  <1>13. CASE StoreCnt
    <2>1. cnt0' \in Nat
        BY <1>13 DEF StoreCnt, LoopTypeOK
    <2> QED BY <1>2, <1>13, <2>1 DEF StoreCnt, LoopTypeOK, StreamTypeOK, writerVars
  <1>14. CASE MainWrite
      BY <1>1, <1>14, ClientWriteType DEF MainWrite, LoopTypeOK, loopVars
  <1>15. CASE Join(ThreadOver)
      BY <1>1, <1>2, <1>15 DEF Join, LoopTypeOK
  <1> QED BY <1>3, <1>4, <1>5, <1>6, <1>7, <1>8, <1>9, <1>10, <1>11, <1>12, <1>13, <1>14,
             <1>15 DEF Main, LoopStep

(* Every step of the writer of dmvolt.                                     *)
LEMMA WriterKeepsTypes ==
  ASSUME StreamTypeOK, WriterStep
  PROVE  StreamTypeOK'
  <1> USE StreamTypeOK
  <1>1. CASE WriterBegin
    <2>1. frame' \in 0 .. Len(Commands)
        BY <1>1, CommandsAssumption DEF WriterBegin, StreamTypeOK
    <2> QED BY <1>1, <2>1 DEF WriterBegin, StreamTypeOK
  <1>2. ASSUME NEW a \in Act, WriterPixel(a)
        PROVE  StreamTypeOK'
    <2>1. Commands[frame][a] \in Word
      <3>1. frame \in 1 .. Len(Commands)
          BY <1>2, CommandsAssumption DEF WriterPixel, StreamTypeOK
      <3>2. Commands[frame] \in Frame
          BY <3>1, CommandsAssumption
      <3> QED BY <3>2 DEF Frame
    <2>2. pix' \in Frame
        BY <1>2, <2>1 DEF WriterPixel, StreamTypeOK, Frame
    <2> QED BY <1>2, <2>2 DEF WriterPixel, StreamTypeOK
  <1>3. CASE WriterUnflag
      BY <1>3 DEF WriterUnflag, StreamTypeOK
  <1>4. CASE WriterReadCnt
    <2>1. wcnt' \in Nat
        BY <1>4 DEF WriterReadCnt, StreamTypeOK
    <2> QED BY <1>4, <2>1 DEF WriterReadCnt, StreamTypeOK, imageVars
  <1>5. CASE WriterStoreCnt
    <2>1. cnt0' \in Nat
        BY <1>5 DEF WriterStoreCnt, StreamTypeOK
    <2> QED BY <1>5, <2>1 DEF WriterStoreCnt, StreamTypeOK
  <1> QED BY <1>1, <1>2, <1>3, <1>4, <1>5 DEF WriterStep

(* A restart sets every variable of the two threads as at the start.       *)
LEMMA RestartTypes ==
  ASSUME TypeOK, Restart
  PROVE  TypeOK'
  <1> USE TypeOK DEF TypeOK
  <1>1. 0 \in Word /\ 10 \in Word /\ 1200 \in Word
      BY SmallWord
  <1>2. FifoTypeOK'
      BY FifoAssumption DEF Restart, FifoTypeOK
  <1>3. DmaTypeOK'
    <2>1. dmaBuf' \in [Buffers -> Frame] /\ sem' \in Nat /\ dm' \in Frame
        BY FirstFramesType DEF Restart, ThreadTypeOK, DmaTypeOK
    <2>2. dma' = NoDma /\ sent' = {} /\ irq' = FALSE
        BY DEF Restart
    <2> QED BY <2>1, <2>2 DEF DmaTypeOK
  <1>4. ThreadTypeOK'
    <2>1. iDataMode' \in 0 .. 3 /\ idx' \in Buffers /\ next' \in Nat /\ userBuf' \in Frame
        BY FirstFramesType DEF Restart, Buffers
    <2>2. count' \in Word /\ Rate' \in Word /\ strobe' \in Word \X Word
        BY <1>1 DEF Restart
    <2>3. Run' \in BOOLEAN /\ Step' \in BOOLEAN /\ Term' \in BOOLEAN /\ iErrorMode' \in BOOLEAN
        BY DEF Restart
    <2>4. tpc' = "setup"
        BY DEF Restart
    <2> QED BY <1>3, <2>1, <2>2, <2>3, <2>4 DEF ThreadTypeOK
  <1>5. StreamTypeOK'
      BY DEF Restart, StreamTypeOK, streamVars, imageVars, writerVars
  <1>6. LoopTypeOK'
    <2>1. /\ framecnt' = -1 /\ seen' \in Nat /\ mcnt' \in Nat
          /\ temp' \in Frame /\ sActValue' \in Frame /\ mi' \in Act
        BY <1>1, FirstFramesType, FifoAssumption DEF Restart, Act
    <2>2. late' \in BOOLEAN /\ hours' \in 0 .. MaxHours
        BY DEF Restart, LoopTypeOK
    <2>3. mpc' = "opening"
        BY DEF Restart
    <2> QED BY <2>1, <2>2, <2>3 DEF LoopTypeOK
  <1> QED BY <1>2, <1>4, <1>5, <1>6

(* A step of the program.                                                  *)
LEMMA NextTypes ==
  ASSUME TypeOK, [Next]_vars
  PROVE  TypeOK'
  <1> USE TypeOK DEF TypeOK
  <1>1. UNCHANGED streamVars => StreamTypeOK'
      BY DEF StreamTypeOK, streamVars, imageVars, writerVars
  <1>2. UNCHANGED loopVars => LoopTypeOK'
      BY DEF LoopTypeOK, loopVars
  <1>3. UNCHANGED <<dmaVars, threadVars>> => ThreadTypeOK'
      BY DEF ThreadTypeOK, DmaTypeOK, dmaVars, threadVars
  <1>4. UNCHANGED fifoVars => FifoTypeOK'
      BY DEF FifoTypeOK, fifoVars
  <1>5. CASE ThreadAlone \/ BoardAlone
      BY <1>1, <1>2, <1>5, ThreadKeepsTypes DEF ThreadAlone, BoardAlone, ThreadNext
  <1>6. CASE MainAlone
      BY <1>3, <1>6, MainKeepsTypes DEF MainAlone
  <1>7. CASE WriterAlone
      BY <1>2, <1>3, <1>4, <1>7, WriterKeepsTypes DEF WriterAlone
  <1>8. CASE Environment
    <2>1. CASE StatusQuit /\ UNCHANGED <<fifoVars, dmaVars, threadVars, loopVars, kills>>
      <3>1. StreamTypeOK'
          BY <2>1 DEF StatusQuit, StreamTypeOK, writerVars
      <3> QED BY <1>2, <1>3, <1>4, <2>1, <3>1
    <2>2. CASE HourPasses /\ UNCHANGED <<dmaVars, threadVars, writerVars, kills>>
      <3>1. hours' \in 0 .. MaxHours
          BY <2>2, LoopAssumption DEF HourPasses, LoopTypeOK
      <3>2. LoopTypeOK'
          BY <2>2, <3>1 DEF HourPasses, LoopTypeOK
      <3>3. UNCHANGED streamVars
          BY <2>2 DEF HourPasses, streamVars
      <3> QED BY <1>1, <1>3, <1>4, <2>2, <3>2, <3>3 DEF HourPasses
    <2> QED BY <1>8, <2>1, <2>2 DEF Environment
  <1>9. CASE Sigint
    <2>1. LoopTypeOK'
        BY <1>9 DEF Sigint, LoopTypeOK
    <2> QED BY <1>1, <1>3, <1>4, <1>9, <2>1 DEF Sigint
  <1>10. CASE Restart
      BY <1>10, RestartTypes
  <1>11. CASE UNCHANGED vars
      BY <1>1, <1>2, <1>3, <1>4, <1>11 DEF vars
  <1> QED BY <1>5, <1>6, <1>7, <1>8, <1>9, <1>10, <1>11 DEF Next, Terminated

(* Every variable of the driver keeps its type, through every interruption *)
(* and restart: pixel times four never leaves an unsigned short.           *)
THEOREM TypeCorrect == Spec => []TypeOK
  <1>1. TypeOK /\ [Next]_vars => TypeOK'
      BY NextTypes
  <1> QED BY InitTypes, <1>1, PTL DEF Spec

-----------------------------------------------------------------------------
(* The restart finds the board without a transfer and leaves it so.        *)
LEMMA RestartFrames ==
  ASSUME Restart
  PROVE  FrameInv'
  <1>1. dma' = NoDma /\ ~irq' /\ sem' = 0 /\ sent' = {} /\ tpc' = "setup"
      BY DEF Restart
  <1> QED BY <1>1 DEF FrameInv, SemDiscipline, NothingSent, WholeFrame

(* The frame invariant of the thread, in this program.                     *)
LEMMA NextFrames ==
  ASSUME TypeOK, FrameInv, [Next]_vars
  PROVE  FrameInv'
  <1> USE TypeOK, FrameInv
  <1>1. CASE ThreadAlone \/ BoardAlone
      BY <1>1, ThreadKeepsFrame DEF ThreadAlone, BoardAlone, ThreadNext, TypeOK
  <1>2. CASE UNCHANGED <<dmaVars, threadVars>>
      BY <1>2 DEF dmaVars, threadVars, FrameInv, SemDiscipline, NothingSent, WholeFrame
  <1>3. CASE Restart
      BY <1>3, RestartFrames
  <1> QED BY <1>1, <1>2, <1>3 DEF Next, MainAlone, WriterAlone, Environment, Sigint, Terminated,
             vars

(* By induction, on top of the types.                                      *)
LEMMA FramesAlways == Spec => []FrameInv
  <1>1. Init => FrameInv
      BY FrameInvInit DEF Init
  <1>2. TypeOK /\ FrameInv /\ [Next]_vars => FrameInv'
      BY NextFrames
  <1> QED BY <1>1, <1>2, TypeCorrect, PTL DEF Spec

(* Every transfer has one post and one wait, also after a SIGINT that left *)
(* a transfer running and a restart.                                       *)
THEOREM SemaphoreDiscipline == Spec => []SemDiscipline
  <1>1. FrameInv => SemDiscipline
      BY DEF FrameInv
  <1> QED BY FramesAlways, <1>1, PTL

(* No frame of the loop overwrites a DMA buffer that is being sent.        *)
THEOREM FramesAreWhole == Spec => []WholeFrame
  <1>1. FrameInv => WholeFrame
      BY DEF FrameInv
  <1> QED BY FramesAlways, <1>1, PTL

-----------------------------------------------------------------------------
(* What main writes, a message at a time.                                  *)

(* Main writes only in these states, and a new process finds a new pipe.   *)
MainStreamInv ==
  /\ StreamInv
  /\ mpc \notin {"starting", "send", "joining", "killed", "exited"} => out = << >>
  /\ mpc = "opening" => fifo = << >>

(* Main begins to write m: the startup commands, a frame with its STEP, or *)
(* TERM.                                                                   *)
Says(m) == /\ out = << >> /\ fifo' = fifo /\ out' = m
           /\ Message(m)
           /\ \A c \in {RUN_CMD, CLEAR_CMD, POKE_CMD, TEST_CMD} : NoCmd(m, c)
           /\ \/ /\ mpc = "opening" /\ mpc' = "starting"
                 /\ Len(m) >= 1 /\ m[1] = Cmd(STOP_CMD)
                 /\ NoCmd(m, LOAD_CMD) /\ UNCHANGED <<framecnt, sActValue>>
              \/ /\ mpc = "copy" /\ mpc' = "send"
                 /\ LoadAt(m, 0, sActValue') /\ UNCHANGED framecnt
              \/ /\ mpc = "check" /\ mpc' = "joining"
                 /\ NoCmd(m, LOAD_CMD) /\ UNCHANGED <<framecnt, sActValue>>

(* Main begins to write nothing.                                           *)
SaysNothing ==
  /\ Stream' = Stream
  /\ mpc' \notin {"starting", "send", "joining", "killed", "exited"} => out' = << >>
  /\ mpc # "opening" /\ mpc' # "opening" /\ mpc # "killed"
  /\ mpc' = "send" => mpc = "send"
  /\ framecnt' = framecnt \/ mpc = "send"
  /\ UNCHANGED sActValue

(* What main sends for a frame: its LOAD, and STEP.                        *)
LEMMA FrameMessage ==
  ASSUME NEW t \in Frame
  PROVE  LET m == Append(LoadMsg(t), Cmd(STEP_CMD))
         IN /\ Message(m)
            /\ LoadAt(m, 0, t)
            /\ \A c \in {RUN_CMD, CLEAR_CMD, POKE_CMD, TEST_CMD} : NoCmd(m, c)
  <1>1. t \in Seq(Word) /\ Len(t) = NumAct /\ Len(t) \in Word
    <2>1. t \in Seq(Word) /\ Len(t) = NumAct
        BY FrameIsSeq
    <2> QED BY <2>1, FifoAssumption, ActIsWord
  <1>2. Message(LoadMsg(t)) /\ LoadMsg(t) \in Seq(Item)
      BY <1>1, LoadMessage, LoadElements
  <1>3. PICK step : step = <<Cmd(STEP_CMD)>>
      OBVIOUS
  <1>4. Message(step) /\ step \in Seq(Item)
    <2>1. STEP_CMD \in PlainCommands
        BY DEF PlainCommands
    <2> QED BY <1>3, <2>1, PlainMessage DEF Message
  <1>5. /\ \A c \in {RUN_CMD, CLEAR_CMD, POKE_CMD, TEST_CMD} : c # LOAD_CMD /\ c # STEP_CMD
        /\ STEP_CMD # LOAD_CMD
      BY DEF RUN_CMD, CLEAR_CMD, POKE_CMD, TEST_CMD, LOAD_CMD, STEP_CMD
  <1>6. NoCmd(step, LOAD_CMD)
      BY <1>3, <1>5, PlainNo
  <1>7. Append(LoadMsg(t), Cmd(STEP_CMD)) = LoadMsg(t) \o step
    <2>1. STEP_CMD \in Word
        BY SmallWord DEF STEP_CMD
    <2>2. Cmd(STEP_CMD) \in Item
        BY <2>1, ItemTypes
    <2> QED BY <1>2, <1>3, <2>2, AppendIsConcat
  <1>8. ASSUME NEW c \in {RUN_CMD, CLEAR_CMD, POKE_CMD, TEST_CMD}
        PROVE  NoCmd(LoadMsg(t) \o step, c)
    <2>1. NoCmd(LoadMsg(t), c) /\ NoCmd(step, c)
        BY <1>1, <1>3, <1>5, LoadNo, PlainNo
    <2> QED BY <1>2, <1>4, <2>1, NoCmdConcat
  <1>9. Message(LoadMsg(t) \o step)
      BY <1>2, <1>4, MessageConcat
  <1>10. LoadAt(LoadMsg(t) \o step, 0, t)
      BY <1>1, <1>4, <1>6, LoadOfFrame
  <1> QED BY <1>7, <1>8, <1>9, <1>10

(* The last pixel of a frame sends it.                                     *)
LEMMA FrameSays ==
  ASSUME TypeOK, MainStreamInv, CopyPixel, ~(mi < NumAct)
  PROVE  \E k : Says(k)
  <1>1. temp' \in Frame
      BY DEF CopyPixel, TypeOK, LoopTypeOK, StreamTypeOK, Frame
  <1>2. PICK t \in Frame : t = Mapped(temp')
      BY <1>1, MappedType
  <1>3. PICK m : m = Append(LoadMsg(t), Cmd(STEP_CMD))
      OBVIOUS
  <1>4. /\ sActValue' = t /\ out' = m /\ fifo' = fifo
        /\ mpc = "copy" /\ mpc' = "send" /\ UNCHANGED framecnt
      BY <1>2, <1>3 DEF CopyPixel
  <1>5. /\ Message(m)
        /\ LoadAt(m, 0, t)
        /\ \A c \in {RUN_CMD, CLEAR_CMD, POKE_CMD, TEST_CMD} : NoCmd(m, c)
      BY <1>3, FrameMessage
  <1>6. LoadAt(m, 0, sActValue')
      BY <1>4, <1>5
  <1>7. Says(m)
      BY <1>4, <1>5, <1>6 DEF Says, MainStreamInv
  <1> QED BY <1>7

(* Every step of main.                                                     *)
LEMMA MainSays ==
  ASSUME TypeOK, MainStreamInv, Alive, Main
  PROVE  SaysNothing \/ \E k : Says(k)
  <1> USE TypeOK, MainStreamInv
  <1>1. CASE OpenFifo(ReaderOpen)
    <2> DEFINE m == StartupMsgs(2000)
    <2>1. 2000 \in Word
        BY SmallWord
    <2>2. Message(m) /\ Len(m) >= 1 /\ m[1] = Cmd(STOP_CMD)
        BY <2>1, StartupMessage, StartupFirst
    <2>3. ASSUME NEW c \in {RUN_CMD, CLEAR_CMD, POKE_CMD, TEST_CMD, LOAD_CMD}
          PROVE  NoCmd(m, c)
      <3>1. c \notin {STOP_CMD, HALTERR_CMD, FRAMERATE_CMD, STROBE_CMD}
          BY DEF RUN_CMD, CLEAR_CMD, POKE_CMD, TEST_CMD, LOAD_CMD, STOP_CMD, HALTERR_CMD,
                 FRAMERATE_CMD, STROBE_CMD
      <3> QED BY <2>1, <3>1, StartupNo
    <2>4. /\ out' = m /\ fifo' = fifo /\ mpc = "opening" /\ mpc' = "starting"
          /\ UNCHANGED <<framecnt, sActValue>>
        BY <1>1 DEF OpenFifo
    <2> HIDE DEF m
    <2>5. Says(m)
        BY <2>2, <2>3, <2>4 DEF Says, MainStreamInv
    <2> QED BY <2>5
  <1>2. CASE CheckStatus /\ mpc' = "joining"
    <2> DEFINE m == <<Cmd(TERM_CMD)>>
    <2>1. Message(m)
        BY PlainMessage DEF PlainCommands
    <2>2. ASSUME NEW c \in {RUN_CMD, CLEAR_CMD, POKE_CMD, TEST_CMD, LOAD_CMD}
          PROVE  NoCmd(m, c)
      <3>1. c # TERM_CMD
          BY DEF RUN_CMD, CLEAR_CMD, POKE_CMD, TEST_CMD, LOAD_CMD, TERM_CMD
      <3> QED BY <3>1, PlainNo
    <2>3. /\ out' = m /\ fifo' = fifo /\ mpc = "check"
          /\ UNCHANGED <<framecnt, sActValue>>
        BY <1>2 DEF CheckStatus
    <2> HIDE DEF m
    <2>4. Says(m)
        BY <1>2, <2>1, <2>2, <2>3 DEF Says, MainStreamInv
    <2> QED BY <2>4
  <1>3. CASE CopyPixel /\ ~(mi < NumAct)
      BY <1>3, FrameSays
  <1>4. CASE CheckStatus /\ mpc' # "joining"
      BY <1>4 DEF CheckStatus, SaysNothing, Stream, MainStreamInv
  <1>5. CASE CopyPixel /\ mi < NumAct
      BY <1>5 DEF CopyPixel, SaysNothing, Stream, MainStreamInv
  <1>6. CASE EnterLoop \/ Gate \/ Sent
      BY <1>6 DEF EnterLoop, Gate, Sent, SaysNothing, Stream, MainStreamInv, fifoVars
  <1>7. CASE Idle \/ ZeroPixel \/ Unflag \/ ReadCnt \/ StoreCnt
      BY <1>7 DEF Idle, ZeroPixel, Unflag, ReadCnt, StoreCnt, SaysNothing, Stream,
                  MainStreamInv, fifoVars
  <1>8. CASE MainWrite
    <2>1. Stream' = Stream
        BY <1>8, ClientWriteStream DEF MainWrite, TypeOK
    <2>2. UNCHANGED <<mpc, framecnt, sActValue>> /\ out # << >>
        BY <1>8 DEF MainWrite, ClientWrite, loopVars
    <2>3. mpc \in {"starting", "send", "joining"}
        BY <2>2 DEF MainStreamInv, Alive
    <2> QED BY <2>1, <2>2, <2>3 DEF SaysNothing
  <1>9. CASE Join(ThreadOver)
      BY <1>9 DEF Join, SaysNothing, Stream, fifoVars
  <1>10. CheckStatus => mpc' = "joining" \/ mpc' # "joining"
      OBVIOUS
  <1> QED BY <1>1, <1>2, <1>3, <1>4, <1>5, <1>6, <1>7, <1>8, <1>9 DEF Main, LoopStep

-----------------------------------------------------------------------------
(* Two processes that never lose the thread: every message is whole.       *)

(* The pipe of a new process.                                              *)
LEMMA EmptyStream ==
  ASSUME fifo' = << >>, out' = << >>, tpc' = "setup"
  PROVE  Stream' = << >> /\ StreamInv'
  <1>1. Stream' = << >>
      BY DEF Stream
  <1>2. StreamInv'
      BY <1>1 DEF StreamInv, Framed, Reading, ArgsAt, ArgStates
  <1> QED BY <1>1, <1>2

(* A message of main comes behind what it wrote before.                    *)
LEMMA SaysBehind ==
  ASSUME TypeOK, MainStreamInv, NEW m, Says(m), UNCHANGED <<dmaVars, threadVars>>
  PROVE  /\ MainStreamInv'
         /\ Stream' = Stream \o m
         /\ Stream \in Seq(Item) /\ m \in Seq(Item)
  <1>1. UNCHANGED <<tpc, count, next>>
      BY DEF threadVars
  <1>2. StreamInv' /\ Stream' = Stream \o m
      BY <1>1, WritesMessage DEF TypeOK, MainStreamInv, Says
  <1>3. mpc' \in {"starting", "send", "joining"}
      BY DEF Says
  <1> QED BY <1>2, <1>3, StreamType DEF TypeOK, MainStreamInv, Says, Message

(* The steps that leave the pipe and the thread alone.                     *)
LEMMA Bystanders ==
  ASSUME WriterAlone \/ Environment \/ Terminated \/ UNCHANGED vars
  PROVE  /\ UNCHANGED <<dmaVars, threadVars, fifoVars, mpc, framecnt, sActValue>>
         /\ Stream' = Stream
  BY DEF WriterAlone, Environment, Terminated, HourPasses, vars, loopVars, fifoVars, Stream

(* The same of SIGINT, but that it ends main.                              *)
LEMMA SigintLeaves ==
  ASSUME Sigint
  PROVE  /\ UNCHANGED <<dmaVars, threadVars, fifoVars, framecnt, sActValue>>
         /\ Stream' = Stream /\ mpc' = "killed"
  BY DEF Sigint, fifoVars, Stream

(* The thread and the board leave main alone.                              *)
LEMMA ThreadSteps ==
  ASSUME ThreadAlone \/ BoardAlone
  PROVE  /\ ThreadNext /\ UNCHANGED <<loopVars, streamVars>>
         /\ UNCHANGED <<out, mpc, framecnt, sActValue>>
         /\ UNCHANGED fifo \/ mpc \notin {"exited", "killed"}
  <1>1. ThreadNext /\ UNCHANGED <<loopVars, streamVars>>
      BY DEF ThreadAlone, BoardAlone, ThreadNext
  <1>2. UNCHANGED fifo \/ mpc \notin {"exited", "killed"}
      BY DEF ThreadAlone, BoardAlone, HardwareStep, fifoVars, Alive
  <1> QED BY <1>1, <1>2, ThreadLeavesOut DEF loopVars

(* Every step keeps the stream in order.                                   *)
LEMMA NextStream ==
  ASSUME TypeOK, MainStreamInv, [Next]_vars
  PROVE  MainStreamInv'
  <1> USE TypeOK, MainStreamInv DEF TypeOK
  <1>1. CASE ThreadAlone \/ BoardAlone
    <2>1. StreamInv'
        BY <1>1, ThreadSteps, ThreadKeepsStream DEF MainStreamInv
    <2>2. mpc = "opening" => fifo' = << >>
        BY <1>1, ThreadSteps, EmptyStaysEmpty DEF MainStreamInv
    <2> QED BY <1>1, <2>1, <2>2, ThreadSteps DEF MainStreamInv
  <1>2. CASE MainAlone
    <2>1. UNCHANGED <<dmaVars, threadVars>> /\ Alive /\ Main
        BY <1>2 DEF MainAlone
    <2>2. CASE SaysNothing
      <3>1. StreamInv'
          BY <2>1, <2>2 DEF SaysNothing, MainStreamInv, StreamInv, Framed, CommandAt, Reading,
                            CountedAt, ArgsAt, threadVars
      <3> QED BY <2>2, <3>1 DEF SaysNothing, MainStreamInv
    <2>3. CASE \E k : Says(k)
        BY <2>1, <2>3, SaysBehind
    <2> QED BY <2>1, <2>2, <2>3, MainSays
  <1>3. CASE Restart
    <2>1. /\ fifo' = << >> /\ out' = << >> /\ tpc' = "setup" /\ mpc' = "opening"
        BY <1>3 DEF Restart
    <2> QED BY <2>1, EmptyStream DEF MainStreamInv
  <1>4. ASSUME UNCHANGED <<dmaVars, threadVars, fifoVars>>, Stream' = Stream,
               mpc' = mpc \/ mpc' = "killed"
        PROVE  MainStreamInv'
    <2>1. StreamInv'
        BY <1>4 DEF MainStreamInv, StreamInv, Framed, CommandAt, Reading, CountedAt, ArgsAt,
                    threadVars
    <2> QED BY <1>4, <2>1 DEF MainStreamInv, fifoVars
  <1>5. CASE WriterAlone \/ Environment \/ Terminated \/ UNCHANGED vars
      BY <1>4, <1>5, Bystanders
  <1>6. CASE Sigint
      BY <1>4, <1>6, SigintLeaves
  <1> QED BY <1>1, <1>2, <1>3, <1>5, <1>6 DEF Next

(* By induction, on top of the types.                                      *)
LEMMA StreamAlways == Spec => [](TypeOK /\ MainStreamInv)
  <1>1. Init => MainStreamInv
      BY StreamInvInit DEF Init, MainStreamInv, LoopInit, FifoInit
  <1>2. TypeOK /\ MainStreamInv /\ [Next]_vars => MainStreamInv'
      BY NextStream
  <1> QED BY <1>1, <1>2, TypeCorrect, PTL DEF Spec

(* The framing thread never takes a word of a frame for a command, nor a   *)
(* command for a word, through every interruption and restart.             *)
THEOREM CommandsStayInSync == Spec => []InSync
  <1>1. TypeOK /\ MainStreamInv => InSync
      BY StreamInvImplies DEF TypeOK, MainStreamInv
  <1> QED BY StreamAlways, <1>1, PTL

-----------------------------------------------------------------------------
(* No frame is sent free-running.                                          *)

(* No RUN is ever sent, and the thread stands; or no LOAD has been read    *)
(* and the STOP of the startup commands is before any, or the process has  *)
(* not begun to write.                                                     *)
RunInv ==
  /\ NoCmd(Stream, RUN_CMD)
  /\ \/ ~Run
     \/ /\ iDataMode # 1
        /\ \/ Stream = << >> /\ mpc \in {"opening", "killed"}
           \/ Len(Stream) >= 1 /\ Stream[1] = Cmd(STOP_CMD)

(* The thread: it reads the STOP before it reads anything else.            *)
LEMMA ThreadKeepsRun ==
  ASSUME TypeOK, MainStreamInv, RunInv, ThreadNext, UNCHANGED mpc
  PROVE  RunInv'
  <1> USE TypeOK DEF TypeOK
  <1>1. StreamInv /\ Stream \in Seq(Item)
      BY StreamType DEF MainStreamInv
  <1>2. NoCmd(Stream, RUN_CMD)'
      BY <1>1, ThreadKeepsNoCmd DEF RunInv
  <1>3. Run' => Run
      BY <1>1, NoCmdNoCommand, RunOnlyByCommand DEF RunInv
  <1>4. CASE ~Run
      BY <1>2, <1>3, <1>4 DEF RunInv
  <1>5. CASE Run
    <2>1. CASE Stream' = Stream /\ \A c : ~Command(c)
      <3>1. iDataMode' = iDataMode
          BY <2>1, ModeOnlyByCommand
      <3> QED BY <1>2, <1>5, <2>1, <3>1 DEF RunInv
    <2>2. ASSUME NEW c, Command(c)
          PROVE  RunInv'
      <3>1. Stream[1] = Cmd(c) /\ Skips(Stream, Stream', 1)
          BY <1>1, <2>2, CommandReads
      <3>2. Stream # << >>
          BY <3>1, <1>1 DEF Skips
      <3>3. c = STOP_CMD
          BY <1>5, <3>1, <3>2, CmdFacts DEF RunInv
      <3>4. ~Run'
          BY <1>1, <2>2, <3>3, StopClearsRun
      <3> QED BY <1>2, <3>4 DEF RunInv
    <2>3. ASSUME NEW n \in {1, 2}, Skips(Stream, Stream', n),
                 \A i \in 1 .. n : Stream[i].kind = "arg"
          PROVE  RunInv'
      <3>1. Len(Stream) >= 1 /\ Stream[1].kind = "arg"
          BY <1>1, <2>3 DEF Skips
      <3>2. FALSE
          BY <1>5, <3>1, CmdFacts DEF RunInv
      <3> QED BY <3>2
    <2> QED BY <1>1, <2>1, <2>2, <2>3, ThreadReads
  <1> QED BY <1>4, <1>5

(* Main: the startup commands begin with STOP, and nothing has a RUN.      *)
LEMMA MainKeepsRun ==
  ASSUME TypeOK, MainStreamInv, RunInv, MainAlone
  PROVE  RunInv'
  <1>1. UNCHANGED <<dmaVars, threadVars>> /\ Alive /\ Main
      BY DEF MainAlone
  <1>2. UNCHANGED <<Run, iDataMode>>
      BY <1>1 DEF threadVars
  <1>3. CASE SaysNothing
      BY <1>2, <1>3 DEF SaysNothing, RunInv
  <1>4. CASE \E k : Says(k)
    <2>1. PICK m : Says(m)
        BY <1>4
    <2>2. Stream' = Stream \o m /\ Stream \in Seq(Item) /\ m \in Seq(Item)
        BY <1>1, <2>1, SaysBehind
    <2>3. NoCmd(Stream', RUN_CMD)
        BY <2>1, <2>2, NoCmdConcat DEF Says, RunInv
    <2>4. CASE ~Run
        BY <1>2, <2>3, <2>4 DEF RunInv
    <2>5. CASE Run /\ Len(Stream) >= 1 /\ Stream[1] = Cmd(STOP_CMD) /\ iDataMode # 1
      <3>1. Len(Stream') >= 1 /\ Stream'[1] = Stream[1]
          BY <2>2, <2>5, Concat
      <3> QED BY <1>2, <2>3, <2>5, <3>1 DEF RunInv
    <2>6. CASE Run /\ Stream = << >> /\ mpc = "opening" /\ iDataMode # 1
      <3>1. Len(m) >= 1 /\ m[1] = Cmd(STOP_CMD)
          BY <2>1, <2>6 DEF Says
      <3>2. Stream' = m
          BY <2>2, <2>6
      <3> QED BY <1>2, <2>3, <2>6, <3>1, <3>2 DEF RunInv
    <2>7. mpc # "killed"
        BY <1>1 DEF Alive
    <2> QED BY <2>4, <2>5, <2>6, <2>7 DEF RunInv
  <1> QED BY <1>1, <1>3, <1>4, MainSays

(* Every step.                                                             *)
LEMMA NextRun ==
  ASSUME TypeOK, MainStreamInv, RunInv, [Next]_vars
  PROVE  RunInv'
  <1>1. CASE ThreadAlone \/ BoardAlone
      BY <1>1, ThreadSteps, ThreadKeepsRun
  <1>2. CASE MainAlone
      BY <1>2, MainKeepsRun
  <1>3. CASE Restart
    <2>1. /\ fifo' = << >> /\ out' = << >> /\ tpc' = "setup" /\ mpc' = "opening"
          /\ iDataMode' = 0
        BY <1>3 DEF Restart
    <2>2. Stream' = << >>
        BY <2>1, EmptyStream
    <2>3. NoCmd(Stream', RUN_CMD)
        BY <2>2 DEF NoCmd
    <2> QED BY <2>1, <2>2, <2>3 DEF RunInv
  <1>4. ASSUME UNCHANGED <<dmaVars, threadVars, fifoVars>>, Stream' = Stream,
               mpc' = mpc \/ mpc' = "killed"
        PROVE  RunInv'
      BY <1>4 DEF RunInv, threadVars
  <1>5. CASE WriterAlone \/ Environment \/ Terminated \/ UNCHANGED vars
      BY <1>4, <1>5, Bystanders
  <1>6. CASE Sigint
      BY <1>4, <1>6, SigintLeaves
  <1> QED BY <1>1, <1>2, <1>3, <1>5, <1>6 DEF Next

(* From the LOAD of its first frame on the driver's thread never frames by *)
(* itself: each transfer answers one STEP of the loop.                     *)
THEOREM FramesOnlyByStep == Spec => []OnlySteps
  <1>1. Init => RunInv
    <2> SUFFICES ASSUME Init
                 PROVE  RunInv
        OBVIOUS
    <2>1. Stream = << >> /\ mpc = "opening" /\ iDataMode = 0
        BY DEF Init, FifoInit, ThreadInit, LoopInit, Stream
    <2> QED BY <2>1 DEF RunInv, NoCmd
  <1>2. TypeOK /\ MainStreamInv /\ RunInv /\ [Next]_vars => RunInv'
      BY NextRun
  <1>3. RunInv => OnlySteps
      BY DEF RunInv, OnlySteps
  <1> QED BY <1>1, <1>2, <1>3, StreamAlways, PTL DEF Spec

-----------------------------------------------------------------------------
(* What the loop sent is what the DMA buffers get.                         *)

(* The last frame is on its way or taken, and no other data command.       *)
SentInv ==
  /\ LoadInv(sActValue)
  /\ framecnt >= 0 \/ mpc = "send" => LoadAhead(sActValue) \/ iDataMode = 1
  /\ \A c \in {CLEAR_CMD, TEST_CMD, POKE_CMD} : NoCmd(Stream, c)

(* The thread brings the frame further.                                    *)
LEMMA ThreadKeepsFrameSent ==
  ASSUME TypeOK, MainStreamInv, SentInv, ThreadNext, UNCHANGED loopVars
  PROVE  SentInv'
  <1> USE TypeOK DEF TypeOK
  <1>1. PICK t \in Frame : t = sActValue
      BY DEF LoopTypeOK
  <1>2. StreamInv /\ LoadInv(t)
      BY <1>1 DEF MainStreamInv, SentInv
  <1>3. UNCHANGED <<mpc, framecnt, sActValue>>
      BY DEF loopVars
  <1>4. LoadInv(t)'
      BY <1>2, ThreadKeepsLoad
  <1>5. framecnt >= 0 \/ mpc = "send" => LoadAhead(t)' \/ iDataMode' = 1
    <2> SUFFICES ASSUME framecnt >= 0 \/ mpc = "send"
                 PROVE  LoadAhead(t)' \/ iDataMode' = 1
        OBVIOUS
    <2>1. LoadAhead(t) \/ iDataMode = 1
        BY <1>1 DEF SentInv
    <2>2. \A c \in {CLEAR_CMD, TEST_CMD, POKE_CMD} : NoCmd(Stream, c)
        BY DEF SentInv
    <2> QED BY <1>2, <2>1, <2>2, ThreadKeepsSent
  <1>6. ASSUME NEW c \in {CLEAR_CMD, TEST_CMD, POKE_CMD}
        PROVE  NoCmd(Stream, c)'
      BY <1>2, ThreadKeepsNoCmd DEF SentInv
  <1> QED BY <1>1, <1>3, <1>4, <1>5, <1>6 DEF SentInv

(* Main puts the next frame on its way.                                    *)
LEMMA MainKeepsSent ==
  ASSUME TypeOK, MainStreamInv, SentInv, MainAlone
  PROVE  SentInv'
  <1> USE TypeOK DEF TypeOK
  <1>1. UNCHANGED <<dmaVars, threadVars>> /\ Alive /\ Main
      BY DEF MainAlone
  <1>2. UNCHANGED <<tpc, count, next, userBuf, iDataMode, dmaBuf>>
      BY <1>1 DEF dmaVars, threadVars
  <1>3. CASE SaysNothing
    <2>1. LoadInv(sActValue)' /\ (LoadAhead(sActValue)' <=> LoadAhead(sActValue))
        BY <1>2, <1>3 DEF SaysNothing, SentInv, LoadInv, ModeInv, LoadAhead, LoadAt, LoadTaken,
                          NoCmd
    <2>2. \A c \in {CLEAR_CMD, TEST_CMD, POKE_CMD} : NoCmd(Stream', c)
        BY <1>3 DEF SaysNothing, SentInv
    <2> QED BY <1>2, <1>3, <2>1, <2>2 DEF SaysNothing, SentInv
  <1>4. CASE \E k : Says(k)
    <2>1. PICK m : Says(m)
        BY <1>4
    <2>2. Stream' = Stream \o m /\ Stream \in Seq(Item) /\ m \in Seq(Item)
        BY <1>1, <2>1, SaysBehind
    <2>3. ASSUME NEW c \in {CLEAR_CMD, TEST_CMD, POKE_CMD}
          PROVE  NoCmd(Stream', c)
      <3>1. NoCmd(Stream, c) /\ NoCmd(m, c)
          BY <2>1 DEF Says, SentInv
      <3> QED BY <2>2, <3>1, NoCmdConcat
    <2>4. CASE mpc = "copy"
      <3>1. LoadAt(m, 0, sActValue') /\ mpc' = "send"
          BY <2>1, <2>4 DEF Says
      <3>2. sActValue' \in Frame
          BY <1>1, MainKeepsTypes DEF MainAlone, LoopTypeOK
      <3>3. PICK t \in Frame : t = sActValue'
          BY <3>2
      <3>4. ModeInv
          BY DEF SentInv, LoadInv
      <3>5. LoadInv(t)' /\ LoadAhead(t)'
          BY <1>1, <2>2, <3>1, <3>3, <3>4, LoadSent
      <3> QED BY <2>3, <3>3, <3>5 DEF SentInv
    <2>5. CASE mpc # "copy"
      <3>1. /\ UNCHANGED <<framecnt, sActValue>> /\ NoCmd(m, LOAD_CMD) /\ mpc' # "send"
          BY <2>1, <2>5 DEF Says
      <3>2. PICK t \in Frame : t = sActValue
          BY DEF LoopTypeOK
      <3>3. LoadInv(t)
          BY <3>2 DEF SentInv
      <3>4. LoadInv(t)' /\ (LoadAhead(t) => LoadAhead(t)')
          BY <1>1, <2>2, <3>1, <3>3, LoadStaysLast
      <3>5. framecnt >= 0 => LoadAhead(t) \/ iDataMode = 1
          BY <3>2 DEF SentInv
      <3> QED BY <1>2, <2>3, <3>1, <3>2, <3>4, <3>5 DEF SentInv
    <2> QED BY <2>4, <2>5
  <1> QED BY <1>1, <1>3, <1>4, MainSays

(* A new process has sent no frame.                                        *)
LEMMA NothingSentYet ==
  ASSUME Stream = << >>, tpc = "setup", iDataMode = 0, framecnt = -1, mpc = "opening"
  PROVE  SentInv
  <1>1. \A c : NoCmd(Stream, c)
      BY DEF NoCmd
  <1>2. LoadInv(sActValue)
      BY <1>1 DEF LoadInv, LoadTaken, ModeInv
  <1>3. ~(framecnt >= 0)
      OBVIOUS
  <1> QED BY <1>1, <1>2, <1>3 DEF SentInv

(* Every step.                                                             *)
LEMMA NextSent ==
  ASSUME TypeOK, MainStreamInv, SentInv, [Next]_vars
  PROVE  SentInv'
  <1>1. CASE ThreadAlone \/ BoardAlone
      BY <1>1, ThreadSteps, ThreadKeepsFrameSent
  <1>2. CASE MainAlone
      BY <1>2, MainKeepsSent
  <1>3. CASE Restart
    <2>1. /\ fifo' = << >> /\ out' = << >> /\ tpc' = "setup" /\ mpc' = "opening"
          /\ iDataMode' = 0 /\ framecnt' = -1
        BY <1>3 DEF Restart
    <2>2. Stream' = << >>
        BY <2>1, EmptyStream
    <2>3. \A c : NoCmd(Stream', c)
        BY <2>2 DEF NoCmd
    <2>4. LoadInv(sActValue)'
        BY <2>1, <2>3 DEF LoadInv, LoadTaken, ModeInv
    <2>5. ~(framecnt' >= 0)
        BY <2>1
    <2> QED BY <2>1, <2>3, <2>4, <2>5 DEF SentInv
  <1>4. ASSUME UNCHANGED <<dmaVars, threadVars, fifoVars, framecnt, sActValue>>,
               Stream' = Stream, mpc' = mpc \/ mpc' = "killed"
        PROVE  SentInv'
    <2>1. UNCHANGED <<tpc, count, next, userBuf, iDataMode, dmaBuf>>
        BY <1>4 DEF dmaVars, threadVars
    <2> QED BY <1>4, <2>1 DEF SentInv, LoadInv, ModeInv, LoadAhead, LoadAt, LoadTaken, NoCmd
  <1>5. CASE WriterAlone \/ Environment \/ Terminated \/ UNCHANGED vars
      BY <1>4, <1>5, Bystanders
  <1>6. CASE Sigint
      BY <1>4, <1>6, SigintLeaves
  <1> QED BY <1>1, <1>2, <1>3, <1>5, <1>6 DEF Next

(* A frame the thread has read is in both DMA buffers, word for word in    *)
(* the order of the mirror, whatever the sizes of the pipe and the mirror. *)
THEOREM FramesReachBuffers == Spec => []FrameReachesBuffers
  <1>1. Init => SentInv
    <2> SUFFICES ASSUME Init
                 PROVE  SentInv
        OBVIOUS
    <2>1. /\ Stream = << >> /\ tpc = "setup" /\ iDataMode = 0
          /\ framecnt = -1 /\ mpc = "opening"
        BY DEF Init, FifoInit, ThreadInit, LoopInit, Stream
    <2> QED BY <2>1, NothingSentYet
  <1>2. TypeOK /\ MainStreamInv /\ SentInv /\ [Next]_vars => SentInv'
      BY NextSent
  <1>3. SentInv => FrameReachesBuffers
    <2> SUFFICES ASSUME SentInv, framecnt >= 0, Drained, tpc \in {"tick", "dmawait"}
                 PROVE  \A b \in Buffers : dmaBuf[b] = sActValue
        BY DEF FrameReachesBuffers
    <2>1. Len(Stream) = 0
        BY DEF Drained, Stream
    <2>2. ~LoadAhead(sActValue)
        BY <2>1, FifoAssumption DEF LoadAhead, LoadAt
    <2> QED BY <2>2 DEF SentInv, LoadInv, LoadTaken
  <1> QED BY <1>1, <1>2, <1>3, StreamAlways, PTL DEF Spec

-----------------------------------------------------------------------------
(* The counter of dmvolt, which loop and writer both increment unlocked.   *)

(* How far the counters may be apart: the loop serves none that has not    *)
(* been stored, and a register holds at most one increment less than the   *)
(* image.                                                                  *)
CountersOrdered ==
  /\ framecnt <= cnt0
  /\ mpc \in {"gate", "copy", "send", "idle", "zero", "unflag", "readcnt"} => seen <= cnt0
  /\ mpc \in {"copy", "send"} => seen > framecnt
  /\ mpc \in {"opening", "starting"} => framecnt = -1
  /\ mpc = "storecnt" => framecnt <= mcnt /\ mcnt <= cnt0
  /\ wpc = "counting" => cnt0 <= wcnt + 1
  /\ mpc = "storecnt" /\ wpc = "counting" => mcnt <= wcnt
  /\ mpc \in {"readcnt", "storecnt"} => ~write \/ wpc = "pixels"
  /\ mpc \in {"zero", "unflag", "readcnt", "storecnt"} => late

(* The writer stores the counter last.  When the loop has incremented it   *)
(* in the meantime, the loop does not do so once more: it has a frame to   *)
(* send first, or time to wait.                                            *)
OnceInBetween ==
  wpc = "counting" /\ cnt0 > wcnt =>
    /\ ~write
    /\ \/ ~late
       \/ mpc \in {"opening", "starting", "copy", "send", "joining", "exited", "killed"}
       \/ mpc = "check" /\ cnt0 > framecnt
       \/ mpc = "gate" /\ seen > framecnt

(* What has been sent is the picture, or somebody will still increment the *)
(* counter past the one served.                                            *)
SentIsPicture ==
  mpc # "killed" /\ framecnt >= cnt0 =>
    \/ temp = pix
    \/ wpc \in {"pixels", "unflagged"}
    \/ wpc = "counting" /\ wcnt >= framecnt
    \/ mpc \in {"zero", "unflag", "readcnt"}
    \/ mpc = "storecnt" /\ mcnt >= framecnt

(* The same for the pixels copied so far and the counter read before them. *)
CopiedIsPicture ==
  mpc \in {"copy", "send"} /\ seen >= cnt0 =>
    \/ \A a \in Act : mpc = "send" \/ a < mi => temp[a] = pix[a]
    \/ wpc \in {"pixels", "unflagged"}
    \/ wpc = "counting" /\ wcnt >= seen

CounterInv == CountersOrdered /\ OnceInBetween /\ SentIsPicture /\ CopiedIsPicture

(* What the types say of the counters.                                     *)
LEMMA CounterTypes ==
  ASSUME TypeOK
  PROVE  /\ framecnt \in Int /\ framecnt >= -1 /\ seen \in Nat /\ mcnt \in Nat
         /\ cnt0 \in Nat /\ wcnt \in Nat /\ mi \in Act
         /\ write \in BOOLEAN /\ late \in BOOLEAN
         /\ temp \in Frame /\ pix \in Frame
         /\ wpc \in {"idle", "pixels", "unflagged", "counting"}
  BY DEF TypeOK, LoopTypeOK, StreamTypeOK

(* The pixels copied are compared one by one.                              *)
LEMMA CopyKeepsCounters ==
  ASSUME TypeOK, CounterInv, CopyPixel, UNCHANGED writerVars
  PROVE  CounterInv'
  <1> USE CounterTypes
  <1>1. /\ mpc = "copy" /\ mpc' \in {"copy", "send"}
        /\ mpc' = "copy" <=> mi < NumAct
        /\ mpc' = "copy" => mi' = mi + 1
        /\ temp' = [temp EXCEPT ![mi] = pix[mi]]
        /\ UNCHANGED <<pix, write, cnt0, framecnt, seen, mcnt, late, wpc, wcnt>>
      BY DEF CopyPixel, imageVars, writerVars
  <1>2. CountersOrdered' /\ OnceInBetween'
      BY <1>1 DEF CounterInv, CountersOrdered, OnceInBetween
  <1>3. SentIsPicture'
    <2> SUFFICES ASSUME framecnt >= cnt0
                 PROVE  FALSE
        BY <1>1 DEF SentIsPicture
    <2> QED BY <1>1 DEF CounterInv, CountersOrdered
  <1>4. CopiedIsPicture'
    <2> SUFFICES ASSUME seen >= cnt0, wpc \notin {"pixels", "unflagged"},
                        ~(wpc = "counting" /\ wcnt >= seen),
                        NEW a \in Act, mpc' = "send" \/ a < mi'
                 PROVE  temp'[a] = pix[a]
        BY <1>1 DEF CopiedIsPicture
    <2>1. \A j \in Act : j < mi => temp[j] = pix[j]
        BY <1>1 DEF CounterInv, CopiedIsPicture
    <2>2. a <= mi /\ a \in Nat /\ mi \in Nat
        BY <1>1, FifoAssumption DEF Act
    <2>3. CASE a = mi
        BY <1>1, <2>3 DEF Frame
    <2>4. CASE a < mi
        BY <1>1, <2>1, <2>2, <2>4 DEF Frame
    <2> QED BY <2>2, <2>3, <2>4
  <1> QED BY <1>2, <1>3, <1>4 DEF CounterInv

(* The loop sends the frame it has copied.                                 *)
LEMMA SentKeepsCounters ==
  ASSUME TypeOK, CounterInv, Sent, UNCHANGED writerVars
  PROVE  CounterInv'
  <1> USE CounterTypes
  <1>1. /\ mpc = "send" /\ mpc' = "check" /\ framecnt' = seen /\ late' = FALSE
        /\ UNCHANGED <<pix, write, cnt0, seen, temp, mcnt, wpc, wcnt>>
      BY DEF Sent, imageVars, writerVars
  <1>2. CountersOrdered' /\ OnceInBetween' /\ CopiedIsPicture'
      BY <1>1 DEF CounterInv, CountersOrdered, OnceInBetween, CopiedIsPicture
  <1>3. SentIsPicture'
    <2> SUFFICES ASSUME seen >= cnt0, wpc \notin {"pixels", "unflagged"},
                        ~(wpc = "counting" /\ wcnt >= seen)
                 PROVE  temp = pix
        BY <1>1 DEF SentIsPicture
    <2>1. \A a \in Act : temp[a] = pix[a]
        BY <1>1 DEF CounterInv, CopiedIsPicture
    <2> QED BY <2>1 DEF Frame
  <1> QED BY <1>2, <1>3 DEF CounterInv

(* The other steps of the loop.                                            *)
LEMMA MainKeepsCounters ==
  ASSUME TypeOK, CounterInv, MainAlone
  PROVE  CounterInv'
  <1> USE CounterTypes
  <1>1. Main /\ UNCHANGED writerVars /\ UNCHANGED <<wpc, wcnt>> /\ mpc \notin {"exited", "killed"}
      BY DEF MainAlone, writerVars, Alive
  <1>2. CASE OpenFifo(ReaderOpen) \/ EnterLoop \/ MainWrite \/ Join(ThreadOver)
    <2>1. /\ UNCHANGED <<pix, write, cnt0, framecnt, seen, temp, mcnt, late, mi, wpc, wcnt>>
          /\ \/ mpc' = mpc
             \/ mpc = "opening" /\ mpc' = "starting"
             \/ mpc = "starting" /\ mpc' = "check"
             \/ mpc = "joining" /\ mpc' = "exited"
        BY <1>1, <1>2 DEF OpenFifo, EnterLoop, MainWrite, Join, imageVars, loopVars
    <2> QED BY <2>1 DEF CounterInv, CountersOrdered, OnceInBetween, SentIsPicture,
                        CopiedIsPicture
  <1>3. CASE CheckStatus
    <2>1. /\ UNCHANGED <<pix, write, cnt0, framecnt, temp, mcnt, late, mi, wpc, wcnt>>
          /\ mpc = "check"
          /\ (mpc' = "gate" /\ seen' = cnt0) \/ mpc' = "joining"
        BY <1>1, <1>3 DEF CheckStatus, imageVars
    <2> QED BY <2>1 DEF CounterInv, CountersOrdered, OnceInBetween, SentIsPicture,
                        CopiedIsPicture
  <1>4. CASE Gate
    <2>1. /\ UNCHANGED <<pix, write, cnt0, framecnt, seen, temp, mcnt, late, wpc, wcnt>>
          /\ mpc = "gate" /\ mi' = 1
          /\ \/ mpc' = "copy" /\ seen > framecnt /\ ~write
             \/ mpc' = "idle" /\ ~(seen > framecnt /\ ~write)
        BY <1>1, <1>4 DEF Gate, NewFrame, imageVars
    <2>2. \A a \in Act : ~(a < 1)
        BY DEF Act
    <2> QED BY <2>1, <2>2 DEF CounterInv, CountersOrdered, OnceInBetween, SentIsPicture,
                              CopiedIsPicture
  <1>5. CASE CopyPixel
      BY <1>1, <1>5, CopyKeepsCounters
  <1>6. CASE Sent
      BY <1>1, <1>6, SentKeepsCounters
  <1>7. CASE Idle
    <2>1. /\ UNCHANGED <<pix, cnt0, framecnt, seen, temp, mcnt, late, mi, wpc, wcnt>>
          /\ mpc = "idle"
          /\ \/ late /\ mpc' = "zero"
             \/ ~late /\ mpc' = "check" /\ write' = write
        BY <1>1, <1>7 DEF Idle
    <2> QED BY <2>1 DEF CounterInv, CountersOrdered, OnceInBetween, SentIsPicture,
                        CopiedIsPicture
  <1>8. CASE ZeroPixel
    <2>1. /\ UNCHANGED <<write, cnt0, framecnt, seen, temp, mcnt, late, wpc, wcnt>>
          /\ mpc = "zero" /\ mpc' \in {"zero", "unflag"}
        BY <1>1, <1>8 DEF ZeroPixel
    <2> QED BY <2>1 DEF CounterInv, CountersOrdered, OnceInBetween, SentIsPicture,
                        CopiedIsPicture
  <1>9. CASE Unflag
    <2>1. /\ UNCHANGED <<pix, cnt0, framecnt, seen, temp, mcnt, late, mi, wpc, wcnt>>
          /\ mpc = "unflag" /\ mpc' = "readcnt" /\ write' = FALSE
        BY <1>1, <1>9 DEF Unflag
    <2> QED BY <2>1 DEF CounterInv, CountersOrdered, OnceInBetween, SentIsPicture,
                        CopiedIsPicture
  <1>10. CASE ReadCnt
    <2>1. /\ UNCHANGED <<pix, write, cnt0, framecnt, seen, temp, late, mi, wpc, wcnt>>
          /\ mpc = "readcnt" /\ mpc' = "storecnt" /\ mcnt' = cnt0
        BY <1>1, <1>10 DEF ReadCnt, imageVars
    <2> QED BY <2>1 DEF CounterInv, CountersOrdered, OnceInBetween, SentIsPicture,
                        CopiedIsPicture
  <1>11. CASE StoreCnt
    <2>1. /\ UNCHANGED <<pix, write, framecnt, seen, temp, mcnt, late, mi, wpc, wcnt>>
          /\ mpc = "storecnt" /\ mpc' = "check" /\ cnt0' = mcnt + 1
        BY <1>1, <1>11 DEF StoreCnt
    <2> QED BY <2>1 DEF CounterInv, CountersOrdered, OnceInBetween, SentIsPicture,
                        CopiedIsPicture
  <1> QED BY <1>1, <1>2, <1>3, <1>4, <1>5, <1>6, <1>7, <1>8, <1>9, <1>10, <1>11
         DEF Main, LoopStep

(* The steps of the writer.                                                *)
LEMMA WriterKeepsCounters ==
  ASSUME TypeOK, CounterInv, WriterAlone
  PROVE  CounterInv'
  <1> USE CounterTypes
  <1>1. /\ WriterStep
        /\ UNCHANGED <<mpc, framecnt, seen, temp, mcnt, late, mi>>
      BY DEF WriterAlone, loopVars
  <1>2. CASE WriterBegin
    <2>1. /\ UNCHANGED <<pix, cnt0, wcnt>> /\ write' = TRUE /\ wpc' = "pixels"
        BY <1>2 DEF WriterBegin
    <2> QED BY <1>1, <2>1 DEF CounterInv, CountersOrdered, OnceInBetween, SentIsPicture,
                              CopiedIsPicture
  <1>3. CASE \E a \in Act : WriterPixel(a)
    <2>1. /\ UNCHANGED <<write, cnt0, wpc, wcnt>> /\ wpc = "pixels"
        BY <1>3 DEF WriterPixel
    <2> QED BY <1>1, <2>1 DEF CounterInv, CountersOrdered, OnceInBetween, SentIsPicture,
                              CopiedIsPicture
  <1>4. CASE WriterUnflag
    <2>1. /\ UNCHANGED <<pix, cnt0, wcnt>> /\ write' = FALSE /\ wpc' = "unflagged"
        BY <1>4 DEF WriterUnflag
    <2> QED BY <1>1, <2>1 DEF CounterInv, CountersOrdered, OnceInBetween, SentIsPicture,
                              CopiedIsPicture
  <1>5. CASE WriterReadCnt
    <2>1. /\ UNCHANGED <<pix, write, cnt0>> /\ wcnt' = cnt0 /\ wpc = "unflagged"
          /\ wpc' = "counting"
        BY <1>5 DEF WriterReadCnt, imageVars
    <2> QED BY <1>1, <2>1 DEF CounterInv, CountersOrdered, OnceInBetween, SentIsPicture,
                              CopiedIsPicture
  <1>6. CASE WriterStoreCnt
    <2>1. /\ UNCHANGED <<pix, write, wcnt>> /\ cnt0' = wcnt + 1 /\ wpc = "counting"
          /\ wpc' = "idle"
        BY <1>6 DEF WriterStoreCnt
    <2> QED BY <1>1, <2>1 DEF CounterInv, CountersOrdered, OnceInBetween, SentIsPicture,
                              CopiedIsPicture
  <1> QED BY <1>1, <1>2, <1>3, <1>4, <1>5, <1>6 DEF WriterStep

(* Every step.                                                             *)
LEMMA NextCounters ==
  ASSUME TypeOK, CounterInv, [Next]_vars
  PROVE  CounterInv'
  <1> USE CounterTypes
  <1>1. ASSUME UNCHANGED <<pix, write, cnt0, wpc, wcnt, framecnt, seen, temp, mcnt, mi>>,
               \/ mpc' = mpc /\ late' = late
               \/ mpc' = mpc /\ late' = TRUE /\ wpc = "idle"
               \/ mpc' = "killed"
        PROVE  CounterInv'
    <2>1. CountersOrdered'
        BY <1>1 DEF CounterInv, CountersOrdered
    <2>2. OnceInBetween'
        BY <1>1 DEF CounterInv, OnceInBetween
    <2>3. SentIsPicture'
        BY <1>1 DEF CounterInv, SentIsPicture
    <2>4. CopiedIsPicture'
        BY <1>1 DEF CounterInv, CopiedIsPicture
    <2> QED BY <2>1, <2>2, <2>3, <2>4 DEF CounterInv
  <1>2. CASE ThreadAlone \/ BoardAlone \/ UNCHANGED vars
      BY <1>1, <1>2 DEF ThreadAlone, BoardAlone, vars, streamVars, imageVars, writerVars,
                        loopVars
  <1>3. CASE MainAlone
      BY <1>3, MainKeepsCounters
  <1>4. CASE WriterAlone
      BY <1>4, WriterKeepsCounters
  <1>5. CASE Environment
    <2>1. CASE StatusQuit /\ UNCHANGED loopVars
        BY <1>1, <2>1 DEF StatusQuit, writerVars, loopVars
    <2>2. CASE HourPasses /\ wpc = "idle" /\ UNCHANGED writerVars
        BY <1>1, <2>2 DEF HourPasses, imageVars, writerVars
    <2> QED BY <1>5, <2>1, <2>2 DEF Environment
  <1>6. CASE Sigint
      BY <1>1, <1>6 DEF Sigint, streamVars, imageVars, writerVars
  <1>7. CASE Restart
    <2>1. /\ UNCHANGED <<pix, write, cnt0, wpc, wcnt>> /\ mpc = "killed" /\ mpc' = "opening"
          /\ framecnt' = -1 /\ seen' = 0 /\ mcnt' = 0
        BY <1>7 DEF Restart, streamVars, imageVars, writerVars
    <2> QED BY <2>1 DEF CounterInv, CountersOrdered, OnceInBetween, SentIsPicture,
                        CopiedIsPicture
  <1> QED BY <1>2, <1>3, <1>4, <1>5, <1>6, <1>7 DEF Next, Terminated

(* Although loop and writer read and increment the counter unlocked, a     *)
(* counter that the loop has already served never hides a frame, for any   *)
(* number of pixels, frames, idle hours, interruptions and restarts.       *)
THEOREM NothingHidden == Spec => []NoFrameHidden
  <1>1. Init => CounterInv
      BY DEF Init, StreamInit, LoopInit, CounterInv, CountersOrdered, OnceInBetween,
             SentIsPicture, CopiedIsPicture
  <1>2. TypeOK /\ CounterInv /\ [Next]_vars => CounterInv'
      BY NextCounters
  <1>3. CounterInv => NoFrameHidden
      BY DEF CounterInv, SentIsPicture, NoFrameHidden
  <1> QED BY <1>1, <1>2, <1>3, TypeCorrect, PTL DEF Spec
-----------------------------------------------------------------------------
(* The refinement of DmDisplay.                                            *)

(* Nothing that the display does not promise to survive: the writer waits  *)
(* for the first frame of the loop, is never silent for an hour, and the   *)
(* process is not killed.                                                  *)
Undisturbed == QuietStart /\ MaxHours = 0 /\ MaxKills = 0

(* The mirror tells which frame it shows: the words of an actuator differ  *)
(* from frame to frame and from that of a new image.                       *)
FramesDiffer ==
  \A a \in Act, k \in DOMAIN Commands :
    /\ Commands[k][a] # 0
    /\ \A j \in DOMAIN Commands : Convert(Commands[j][a]) = Convert(Commands[k][a]) => j = k

(* The frames.                                                             *)
LEMMA FrameFacts ==
  /\ Len(Commands) \in Nat /\ DOMAIN Commands = 1 .. Len(Commands)
  /\ \A k \in DOMAIN Commands, a \in Act : Commands[k][a] \in Word
  BY CommandsAssumption DEF Frame

(* A word is of no frame or of one of them.                                *)
LEMMA FrameOfType == \A a, w : FrameOf(a, w) \in 0 .. Len(Commands)
  <1> SUFFICES ASSUME NEW a, NEW w
               PROVE  FrameOf(a, w) \in 0 .. Len(Commands)
      OBVIOUS
  <1> DEFINE frames == {k \in DOMAIN Commands : Convert(Commands[k][a]) = w}
  <1>1. frames # {} => (CHOOSE k \in frames : TRUE) \in DOMAIN Commands
      OBVIOUS
  <1> QED BY <1>1, FrameFacts DEF FrameOf

(* The words of a frame are of that frame.                                 *)
LEMMA FrameOfWord ==
  ASSUME FramesDiffer
  PROVE  \A a \in Act, k \in DOMAIN Commands : FrameOf(a, Convert(Commands[k][a])) = k
  <1> SUFFICES ASSUME NEW a \in Act, NEW k \in DOMAIN Commands
               PROVE  FrameOf(a, Convert(Commands[k][a])) = k
      OBVIOUS
  <1> DEFINE frames == {j \in DOMAIN Commands : Convert(Commands[j][a]) = Convert(Commands[k][a])}
  <1>1. k \in frames
      OBVIOUS
  <1>2. (CHOOSE j \in frames : TRUE) \in frames
      BY <1>1
  <1>3. \A j \in frames : j = k
      BY DEF FramesDiffer
  <1> QED BY <1>1, <1>2, <1>3 DEF FrameOf

(* No frame has the words of a new image, nor those of a new DMA buffer:   *)
(* "==" is odd, and a pixel times four is not.                             *)
LEMMA FrameOfNone ==
  ASSUME FramesDiffer
  PROVE  \A a \in Act : FrameOf(a, 0) = 0 /\ FrameOf(a, 15677) = 0
  <1> SUFFICES ASSUME NEW a \in Act
               PROVE  FrameOf(a, 0) = 0 /\ FrameOf(a, 15677) = 0
      OBVIOUS
  <1>1. ASSUME NEW k \in DOMAIN Commands
        PROVE  Convert(Commands[k][a]) \notin {0, 15677}
    <2>1. PICK t : t = Commands[k][a]
        OBVIOUS
    <2>2. t \in Nat /\ t # 0
        BY <2>1, FrameFacts, WordBound DEF FramesDiffer, Word
    <2>3. 4 * t # 0 /\ 4 * t # 15677
        BY <2>2
    <2>4. Convert(t) \notin {0, 15677}
        BY <2>2, <2>3 DEF Convert, MaxWord
    <2> QED BY <2>1, <2>4
  <1>2. /\ {k \in DOMAIN Commands : Convert(Commands[k][a]) = 0} = {}
        /\ {k \in DOMAIN Commands : Convert(Commands[k][a]) = 15677} = {}
      BY <1>1
  <1> QED BY <1>2 DEF FrameOf

(* The map is one to one: it is onto as many actuators.                    *)
LEMMA MapIsOneToOne == \A a, b \in Act : DmMap[a] = DmMap[b] => a = b
  <1>1. DmMap \in Surjection(Act, Act)
      BY LoopAssumption, Fun_IsSurj
  <1>2. IsFiniteSet(Act)
      BY FifoAssumption, FS_Interval DEF Act
  <1>3. DmMap \in Injection(Act, Act)
      BY <1>1, <1>2, FS_Surjection
  <1> QED BY <1>3, Fun_InjectionProperties

(* Each word is that of the pixel wired to its actuator.                   *)
LEMMA MappedWord ==
  \A t : \A a \in Act : Mapped(t)[DmMap[a]] = Convert(t[a])
  <1> SUFFICES ASSUME NEW t, NEW a \in Act
               PROVE  Mapped(t)[DmMap[a]] = Convert(t[a])
      OBVIOUS
  <1>1. DmMap[a] \in Act
      BY LoopAssumption
  <1>2. (CHOOSE b \in Act : DmMap[b] = DmMap[a]) = a
      BY MapIsOneToOne
  <1> QED BY <1>1, <1>2 DEF Mapped

(* No actuator has a later frame in u than in v, words in mirror order.    *)
Older(u, v) == \A a \in Act : FrameOf(a, u[DmMap[a]]) <= FrameOf(a, v[DmMap[a]])

(* It orders the frames of words.                                          *)
LEMMA OlderOrders ==
  /\ \A u : Older(u, u)
  /\ \A u, v, w : Older(u, v) /\ Older(v, w) => Older(u, w)
  BY FrameOfType DEF Older

(* What was there before the first frame.                                  *)
LEMMA OlderFirst ==
  ASSUME FramesDiffer
  PROVE  \A v : Older(ZeroFrame, v) /\ Older(BootFrame, v) /\ Older(BootFrame, ZeroFrame)
  <1> SUFFICES ASSUME NEW v, NEW a \in Act
               PROVE  /\ FrameOf(a, ZeroFrame[DmMap[a]]) <= FrameOf(a, v[DmMap[a]])
                      /\ FrameOf(a, BootFrame[DmMap[a]]) <= FrameOf(a, v[DmMap[a]])
      BY DEF Older
  <1>1. DmMap[a] \in Act
      BY LoopAssumption
  <1>2. ZeroFrame[DmMap[a]] = 0 /\ BootFrame[DmMap[a]] \in {0, 15677}
      BY <1>1 DEF ZeroFrame, BootFrame
  <1> QED BY <1>2, FrameOfNone, FrameOfType

(* One word of a newer frame put into an older one.                        *)
LEMMA OlderUpdate ==
  ASSUME NEW u \in Frame, NEW t, NEW i \in Act, Older(u, t)
  PROVE  Older(u, [u EXCEPT ![i] = t[i]]) /\ Older([u EXCEPT ![i] = t[i]], t)
  <1> SUFFICES ASSUME NEW a \in Act
               PROVE  LET v == [u EXCEPT ![i] = t[i]]
                      IN /\ FrameOf(a, u[DmMap[a]]) <= FrameOf(a, v[DmMap[a]])
                         /\ FrameOf(a, v[DmMap[a]]) <= FrameOf(a, t[DmMap[a]])
      BY DEF Older
  <1>1. DmMap[a] \in Act
      BY LoopAssumption
  <1>2. [u EXCEPT ![i] = t[i]][DmMap[a]] = IF DmMap[a] = i THEN t[i] ELSE u[DmMap[a]]
      BY <1>1 DEF Frame
  <1>3. FrameOf(a, u[DmMap[a]]) <= FrameOf(a, t[DmMap[a]])
      BY DEF Older
  <1> QED BY <1>2, <1>3, FrameOfType

-----------------------------------------------------------------------------
(* The frames in the stream come in the order of their numbers.            *)

(* How many elements are before each LOAD, and the words behind it.        *)
LoadsOf(s) == {k \in 0 .. Len(s) - 1 : s[k + 1] = Cmd(LOAD_CMD)}

WordsAt(s, k) == [i \in Act |-> s[k + 2 + i].val]

(* Every LOAD of s has a word for every actuator, and none has an older    *)
(* frame than lo or than a LOAD before it, nor a newer one than hi.        *)
LoadsInOrder(s, lo, hi) ==
  \A k \in LoadsOf(s) :
    /\ k + NumAct + 2 <= Len(s) /\ s[k + 2].val = NumAct
    /\ Older(lo, WordsAt(s, k)) /\ Older(WordsAt(s, k), hi)
    /\ \A l \in LoadsOf(s) : k < l => Older(WordsAt(s, k), WordsAt(s, l))

(* The LOADs left when the beginning has been read were there before...    *)
LEMMA LoadsSkip ==
  ASSUME NEW s \in Seq(Item), NEW u \in Seq(Item), NEW n \in Nat, Skips(s, u, n)
  PROVE  \A k \in LoadsOf(u) :
           /\ k + n \in LoadsOf(s)
           /\ k + NumAct + 2 <= Len(u) <=> k + n + NumAct + 2 <= Len(s)
           /\ k + NumAct + 2 <= Len(u) =>
                u[k + 2] = s[k + n + 2] /\ WordsAt(u, k) = WordsAt(s, k + n)
  <1> SUFFICES ASSUME NEW k \in LoadsOf(u)
               PROVE  /\ k + n \in LoadsOf(s)
                      /\ k + NumAct + 2 <= Len(u) <=> k + n + NumAct + 2 <= Len(s)
                      /\ k + NumAct + 2 <= Len(u) =>
                           u[k + 2] = s[k + n + 2] /\ WordsAt(u, k) = WordsAt(s, k + n)
      OBVIOUS
  <1>1. /\ Len(s) \in Nat /\ Len(u) \in Nat /\ Len(u) = Len(s) - n
        /\ \A i \in 1 .. Len(u) : u[i] = s[i + n]
        /\ NumAct \in Nat /\ NumAct >= 1
      BY FifoAssumption DEF Skips
  <1>2. k \in 0 .. Len(u) - 1 /\ u[k + 1] = Cmd(LOAD_CMD)
      BY DEF LoadsOf
  <1>3. s[(k + n) + 1] = u[k + 1]
    <2>1. k + 1 \in 1 .. Len(u) /\ (k + 1) + n = (k + n) + 1
        BY <1>1, <1>2
    <2> QED BY <2>1, <1>1
  <1>4. k + n \in LoadsOf(s)
      BY <1>1, <1>2, <1>3 DEF LoadsOf
  <1>5. k + NumAct + 2 <= Len(u) <=> k + n + NumAct + 2 <= Len(s)
      BY <1>1, <1>2
  <1>6. ASSUME k + NumAct + 2 <= Len(u)
        PROVE  u[k + 2] = s[k + n + 2] /\ WordsAt(u, k) = WordsAt(s, k + n)
    <2>1. k + 2 \in 1 .. Len(u) /\ (k + 2) + n = k + n + 2
        BY <1>1, <1>2, <1>6
    <2>2. ASSUME NEW i \in Act
          PROVE  u[k + 2 + i] = s[k + n + 2 + i]
      <3>1. k + 2 + i \in 1 .. Len(u) /\ (k + 2 + i) + n = k + n + 2 + i
          BY <1>1, <1>2, <1>6 DEF Act
      <3> QED BY <3>1, <1>1
    <2>3. u[k + 2] = s[k + n + 2]
        BY <2>1, <1>1
    <2> QED BY <2>2, <2>3 DEF WordsAt
  <1> QED BY <1>4, <1>5, <1>6

(* ... and are in order as before.                                         *)
LEMMA InOrderSkip ==
  ASSUME NEW s \in Seq(Item), NEW u \in Seq(Item), NEW n \in Nat, Skips(s, u, n),
         NEW lo, NEW hi, LoadsInOrder(s, lo, hi)
  PROVE  LoadsInOrder(u, lo, hi)
  <1> SUFFICES ASSUME NEW k \in LoadsOf(u)
               PROVE  /\ k + NumAct + 2 <= Len(u) /\ u[k + 2].val = NumAct
                      /\ Older(lo, WordsAt(u, k)) /\ Older(WordsAt(u, k), hi)
                      /\ \A l \in LoadsOf(u) : k < l => Older(WordsAt(u, k), WordsAt(u, l))
      BY DEF LoadsInOrder
  <1>1. ASSUME NEW j \in LoadsOf(u)
        PROVE  /\ j + n \in LoadsOf(s) /\ j + NumAct + 2 <= Len(u)
               /\ u[j + 2] = s[j + n + 2] /\ WordsAt(u, j) = WordsAt(s, j + n)
    <2>1. j + n \in LoadsOf(s)
        BY LoadsSkip
    <2>2. j + n + NumAct + 2 <= Len(s)
        BY <2>1 DEF LoadsInOrder
    <2> QED BY <2>1, <2>2, LoadsSkip
  <1>2. PICK m \in LoadsOf(s) : m = k + n
      BY <1>1
  <1>3. /\ s[m + 2].val = NumAct
        /\ Older(lo, WordsAt(s, m)) /\ Older(WordsAt(s, m), hi)
      BY DEF LoadsInOrder
  <1>4. ASSUME NEW l \in LoadsOf(u), k < l
        PROVE  Older(WordsAt(u, k), WordsAt(u, l))
    <2>1. PICK q \in LoadsOf(s) : q = l + n
        BY <1>1
    <2>2. m < q
        BY <1>2, <1>4, <2>1 DEF LoadsOf
    <2>3. Older(WordsAt(s, m), WordsAt(s, q))
        BY <2>2 DEF LoadsInOrder
    <2> QED BY <2>1, <2>3, <1>1, <1>2
  <1> QED BY <1>1, <1>2, <1>3, <1>4

(* Reading the command of the first: what is left is no older.             *)
LEMMA InOrderFirst ==
  ASSUME NEW s \in Seq(Item), NEW u \in Seq(Item), Skips(s, u, 1), s[1] = Cmd(LOAD_CMD),
         NEW lo, NEW hi, LoadsInOrder(s, lo, hi)
  PROVE  /\ NumAct + 1 <= Len(u) /\ u[1].val = NumAct
         /\ Older(lo, WordsAt(u, -1)) /\ Older(WordsAt(u, -1), hi)
         /\ LoadsInOrder(u, WordsAt(u, -1), hi)
  <1>1. /\ Len(s) \in Nat /\ Len(u) \in Nat /\ Len(u) = Len(s) - 1
        /\ \A i \in 1 .. Len(u) : u[i] = s[i + 1]
        /\ NumAct \in Nat /\ NumAct >= 1
      BY FifoAssumption DEF Skips
  <1>2. 0 \in LoadsOf(s)
      BY <1>1 DEF LoadsOf
  <1>3. 0 + NumAct + 2 <= Len(s) /\ s[0 + 2].val = NumAct
      BY <1>2 DEF LoadsInOrder
  <1>4. NumAct + 1 <= Len(u) /\ u[1].val = NumAct
      BY <1>1, <1>3
  <1>5. WordsAt(u, -1) = WordsAt(s, 0)
    <2>1. ASSUME NEW i \in Act
          PROVE  u[-1 + 2 + i] = s[0 + 2 + i]
      <3>1. -1 + 2 + i \in 1 .. Len(u) /\ (-1 + 2 + i) + 1 = 0 + 2 + i
          BY <1>1, <1>4 DEF Act
      <3> QED BY <3>1, <1>1
    <2> QED BY <2>1 DEF WordsAt
  <1>6. Older(lo, WordsAt(s, 0)) /\ Older(WordsAt(s, 0), hi)
      BY <1>2 DEF LoadsInOrder
  <1>7. LoadsInOrder(u, lo, hi)
      BY InOrderSkip
  <1>8. ASSUME NEW k \in LoadsOf(u)
        PROVE  Older(WordsAt(s, 0), WordsAt(u, k))
    <2>1. k + 1 \in LoadsOf(s)
        BY LoadsSkip
    <2>2. 0 < k + 1
        BY <1>1 DEF LoadsOf
    <2>3. Older(WordsAt(s, 0), WordsAt(s, k + 1))
        BY <1>2, <2>1, <2>2 DEF LoadsInOrder
    <2>4. k + NumAct + 2 <= Len(u)
        BY <1>7 DEF LoadsInOrder
    <2>5. WordsAt(u, k) = WordsAt(s, k + 1)
        BY <2>4, LoadsSkip
    <2> QED BY <2>3, <2>5
  <1>9. LoadsInOrder(u, WordsAt(s, 0), hi)
      BY <1>7, <1>8 DEF LoadsInOrder
  <1> QED BY <1>4, <1>5, <1>6, <1>9

(* Writing what has no LOAD behind it.                                     *)
LEMMA InOrderBehind ==
  ASSUME NEW s \in Seq(Item), NEW m \in Seq(Item), NoCmd(m, LOAD_CMD),
         NEW lo, NEW hi, LoadsInOrder(s, lo, hi)
  PROVE  LoadsInOrder(s \o m, lo, hi)
  <1> DEFINE u == s \o m
  <1>1. /\ Len(s) \in Nat /\ Len(m) \in Nat /\ Len(u) = Len(s) + Len(m)
        /\ \A i \in 1 .. Len(s) : u[i] = s[i]
        /\ \A i \in 1 .. Len(m) : u[Len(s) + i] = m[i]
        /\ NumAct \in Nat
      BY FifoAssumption, Concat
  <1> HIDE DEF u
  <1>2. ASSUME NEW k \in LoadsOf(u)
        PROVE  k \in LoadsOf(s)
    <2>1. k + 1 \in 1 .. Len(u) /\ k \in Nat /\ u[k + 1] = Cmd(LOAD_CMD)
        BY <1>1 DEF LoadsOf
    <2>2. CASE k + 1 <= Len(s)
        BY <1>1, <2>1, <2>2 DEF LoadsOf
    <2>3. CASE k + 1 > Len(s)
      <3>1. k + 1 - Len(s) \in 1 .. Len(m) /\ Len(s) + (k + 1 - Len(s)) = k + 1
          BY <1>1, <2>1, <2>3
      <3>2. m[k + 1 - Len(s)] = Cmd(LOAD_CMD)
          BY <1>1, <2>1, <3>1
      <3> QED BY <3>1, <3>2 DEF NoCmd
    <2> QED BY <1>1, <2>1, <2>2, <2>3
  <1>3. ASSUME NEW k \in LoadsOf(s)
        PROVE  /\ k + NumAct + 2 <= Len(u) /\ u[k + 2] = s[k + 2]
               /\ WordsAt(u, k) = WordsAt(s, k)
    <2>1. k + NumAct + 2 <= Len(s)
        BY DEF LoadsInOrder
    <2>2. k \in Nat
        BY <1>1 DEF LoadsOf
    <2>3. k + 2 \in 1 .. Len(s) /\ \A i \in Act : k + 2 + i \in 1 .. Len(s)
        BY <1>1, <2>1, <2>2 DEF Act
    <2>4. \A i \in Act : u[k + 2 + i] = s[k + 2 + i]
        BY <1>1, <2>3
    <2> QED BY <1>1, <2>1, <2>2, <2>3, <2>4 DEF WordsAt
  <1>4. LoadsInOrder(u, lo, hi)
      BY <1>2, <1>3 DEF LoadsInOrder
  <1> QED BY <1>4 DEF u

(* Writing the LOAD of a frame that is no older behind it.                 *)
LEMMA InOrderSent ==
  ASSUME NEW s \in Seq(Item), NEW m \in Seq(Item), NEW t \in Frame, LoadAt(m, 0, t),
         NEW lo, NEW hi, LoadsInOrder(s, lo, hi), Older(lo, hi), Older(hi, t)
  PROVE  LoadsInOrder(s \o m, lo, t)
  <1> DEFINE u == s \o m
             n == Len(s)
  <1>1. /\ n \in Nat /\ Len(m) \in Nat /\ Len(u) = n + Len(m)
        /\ \A i \in 1 .. n : u[i] = s[i]
        /\ \A i \in 1 .. Len(m) : u[n + i] = m[i]
        /\ NumAct \in Nat
      BY FifoAssumption, Concat
  <1>2. /\ NumAct + 2 <= Len(m) /\ m[2] = Arg(NumAct)
        /\ \A i \in Act : m[2 + i] = Arg(t[i])
        /\ \A j \in 2 .. Len(m) : m[j] # Cmd(LOAD_CMD)
    <2>1. 0 + NumAct + 2 = NumAct + 2 /\ 0 + 2 = 2
        BY <1>1
    <2> QED BY <2>1 DEF LoadAt
  <1>3. t = [i \in Act |-> t[i]]
      BY DEF Frame
  <1> HIDE DEF u
  <1>4. ASSUME NEW k \in LoadsOf(u)
        PROVE  k \in LoadsOf(s) \/ k = n
    <2>1. k + 1 \in 1 .. Len(u) /\ k \in Nat /\ u[k + 1] = Cmd(LOAD_CMD)
        BY <1>1 DEF LoadsOf
    <2>2. CASE k + 1 <= n
        BY <1>1, <2>1, <2>2 DEF LoadsOf
    <2>3. CASE k + 1 > n + 1
      <3>1. k + 1 - n \in 2 .. Len(m) /\ n + (k + 1 - n) = k + 1 /\ k + 1 - n \in 1 .. Len(m)
          BY <1>1, <2>1, <2>3
      <3>2. m[k + 1 - n] = Cmd(LOAD_CMD)
          BY <1>1, <2>1, <3>1
      <3> QED BY <1>2, <3>1, <3>2
    <2> QED BY <1>1, <2>1, <2>2, <2>3
  <1>5. ASSUME NEW k \in LoadsOf(s)
        PROVE  /\ k + NumAct + 2 <= Len(u) /\ u[k + 2] = s[k + 2] /\ k < n
               /\ WordsAt(u, k) = WordsAt(s, k)
    <2>1. k + NumAct + 2 <= n
        BY DEF LoadsInOrder
    <2>2. k \in Nat /\ k < n
        BY <1>1 DEF LoadsOf
    <2>3. k + 2 \in 1 .. n /\ \A i \in Act : k + 2 + i \in 1 .. n
        BY <1>1, <2>1, <2>2 DEF Act
    <2>4. \A i \in Act : u[k + 2 + i] = s[k + 2 + i]
        BY <1>1, <2>3
    <2> QED BY <1>1, <2>1, <2>2, <2>3, <2>4 DEF WordsAt
  <1>6. /\ n + NumAct + 2 <= Len(u) /\ u[n + 2].val = NumAct
        /\ WordsAt(u, n) = t
    <2>1. u[n + 2] = m[2]
      <3>1. 2 \in 1 .. Len(m)
          BY <1>1, <1>2
      <3> QED BY <3>1, <1>1
    <2>2. ASSUME NEW i \in Act
          PROVE  u[n + 2 + i].val = t[i]
      <3>1. 2 + i \in 1 .. Len(m) /\ n + (2 + i) = n + 2 + i
          BY <1>1, <1>2 DEF Act
      <3>2. u[n + 2 + i] = Arg(t[i])
          BY <3>1, <1>1, <1>2
      <3> QED BY <3>2, CmdFacts
    <2>3. WordsAt(u, n) = [i \in Act |-> t[i]]
        BY <2>2 DEF WordsAt
    <2> QED BY <1>1, <1>2, <1>3, <2>1, <2>3, CmdFacts
  <1>7. ASSUME NEW k \in LoadsOf(s)
        PROVE  /\ s[k + 2].val = NumAct /\ Older(lo, WordsAt(s, k)) /\ Older(WordsAt(s, k), hi)
               /\ Older(WordsAt(s, k), t)
               /\ \A l \in LoadsOf(s) : k < l => Older(WordsAt(s, k), WordsAt(s, l))
    <2>1. Older(WordsAt(s, k), hi)
        BY DEF LoadsInOrder
    <2>2. Older(WordsAt(s, k), t)
        BY <2>1, OlderOrders
    <2> QED BY <2>1, <2>2 DEF LoadsInOrder
  <1>8. Older(lo, t) /\ Older(t, t)
      BY OlderOrders
  <1>9. ASSUME NEW k \in LoadsOf(u)
        PROVE  /\ k + NumAct + 2 <= Len(u) /\ u[k + 2].val = NumAct
               /\ Older(lo, WordsAt(u, k)) /\ Older(WordsAt(u, k), t)
               /\ \A l \in LoadsOf(u) : k < l => Older(WordsAt(u, k), WordsAt(u, l))
    <2>1. CASE k = n
      <3>1. ASSUME NEW l \in LoadsOf(u), k < l
            PROVE  FALSE
        <4>1. l \in Int
            BY <1>1 DEF LoadsOf
        <4>2. l = n \/ l < n
            BY <1>4, <1>5
        <4> QED BY <1>1, <2>1, <3>1, <4>1, <4>2
      <3> QED BY <1>6, <1>8, <2>1, <3>1
    <2>2. CASE k \in LoadsOf(s)
      <3>1. ASSUME NEW l \in LoadsOf(u), k < l
            PROVE  Older(WordsAt(s, k), WordsAt(u, l))
        <4>1. CASE l = n
            BY <1>6, <1>7, <2>2, <4>1
        <4>2. CASE l \in LoadsOf(s)
            BY <1>5, <1>7, <2>2, <3>1, <4>2
        <4> QED BY <4>1, <4>2, <1>4
      <3> QED BY <1>5, <1>7, <2>2, <3>1
    <2> QED BY <2>1, <2>2, <1>4
  <1>10. LoadsInOrder(u, lo, t)
      BY <1>9 DEF LoadsInOrder
  <1> QED BY <1>10 DEF u

-----------------------------------------------------------------------------
(* What the mirror gets is in the order of the frames.                     *)

(* The frame the thread is reading, or that it has read.                   *)
Coming == IF tpc = "count" THEN WordsAt(Stream, -1)
          ELSE IF tpc = "load"
            THEN [i \in Act |-> IF i < next THEN userBuf[i] ELSE Stream[i - next + 1].val]
            ELSE userBuf

(* Its words are in the stream.                                            *)
ComingInv ==
  /\ tpc = "count" => NumAct + 1 <= Len(Stream) /\ Stream[1].val = NumAct
  /\ tpc = "load" => count = NumAct /\ next \in Act /\ NumAct - next + 1 <= Len(Stream)

(* From the mirror to the user buffers no frame is older than the one      *)
(* before it; until the first LOAD there is none.                          *)
BoardInv ==
  /\ iDataMode \in {0, 1}
  /\ dmaBuf[0] = dmaBuf[1]
  /\ iDataMode = 0 => Older(dmaBuf[0], ZeroFrame)
  /\ Older(dm, dmaBuf[0]) /\ Older(dmaBuf[0], userBuf)

(* From the user buffers over the stream to the loop neither.              *)
UnderwayInv ==
  /\ Older(userBuf, Coming) /\ Older(Coming, sActValue)
  /\ LoadsInOrder(Stream, Coming, sActValue)

OrderInv == ComingInv /\ BoardInv /\ UnderwayInv

(* The thread reads no other data command and is never at one.             *)
LEMMA NoOtherData ==
  ASSUME TypeOK, MainStreamInv, SentInv, OrderInv
  PROVE  /\ \A c \in {CLEAR_CMD, TEST_CMD, POKE_CMD} : ~Command(c)
         /\ tpc # "poke" /\ iDataMode # 3
         /\ tpc \in {"count", "load"} => iDataMode = 1
  <1>1. \A c \in {CLEAR_CMD, TEST_CMD, POKE_CMD} : ~Command(c)
      BY NoCmdNoCommand DEF TypeOK, MainStreamInv, SentInv
  <1>2. ModeInv /\ iDataMode \in {0, 1}
      BY DEF SentInv, LoadInv, OrderInv, BoardInv
  <1> QED BY <1>1, <1>2 DEF ModeInv

(* What is left of the stream after a step of the thread is in order.      *)
LEMMA StepLeavesOrder ==
  ASSUME TypeOK, MainStreamInv, ThreadNext, NEW lo, NEW hi, LoadsInOrder(Stream, lo, hi)
  PROVE  LoadsInOrder(Stream', lo, hi)
  <1> USE DEF TypeOK
  <1>1. PICK s \in Seq(Item) : s = Stream
      BY StreamType
  <1>2. PICK u \in Seq(Item) : u = Stream'
      BY NextStreamType, ThreadKeepsTypes DEF MainStreamInv
  <1>3. ASSUME NEW n \in Nat, Skips(Stream, Stream', n)
        PROVE  LoadsInOrder(Stream', lo, hi)
    <2>1. Skips(s, u, n) /\ LoadsInOrder(s, lo, hi)
        BY <1>1, <1>2, <1>3
    <2> QED BY <1>2, <2>1, InOrderSkip
  <1>4. CASE Stream' = Stream
      BY <1>4
  <1>5. ASSUME NEW c, Command(c)
        PROVE  LoadsInOrder(Stream', lo, hi)
      BY <1>3, <1>5, CommandReads DEF MainStreamInv
  <1> QED BY <1>3, <1>4, <1>5, ThreadReads DEF MainStreamInv

(* Steps in which no word moves.                                           *)
LEMMA StillOrder ==
  ASSUME TypeOK, MainStreamInv, OrderInv, ThreadNext, UNCHANGED sActValue,
         tpc \notin {"count", "load"}, tpc' \notin {"count", "load"},
         UNCHANGED <<userBuf, dmaBuf, dm, iDataMode>>
  PROVE  OrderInv'
  <1>1. PICK lo : lo = userBuf
      OBVIOUS
  <1>2. PICK hi : hi = sActValue
      OBVIOUS
  <1>3. Coming = lo /\ Coming' = lo
      BY <1>1 DEF Coming
  <1>4. LoadsInOrder(Stream, lo, hi) /\ Older(lo, hi)
      BY <1>2, <1>3 DEF OrderInv, UnderwayInv
  <1>5. LoadsInOrder(Stream', lo, hi)
      BY <1>4, StepLeavesOrder
  <1>6. UnderwayInv'
      BY <1>1, <1>2, <1>3, <1>4, <1>5, OlderOrders DEF UnderwayInv
  <1>7. BoardInv'
      BY DEF OrderInv, BoardInv
  <1>8. ComingInv'
      BY DEF ComingInv
  <1> QED BY <1>6, <1>7, <1>8 DEF OrderInv

(* The LOAD is read.                                                       *)
LEMMA LoadOrder ==
  ASSUME TypeOK, MainStreamInv, SentInv, OrderInv, FramesDiffer, LoadCommand, ThreadNext,
         UNCHANGED sActValue
  PROVE  OrderInv'
  <1> USE DEF TypeOK
  <1>1. PICK s \in Seq(Item) : s = Stream
      BY StreamType
  <1>2. PICK u \in Seq(Item) : u = Stream'
      BY NextStreamType, ThreadKeepsTypes DEF MainStreamInv
  <1>3. PICK lo : lo = userBuf
      OBVIOUS
  <1>4. PICK hi : hi = sActValue
      OBVIOUS
  <1>5. PICK c : c = WordsAt(u, -1)
      OBVIOUS
  <1>6. /\ tpc = "tick" /\ tpc' = "count" /\ iDataMode' = 1 /\ UNCHANGED <<dmaBuf, dm>>
        /\ userBuf' = userBuf \/ (iDataMode # 1 /\ userBuf' = ZeroFrame)
        /\ Command(LOAD_CMD)
      BY DEF LoadCommand, EnterMode, Command, dmaVars
  <1>7. Skips(s, u, 1) /\ s[1] = Cmd(LOAD_CMD)
      BY <1>1, <1>2, <1>6, CommandReads DEF MainStreamInv
  <1>8. LoadsInOrder(s, lo, hi)
      BY <1>1, <1>3, <1>4, <1>6 DEF OrderInv, UnderwayInv, Coming
  <1>9. /\ NumAct + 1 <= Len(u) /\ u[1].val = NumAct
        /\ Older(lo, c) /\ Older(c, hi) /\ LoadsInOrder(u, c, hi)
      BY <1>5, <1>7, <1>8, InOrderFirst
  <1>10. Coming' = c
      BY <1>2, <1>5, <1>6 DEF Coming
  <1>11. Older(userBuf', c)
      BY <1>3, <1>6, <1>9, OlderFirst
  <1>12. UnderwayInv'
      BY <1>2, <1>4, <1>9, <1>10, <1>11 DEF UnderwayInv
  <1>13. BoardInv'
    <2>1. /\ iDataMode = 0 \/ iDataMode = 1
          /\ dmaBuf[0] = dmaBuf[1]
          /\ iDataMode = 0 => Older(dmaBuf[0], ZeroFrame)
          /\ Older(dm, dmaBuf[0]) /\ Older(dmaBuf[0], userBuf)
        BY DEF OrderInv, BoardInv
    <2> QED BY <1>6, <2>1 DEF BoardInv
  <1>14. ComingInv'
      BY <1>2, <1>6, <1>9 DEF ComingInv
  <1> QED BY <1>12, <1>13, <1>14 DEF OrderInv

(* Its count is read.                                                      *)
LEMMA CountOrder ==
  ASSUME TypeOK, MainStreamInv, SentInv, OrderInv, LoadCount, ThreadNext, UNCHANGED sActValue
  PROVE  OrderInv'
  <1> USE DEF TypeOK
  <1>1. PICK s \in Seq(Item) : s = Stream
      BY StreamType
  <1>2. PICK u \in Seq(Item) : u = Stream'
      BY NextStreamType, ThreadKeepsTypes DEF MainStreamInv
  <1>3. PICK hi : hi = sActValue
      OBVIOUS
  <1>4. PICK c : c = WordsAt(s, -1)
      OBVIOUS
  <1>5. NumAct \in Nat /\ NumAct >= 1 /\ Len(s) \in Nat
      BY FifoAssumption
  <1>6. tpc = "count" /\ NumAct + 1 <= Len(s) /\ s[1].val = NumAct
      BY <1>1 DEF LoadCount, OrderInv, ComingInv
  <1>7. Head(fifo) = s[1] /\ Skips(s, u, 1)
      BY <1>1, <1>2, ReadItemSkips DEF LoadCount
  <1>8. /\ count' = NumAct /\ next' = 1 /\ tpc' = "load"
        /\ UNCHANGED <<userBuf, dmaBuf, dm, iDataMode>>
      BY <1>5, <1>6, <1>7 DEF LoadCount, flagVars
  <1>9. /\ Len(u) = Len(s) - 1
        /\ \A j \in 1 .. Len(u) : u[j] = s[j + 1]
      BY <1>7 DEF Skips
  <1>10. Coming = c
      BY <1>1, <1>4, <1>6 DEF Coming
  <1>11. Coming' = c
    <2>1. Coming' = [i \in Act |-> IF i < 1 THEN userBuf[i] ELSE u[i - 1 + 1].val]
        BY <1>2, <1>8 DEF Coming
    <2>2. ASSUME NEW i \in Act
          PROVE  ~(i < 1) /\ u[i - 1 + 1] = s[-1 + 2 + i]
      <3>1. i \in 1 .. Len(u) /\ i - 1 + 1 = i /\ i + 1 = -1 + 2 + i /\ ~(i < 1)
          BY <1>5, <1>6, <1>9 DEF Act
      <3> QED BY <3>1, <1>9
    <2> QED BY <1>4, <2>1, <2>2 DEF WordsAt
  <1>12. Older(userBuf, c) /\ Older(c, hi) /\ LoadsInOrder(s, c, hi)
      BY <1>1, <1>3, <1>10 DEF OrderInv, UnderwayInv
  <1>13. LoadsInOrder(u, c, hi)
      BY <1>1, <1>2, <1>12, StepLeavesOrder
  <1>14. UnderwayInv'
      BY <1>2, <1>3, <1>8, <1>11, <1>12, <1>13 DEF UnderwayInv
  <1>15. BoardInv'
      BY <1>8 DEF OrderInv, BoardInv
  <1>16. ComingInv'
      BY <1>2, <1>5, <1>6, <1>8, <1>9 DEF ComingInv, Act
  <1> QED BY <1>14, <1>15, <1>16 DEF OrderInv

(* A word is read; with the last one the frame goes to the DMA buffers.    *)
LEMMA WordOrder ==
  ASSUME TypeOK, MainStreamInv, SentInv, OrderInv, LoadWord, ThreadNext, UNCHANGED sActValue
  PROVE  OrderInv'
  <1> USE DEF TypeOK
  <1>1. PICK s \in Seq(Item) : s = Stream
      BY StreamType
  <1>2. PICK u \in Seq(Item) : u = Stream'
      BY NextStreamType, ThreadKeepsTypes DEF MainStreamInv
  <1>3. PICK hi : hi = sActValue
      OBVIOUS
  <1>4. PICK c : c = [i \in Act |-> IF i < next THEN userBuf[i] ELSE s[i - next + 1].val]
      OBVIOUS
  <1>5. PICK v \in Frame : v = userBuf
      BY DEF ThreadTypeOK
  <1>6. NumAct \in Nat /\ NumAct >= 1 /\ Len(s) \in Nat /\ Len(u) \in Nat
      BY FifoAssumption
  <1>7. /\ tpc = "load" /\ count = NumAct /\ next \in Act /\ NumAct - next + 1 <= Len(s)
      BY <1>1 DEF LoadWord, OrderInv, ComingInv
  <1>8. Head(fifo) = s[1] /\ Skips(s, u, 1)
      BY <1>1, <1>2, ReadItemSkips DEF LoadWord
  <1>9. s[1].val = c[next]
    <2>1. next - next + 1 = 1 /\ ~(next < next) /\ next \in Act
        BY <1>7 DEF Act
    <2> QED BY <1>4, <2>1
  <1>10. /\ userBuf' = [v EXCEPT ![next] = c[next]] /\ next' = next + 1 /\ count' = NumAct
         /\ UNCHANGED <<dm, iDataMode>>
         /\ \/ tpc' = "load" /\ UNCHANGED dmaBuf /\ next # NumAct
            \/ /\ tpc' = "frame" /\ next = NumAct
               /\ dmaBuf' = [b \in Buffers |-> userBuf']
      BY <1>5, <1>7, <1>8, <1>9 DEF LoadWord, CopyToKernel, flagVars
  <1>11. /\ Len(u) = Len(s) - 1
         /\ \A j \in 1 .. Len(u) : u[j] = s[j + 1]
      BY <1>8 DEF Skips
  <1>12. Coming = c
      BY <1>1, <1>4, <1>7 DEF Coming
  <1>13. Older(v, c) /\ Older(c, hi) /\ LoadsInOrder(s, c, hi)
      BY <1>1, <1>3, <1>5, <1>12 DEF OrderInv, UnderwayInv
  <1>14. LoadsInOrder(u, c, hi)
      BY <1>1, <1>2, <1>13, StepLeavesOrder
  <1>15. PICK w \in Frame : w = userBuf'
      BY ThreadKeepsTypes DEF MainStreamInv, ThreadTypeOK
  <1>16. Older(v, w) /\ Older(w, c)
      BY <1>7, <1>10, <1>13, <1>15, OlderUpdate
  <1>17. \A i \in Act : i < next + 1 => w[i] = c[i]
    <2> SUFFICES ASSUME NEW i \in Act, i < next + 1
                 PROVE  w[i] = c[i]
        OBVIOUS
    <2>1. i = next \/ i < next
        BY <1>7 DEF Act
    <2>2. w[i] = IF i = next THEN c[next] ELSE v[i]
        BY <1>10, <1>15 DEF Frame
    <2> QED BY <1>4, <1>5, <2>1, <2>2
  <1>18. Coming' = c
    <2>1. CASE tpc' = "load"
      <3>1. Coming' = [i \in Act |-> IF i < next + 1 THEN w[i] ELSE u[i - (next + 1) + 1].val]
          BY <1>2, <1>10, <1>15, <2>1 DEF Coming
      <3>2. ASSUME NEW i \in Act, ~(i < next + 1)
            PROVE  ~(i < next) /\ u[i - (next + 1) + 1] = s[i - next + 1]
        <4>1. /\ i - (next + 1) + 1 \in 1 .. Len(u) /\ ~(i < next)
              /\ (i - (next + 1) + 1) + 1 = i - next + 1
            BY <1>6, <1>7, <1>11, <3>2 DEF Act
        <4> QED BY <4>1, <1>11
      <3>3. \A i \in Act : (IF i < next + 1 THEN w[i] ELSE u[i - (next + 1) + 1].val) = c[i]
          BY <1>4, <1>17, <3>2
      <3>4. c = [i \in Act |-> c[i]]
          BY <1>4
      <3> QED BY <3>1, <3>3, <3>4
    <2>2. CASE tpc' = "frame" /\ next = NumAct
      <3>1. Coming' = w
          BY <1>15, <2>2 DEF Coming
      <3>2. \A i \in Act : i < next + 1
          BY <1>6, <2>2 DEF Act
      <3>3. \A i \in Act : w[i] = c[i]
          BY <1>17, <3>2
      <3>4. c = [i \in Act |-> c[i]] /\ w = [i \in Act |-> w[i]]
          BY <1>4 DEF Frame
      <3> QED BY <3>1, <3>3, <3>4
    <2> QED BY <1>10, <2>1, <2>2
  <1>19. UnderwayInv'
      BY <1>2, <1>3, <1>13, <1>14, <1>15, <1>16, <1>18 DEF UnderwayInv
  <1>20. BoardInv'
    <2>1. /\ dmaBuf[0] = dmaBuf[1] /\ Older(dm, dmaBuf[0]) /\ Older(dmaBuf[0], v)
        BY <1>5 DEF OrderInv, BoardInv
    <2>2. iDataMode = 1
        BY <1>7, NoOtherData
    <2>3. Older(dmaBuf[0], w) /\ Older(dm, w) /\ Older(w, w)
        BY <1>16, <2>1, OlderOrders
    <2>4. dmaBuf' = dmaBuf \/ (dmaBuf'[0] = w /\ dmaBuf'[1] = w)
        BY <1>10, <1>15 DEF Buffers
    <2>5. dmaBuf'[0] = dmaBuf'[1] /\ Older(dm, dmaBuf'[0]) /\ Older(dmaBuf'[0], w)
        BY <2>1, <2>3, <2>4
    <2> QED BY <1>10, <1>15, <2>2, <2>5 DEF BoardInv
  <1>21. ComingInv'
    <2>1. tpc' = "load" => next' \in Act /\ NumAct - next' + 1 <= Len(u)
        BY <1>6, <1>7, <1>10, <1>11 DEF Act
    <2> QED BY <1>2, <1>10, <2>1 DEF ComingInv
  <1> QED BY <1>19, <1>20, <1>21 DEF OrderInv

(* The board brings a word of a DMA buffer to the mirror.                  *)
LEMMA BoardOrder ==
  ASSUME TypeOK, MainStreamInv, OrderInv, HardwareStep, UNCHANGED sActValue
  PROVE  OrderInv'
  <1> USE DEF TypeOK
  <1>1. UNCHANGED <<fifo, out, tpc, count, next, userBuf, iDataMode, dmaBuf>>
      BY DEF HardwareStep, threadVars, fifoVars, DmaNext, DmaWord, DmaEnd, DmaDoneNotifier
  <1>2. Stream' = Stream
      BY <1>1 DEF Stream
  <1>3. Coming' = Coming
      BY <1>1, <1>2 DEF Coming
  <1>4. UnderwayInv' /\ ComingInv'
      BY <1>1, <1>2, <1>3 DEF OrderInv, UnderwayInv, ComingInv
  <1>5. PICK d \in Frame : d = dm
      BY DEF ThreadTypeOK, DmaTypeOK
  <1>6. PICK b : b = dmaBuf[0]
      OBVIOUS
  <1>7. Older(d, b) /\ dmaBuf[1] = b
      BY <1>5, <1>6 DEF OrderInv, BoardInv
  <1>8. Older(dm', b)
    <2>1. CASE dm' = dm
        BY <1>5, <1>7, <2>1
    <2>2. ASSUME NEW i \in Act, DmaWord(i)
          PROVE  Older(dm', b)
      <3>1. dma \in Buffers
          BY <2>2 DEF DmaWord, ThreadTypeOK, DmaTypeOK
      <3>2. dmaBuf[dma] = b
          BY <1>6, <1>7, <3>1 DEF Buffers
      <3>3. dm' = [d EXCEPT ![i] = b[i]]
          BY <1>5, <2>2, <3>2 DEF DmaWord
      <3> QED BY <1>7, <3>3, OlderUpdate
    <2> QED BY <2>1, <2>2 DEF HardwareStep, DmaNext, DmaEnd, DmaDoneNotifier
  <1>9. BoardInv'
      BY <1>1, <1>6, <1>8 DEF OrderInv, BoardInv
  <1> QED BY <1>4, <1>9 DEF OrderInv

(* Every step of the thread and of the board.                              *)
LEMMA ThreadKeepsOrder ==
  ASSUME TypeOK, MainStreamInv, SentInv, OrderInv, FramesDiffer, ThreadNext,
         UNCHANGED sActValue
  PROVE  OrderInv'
  <1>1. CASE HardwareStep
      BY <1>1, BoardOrder
  <1>2. CASE LoadCommand
      BY <1>2, LoadOrder
  <1>3. CASE LoadCount
      BY <1>3, CountOrder
  <1>4. CASE LoadWord
      BY <1>4, WordOrder
  <1>5. ASSUME tpc \notin {"count", "load"}, tpc' \notin {"count", "load"},
               UNCHANGED <<userBuf, dmaBuf, dm, iDataMode>>
        PROVE  OrderInv'
      BY <1>5, StillOrder
  <1>6. CASE Setup \/ EndTick
    <2>1. iDataMode # 3
        BY NoOtherData
    <2>2. /\ tpc \notin {"count", "load"} /\ tpc' \notin {"count", "load"}
          /\ UNCHANGED <<userBuf, dmaBuf, dm, iDataMode>>
        BY <1>6, <2>1 DEF Setup, EndTick, NoFrame, StartFrame, SkipFrame, FrameDone, Cleanup,
                          FillPattern, StartDma, SemWait, dmaVars, flagVars
    <2> QED BY <1>5, <2>2
  <1>7. CASE ReadCommand /\ ~LoadCommand
    <2>1. \A c \in {CLEAR_CMD, TEST_CMD, POKE_CMD} : ~Command(c)
        BY NoOtherData
    <2>2. ~ClearCommand /\ ~TestCommand /\ ~PokeCommand
        BY <2>1 DEF ClearCommand, TestCommand, PokeCommand
    <2>3. /\ tpc \notin {"count", "load"} /\ tpc' \notin {"count", "load"}
          /\ UNCHANGED <<userBuf, dmaBuf, dm, iDataMode>>
        BY <1>7, <2>2 DEF ReadCommand, NoCommand, StopCommand, RunCommand, StepCommand,
                          TermCommand, SettingCommand, Command, dmaVars, flagVars
    <2> QED BY <1>5, <2>3
  <1>8. CASE HalterrArg \/ FramerateArg \/ StrobeArgs
    <2>1. /\ tpc \notin {"count", "load"} /\ tpc' \notin {"count", "load"}
          /\ UNCHANGED <<userBuf, dmaBuf, dm, iDataMode>>
        BY <1>8 DEF HalterrArg, FramerateArg, StrobeArgs, dmaVars, flagVars
    <2> QED BY <1>5, <2>1
  <1>9. ~PokeArgs
      BY NoOtherData DEF PokeArgs
  <1> QED BY <1>1, <1>2, <1>3, <1>4, <1>6, <1>7, <1>8, <1>9 DEF ThreadNext, ThreadStep, ReadArgs

(* The frame the thread is reading does not change when more is written.   *)
LEMMA ComingStays ==
  ASSUME TypeOK, MainStreamInv, ComingInv, NEW m \in Seq(Item), Stream' = Stream \o m,
         UNCHANGED threadVars
  PROVE  ComingInv' /\ Coming' = Coming
  <1> USE DEF TypeOK
  <1>1. PICK s \in Seq(Item) : s = Stream
      BY StreamType
  <1>2. PICK u : u = s \o m
      OBVIOUS
  <1>3. Stream' = u /\ Stream = s
      BY <1>1, <1>2
  <1>4. /\ Len(s) \in Nat /\ Len(m) \in Nat /\ Len(u) = Len(s) + Len(m)
        /\ \A i \in 1 .. Len(s) : u[i] = s[i]
        /\ NumAct \in Nat /\ NumAct >= 1
      BY <1>2, FifoAssumption, Concat
  <1>5. UNCHANGED <<tpc, count, next, userBuf>>
      BY DEF threadVars
  <1>6. /\ tpc = "count" => NumAct + 1 <= Len(s) /\ s[1].val = NumAct
        /\ tpc = "load" => count = NumAct /\ next \in Act /\ NumAct - next + 1 <= Len(s)
      BY <1>3 DEF ComingInv
  <1>7. CASE tpc = "count"
    <2>1. NumAct + 1 <= Len(u) /\ 1 \in 1 .. Len(s)
        BY <1>4, <1>6, <1>7
    <2>2. ASSUME NEW i \in Act
          PROVE  u[-1 + 2 + i] = s[-1 + 2 + i]
      <3>1. -1 + 2 + i \in 1 .. Len(s)
          BY <1>4, <1>6, <1>7 DEF Act
      <3> QED BY <3>1, <1>4
    <2>3. WordsAt(u, -1) = WordsAt(s, -1)
        BY <2>2 DEF WordsAt
    <2>4. u[1].val = NumAct
        BY <1>4, <1>6, <1>7, <2>1
    <2>5. Coming' = WordsAt(u, -1) /\ Coming = WordsAt(s, -1)
        BY <1>3, <1>5, <1>7 DEF Coming
    <2> QED BY <1>3, <1>5, <1>7, <2>1, <2>3, <2>4, <2>5 DEF ComingInv
  <1>8. CASE tpc = "load"
    <2>1. NumAct - next + 1 <= Len(u)
        BY <1>4, <1>6, <1>8 DEF Act
    <2>2. ASSUME NEW i \in Act, ~(i < next)
          PROVE  u[i - next + 1] = s[i - next + 1]
      <3>1. i - next + 1 \in 1 .. Len(s)
          BY <1>4, <1>6, <1>8, <2>2 DEF Act
      <3> QED BY <3>1, <1>4
    <2>3. /\ Coming' = [i \in Act |-> IF i < next THEN userBuf[i] ELSE u[i - next + 1].val]
          /\ Coming = [i \in Act |-> IF i < next THEN userBuf[i] ELSE s[i - next + 1].val]
        BY <1>3, <1>5, <1>8 DEF Coming
    <2>4. Coming' = Coming
        BY <2>2, <2>3
    <2> QED BY <1>3, <1>5, <1>6, <1>8, <2>1, <2>4 DEF ComingInv
  <1>9. CASE tpc \notin {"count", "load"}
      BY <1>5, <1>9 DEF ComingInv, Coming
  <1> QED BY <1>7, <1>8, <1>9

-----------------------------------------------------------------------------
(* The loop takes the frames from the image in the order of the writer.    *)

(* No pixel of t is of a later frame than in p.                            *)
PixelsOlder(t, p) ==
  \A a \in Act : FrameOf(a, Convert(t[a])) <= FrameOf(a, Convert(p[a]))

(* It is the same to compare pixels and the words for the mirror.          *)
LEMMA MappedOlder == \A t, p : PixelsOlder(t, p) <=> Older(Mapped(t), Mapped(p))
  <1> SUFFICES ASSUME NEW t, NEW p
               PROVE  PixelsOlder(t, p) <=> Older(Mapped(t), Mapped(p))
      OBVIOUS
  <1>1. PICK u : u = Mapped(t)
      OBVIOUS
  <1>2. PICK v : v = Mapped(p)
      OBVIOUS
  <1>3. \A a \in Act : u[DmMap[a]] = Convert(t[a]) /\ v[DmMap[a]] = Convert(p[a])
      BY <1>1, <1>2, MappedWord
  <1>4. ASSUME NEW a \in Act
        PROVE  FrameOf(a, u[DmMap[a]]) = FrameOf(a, Convert(t[a]))
               /\ FrameOf(a, v[DmMap[a]]) = FrameOf(a, Convert(p[a]))
      BY <1>3
  <1>5. PixelsOlder(t, p) <=> Older(u, v)
      BY <1>4 DEF PixelsOlder, Older
  <1> QED BY <1>1, <1>2, <1>5

(* One pixel of a newer frame put into an older one.                       *)
LEMMA PixelsUpdate ==
  ASSUME NEW t \in Frame, NEW p, NEW i \in Act, PixelsOlder(t, p)
  PROVE  /\ PixelsOlder(t, [t EXCEPT ![i] = p[i]])
         /\ PixelsOlder([t EXCEPT ![i] = p[i]], p)
  <1> SUFFICES ASSUME NEW a \in Act
               PROVE  LET q == [t EXCEPT ![i] = p[i]]
                      IN /\ FrameOf(a, Convert(t[a])) <= FrameOf(a, Convert(q[a]))
                         /\ FrameOf(a, Convert(q[a])) <= FrameOf(a, Convert(p[a]))
      BY DEF PixelsOlder
  <1>1. [t EXCEPT ![i] = p[i]][a] = IF a = i THEN p[i] ELSE t[a]
      BY DEF Frame
  <1>2. FrameOf(a, Convert(t[a])) <= FrameOf(a, Convert(p[a]))
      BY DEF PixelsOlder
  <1> QED BY <1>1, <1>2, FrameOfType

(* What was sent is no newer than what was copied, that than the image.    *)
CopyInv == Older(sActValue, Mapped(temp)) /\ PixelsOlder(temp, pix)

(* The image has no frame that has not been written, and a pixel that is   *)
(* still to be stored has an older one.                                    *)
PictureInv ==
  \A a \in Act : /\ FrameOf(a, Convert(pix[a])) <= frame
                 /\ wpc = "pixels" /\ a \in todo => FrameOf(a, Convert(pix[a])) < frame

(* The driver does not sleep: before its first frame there is nothing in   *)
(* the image that could keep it from sending, after it it is not late.     *)
Awake ==
  /\ mpc \notin {"zero", "unflag", "readcnt", "storecnt", "killed"}
  /\ kills = 0
  /\ late => framecnt = -1
  /\ framecnt = -1 => mpc # "idle" /\ ~write /\ wpc = "idle"

(* So it stays awake.                                                      *)
LEMMA NextAwake ==
  ASSUME Undisturbed, TypeOK, Awake, [Next]_vars
  PROVE  Awake'
  <1>1. QuietStart /\ MaxHours = 0 /\ MaxKills = 0
      BY DEF Undisturbed
  <1>2. seen \in Nat /\ framecnt \in Nat \cup {-1} /\ hours = 0
      BY <1>1 DEF TypeOK, LoopTypeOK
  <1>3. CASE ThreadAlone \/ BoardAlone \/ Terminated \/ UNCHANGED vars
      BY <1>3 DEF ThreadAlone, BoardAlone, Terminated, vars, loopVars, streamVars, imageVars,
                  writerVars, Awake
  <1>4. CASE MainAlone
    <2>1. UNCHANGED <<wpc, kills>> /\ Main
        BY <1>4 DEF MainAlone, writerVars
    <2>2. CASE OpenFifo(ReaderOpen) \/ EnterLoop \/ CheckStatus \/ CopyPixel \/ MainWrite
                 \/ Join(ThreadOver)
        BY <2>1, <2>2 DEF OpenFifo, EnterLoop, CheckStatus, CopyPixel, MainWrite, Join,
                          imageVars, loopVars, Awake
    <2>3. CASE Sent
        BY <1>2, <2>1, <2>3 DEF Sent, imageVars, Awake
    <2>4. CASE Gate
      <3>1. framecnt = -1 => NewFrame
          BY <1>2 DEF Awake, NewFrame
      <3> QED BY <2>1, <2>4, <3>1 DEF Gate, imageVars, Awake
    <2>5. CASE Idle
        BY <2>1, <2>5 DEF Idle, Awake
    <2>6. CASE ZeroPixel \/ Unflag \/ ReadCnt \/ StoreCnt
        BY <2>6 DEF ZeroPixel, Unflag, ReadCnt, StoreCnt, Awake
    <2> QED BY <2>1, <2>2, <2>3, <2>4, <2>5, <2>6 DEF Main, LoopStep
  <1>5. CASE WriterAlone
    <2>1. framecnt # -1 /\ UNCHANGED <<mpc, kills, late, framecnt>>
        BY <1>1, <1>2, <1>5 DEF WriterAlone, loopVars
    <2> QED BY <2>1 DEF Awake
  <1>6. CASE Environment
      BY <1>1, <1>2, <1>6 DEF Environment, StatusQuit, HourPasses, loopVars, writerVars, Awake
  <1>7. ~Sigint /\ ~Restart
      BY <1>1 DEF Sigint, Restart, Awake
  <1> QED BY <1>3, <1>4, <1>5, <1>6, <1>7 DEF Next

(* Nobody changes the image but the writer.                                *)
LEMMA ImageStays ==
  ASSUME Awake, ThreadAlone \/ BoardAlone \/ MainAlone \/ Environment \/ Terminated
                  \/ UNCHANGED vars
  PROVE  UNCHANGED <<pix, wpc, frame, todo>>
  <1>1. CASE ThreadAlone \/ BoardAlone \/ Environment \/ Terminated \/ UNCHANGED vars
      BY <1>1 DEF ThreadAlone, BoardAlone, Environment, StatusQuit, HourPasses, Terminated,
                  vars, streamVars, imageVars, writerVars
  <1>2. CASE MainAlone
    <2>1. UNCHANGED <<wpc, frame, todo>> /\ Main
        BY <1>2 DEF MainAlone, writerVars
    <2>2. pix' = pix
        BY <2>1 DEF Main, LoopStep, OpenFifo, EnterLoop, CheckStatus, Gate, CopyPixel, Sent,
                    Idle, ZeroPixel, Unflag, ReadCnt, StoreCnt, MainWrite, Join, imageVars, Awake
    <2> QED BY <2>1, <2>2
  <1> QED BY <1>1, <1>2

(* The writer writes frames one after the other.                           *)
LEMMA WriterKeepsPicture ==
  ASSUME FramesDiffer, TypeOK, PictureInv, WriterStep
  PROVE  PictureInv' /\ PixelsOlder(pix, pix')
  <1> USE DEF TypeOK
  <1>1. \A a \in Act : FrameOf(a, Convert(pix[a])) \in Nat
      BY FrameOfType, FrameFacts
  <1>2. frame \in Nat /\ pix \in Frame /\ Len(Commands) \in Nat /\ frame <= Len(Commands)
      BY FrameFacts DEF StreamTypeOK
  <1>3. CASE WriterBegin
      BY <1>1, <1>2, <1>3 DEF WriterBegin, PictureInv, PixelsOlder
  <1>4. CASE WriterUnflag \/ WriterReadCnt \/ WriterStoreCnt
      BY <1>1, <1>4 DEF WriterUnflag, WriterReadCnt, WriterStoreCnt, imageVars, PictureInv,
                        PixelsOlder
  <1>5. ASSUME NEW b \in Act, WriterPixel(b)
        PROVE  PictureInv' /\ PixelsOlder(pix, pix')
    <2>1. /\ wpc = "pixels" /\ b \in todo /\ todo' = todo \ {b} /\ UNCHANGED <<wpc, frame>>
          /\ pix' = [pix EXCEPT ![b] = Commands[frame][b]]
        BY <1>5 DEF WriterPixel
    <2>2. frame \in DOMAIN Commands
        BY <1>2, <2>1, FrameFacts DEF StreamTypeOK
    <2>3. FrameOf(b, Convert(pix'[b])) = frame
        BY <1>2, <2>1, <2>2, FrameOfWord DEF Frame
    <2>4. \A a \in Act : a # b => pix'[a] = pix[a]
        BY <1>2, <2>1 DEF Frame
    <2>5. FrameOf(b, Convert(pix[b])) < frame
        BY <2>1 DEF PictureInv
    <2>6. ASSUME NEW a \in Act
          PROVE  /\ FrameOf(a, Convert(pix'[a])) <= frame
                 /\ a \in todo' => FrameOf(a, Convert(pix'[a])) < frame
                 /\ FrameOf(a, Convert(pix[a])) <= FrameOf(a, Convert(pix'[a]))
      <3>1. CASE a = b
          BY <1>1, <1>2, <2>1, <2>3, <2>5, <3>1
      <3>2. CASE a # b
        <4>1. pix'[a] = pix[a]
            BY <2>4, <3>2
        <4>2. /\ FrameOf(a, Convert(pix[a])) <= frame
              /\ a \in todo => FrameOf(a, Convert(pix[a])) < frame
            BY <2>1 DEF PictureInv
        <4> QED BY <1>1, <2>1, <4>1, <4>2
      <3> QED BY <3>1, <3>2
    <2> QED BY <2>1, <2>6 DEF PictureInv, PixelsOlder
  <1> QED BY <1>3, <1>4, <1>5 DEF WriterStep

(* What the loop copies is no newer than the image and no older than what  *)
(* it had.                                                                 *)
LEMMA MainCopies ==
  ASSUME TypeOK, CopyInv, Awake, MainAlone
  PROVE  /\ CopyInv'
         /\ Older(sActValue, sActValue')
         /\ sActValue' = sActValue \/ (mpc = "copy" /\ mpc' = "send")
  <1> USE DEF TypeOK
  <1>1. Main /\ pix' = pix
      BY ImageStays DEF MainAlone
  <1>2. PICK v : v = sActValue
      OBVIOUS
  <1>3. PICK t \in Frame : t = temp
      BY DEF LoopTypeOK
  <1>4. PICK p : p = pix
      OBVIOUS
  <1>5. Older(v, Mapped(t)) /\ PixelsOlder(t, p)
      BY <1>2, <1>3, <1>4 DEF CopyInv
  <1>6. CASE UNCHANGED <<temp, sActValue>>
      BY <1>1, <1>6, OlderOrders DEF CopyInv
  <1>7. CASE CopyPixel
    <2>1. mi \in Act
        BY DEF LoopTypeOK
    <2>2. PICK q : q = [t EXCEPT ![mi] = p[mi]]
        OBVIOUS
    <2>3. temp' = q
        BY <1>3, <1>4, <1>7, <2>2 DEF CopyPixel
    <2>4. PixelsOlder(t, q) /\ PixelsOlder(q, p)
        BY <1>5, <2>1, <2>2, PixelsUpdate
    <2>5. Older(v, Mapped(q))
        BY <1>5, <2>4, MappedOlder, OlderOrders
    <2>6. \/ sActValue' = v
          \/ sActValue' = Mapped(q) /\ mpc = "copy" /\ mpc' = "send"
        BY <1>2, <1>7, <2>3 DEF CopyPixel
    <2>7. Older(v, sActValue') /\ Older(sActValue', Mapped(q))
        BY <2>5, <2>6, OlderOrders
    <2> QED BY <1>1, <1>2, <1>4, <2>3, <2>4, <2>6, <2>7 DEF CopyInv
  <1>8. UNCHANGED <<temp, sActValue>> \/ CopyPixel
      BY <1>1 DEF Main, LoopStep, OpenFifo, EnterLoop, CheckStatus, Gate, Sent, Idle, ZeroPixel,
                  Unflag, ReadCnt, StoreCnt, MainWrite, Join, loopVars
  <1> QED BY <1>6, <1>7, <1>8

(* What the loop sends is in order behind what it has sent.                *)
LEMMA MainKeepsOrder ==
  ASSUME TypeOK, MainStreamInv, OrderInv, MainAlone, Older(sActValue, sActValue'),
         sActValue' = sActValue \/ (mpc = "copy" /\ mpc' = "send")
  PROVE  OrderInv'
  <1> USE DEF TypeOK
  <1>1. UNCHANGED <<dmaVars, threadVars>> /\ Alive /\ Main
      BY DEF MainAlone
  <1>2. UNCHANGED <<tpc, count, next, userBuf, iDataMode, dmaBuf, dm>>
      BY <1>1 DEF dmaVars, threadVars
  <1>3. BoardInv'
      BY <1>2 DEF OrderInv, BoardInv
  <1>4. CASE SaysNothing
    <2>1. Stream' = Stream /\ sActValue' = sActValue
        BY <1>4 DEF SaysNothing
    <2>2. Coming' = Coming
        BY <1>2, <2>1 DEF Coming
    <2> QED BY <1>2, <1>3, <2>1, <2>2 DEF OrderInv, UnderwayInv, ComingInv
  <1>5. ASSUME NEW m, Says(m)
        PROVE  OrderInv'
    <2>1. Stream' = Stream \o m /\ Stream \in Seq(Item) /\ m \in Seq(Item)
        BY <1>1, <1>5, SaysBehind
    <2>2. PICK s \in Seq(Item) : s = Stream
        BY <2>1
    <2>3. PICK lo : lo = Coming
        OBVIOUS
    <2>4. PICK hi : hi = sActValue
        OBVIOUS
    <2>5. PICK t \in Frame : t = sActValue'
      <3>1. LoopTypeOK'
          BY MainKeepsTypes DEF MainAlone
      <3>2. sActValue' \in Frame
          BY <3>1 DEF LoopTypeOK
      <3> QED BY <3>2
    <2>6. ComingInv' /\ Coming' = lo
        BY <1>1, <2>1, <2>3, ComingStays DEF OrderInv
    <2>7. Older(userBuf, lo) /\ Older(lo, hi) /\ LoadsInOrder(s, lo, hi) /\ Older(hi, t)
        BY <2>2, <2>3, <2>4, <2>5 DEF OrderInv, UnderwayInv
    <2>8. Older(lo, t)
        BY <2>7, OlderOrders
    <2>9. LoadsInOrder(s \o m, lo, t)
      <3>1. CASE mpc = "copy"
        <4>1. LoadAt(m, 0, t)
            BY <1>5, <2>5, <3>1 DEF Says
        <4> QED BY <2>1, <2>7, <4>1, InOrderSent
      <3>2. CASE mpc # "copy"
        <4>1. NoCmd(m, LOAD_CMD) /\ t = hi
            BY <1>5, <2>4, <2>5, <3>2 DEF Says
        <4> QED BY <2>1, <2>7, <4>1, InOrderBehind
      <3> QED BY <3>1, <3>2
    <2>10. UnderwayInv'
        BY <1>2, <2>1, <2>2, <2>5, <2>6, <2>7, <2>8, <2>9 DEF UnderwayInv
    <2> QED BY <1>3, <2>6, <2>10 DEF OrderInv
  <1> QED BY <1>1, <1>4, <1>5, MainSays

-----------------------------------------------------------------------------
(* Together: how far each frame has come.                                  *)
DisplayInv == OrderInv /\ CopyInv /\ PictureInv /\ Awake

(* The pixels of three pictures.                                           *)
LEMMA PixelsOrder ==
  ASSUME NEW t, NEW p, NEW q, PixelsOlder(t, p), PixelsOlder(p, q)
  PROVE  PixelsOlder(t, q)
  <1> SUFFICES ASSUME NEW a \in Act
               PROVE  FrameOf(a, Convert(t[a])) <= FrameOf(a, Convert(q[a]))
      BY DEF PixelsOlder
  <1>1. /\ FrameOf(a, Convert(t[a])) <= FrameOf(a, Convert(p[a]))
        /\ FrameOf(a, Convert(p[a])) <= FrameOf(a, Convert(q[a]))
      BY DEF PixelsOlder
  <1> QED BY <1>1, FrameOfType

(* The first state.                                                        *)
LEMMA InitDisplay ==
  ASSUME Undisturbed, FramesDiffer, Init
  PROVE  DisplayInv
  <1>1. /\ Stream = << >> /\ tpc = "setup" /\ iDataMode = 0 /\ userBuf = BootFrame
        /\ dm = ZeroFrame /\ dmaBuf = [b \in Buffers |-> BootFrame]
      BY DEF Init, FifoInit, ThreadInit, DmaInit, Stream
  <1>2. /\ temp = ZeroFrame /\ sActValue = ZeroFrame /\ pix = ZeroFrame
        /\ frame = 0 /\ wpc = "idle" /\ todo = {} /\ ~write
        /\ mpc = "opening" /\ framecnt = -1 /\ kills = 0
      BY DEF Init, StreamInit, LoopInit, ZeroFrame
  <1>3. Coming = BootFrame /\ ComingInv
      BY <1>1 DEF Coming, ComingInv
  <1>4. dmaBuf[0] = BootFrame /\ dmaBuf[1] = BootFrame
      BY <1>1 DEF Buffers
  <1>5. BoardInv
      BY <1>1, <1>4, OlderFirst, OlderOrders DEF BoardInv
  <1>6. LoadsInOrder(Stream, Coming, sActValue)
    <2>1. LoadsOf(Stream) = {}
        BY <1>1 DEF LoadsOf
    <2> QED BY <2>1 DEF LoadsInOrder
  <1>7. UnderwayInv
      BY <1>1, <1>2, <1>3, <1>6, OlderFirst, OlderOrders DEF UnderwayInv
  <1>8. ASSUME NEW a \in Act
        PROVE  FrameOf(a, Convert(pix[a])) = 0
    <2>1. Convert(pix[a]) = 0
        BY <1>2 DEF ZeroFrame, Convert
    <2> QED BY <2>1, FrameOfNone
  <1>9. PictureInv
      BY <1>2, <1>8 DEF PictureInv
  <1>10. CopyInv
      BY <1>2, <1>8, OlderFirst DEF CopyInv, PixelsOlder
  <1>11. Awake
      BY <1>2 DEF Awake
  <1> QED BY <1>3, <1>5, <1>7, <1>9, <1>10, <1>11 DEF DisplayInv, OrderInv

(* Who leaves the pipe, the thread and the loop alone keeps the order.     *)
LEMMA BystandersKeepOrder ==
  ASSUME OrderInv, WriterAlone \/ Environment \/ Terminated \/ UNCHANGED vars
  PROVE  OrderInv' /\ UNCHANGED <<temp, sActValue>>
  <1>1. UNCHANGED <<dmaVars, threadVars, sActValue>> /\ Stream' = Stream
      BY Bystanders
  <1>2. UNCHANGED <<tpc, count, next, userBuf, iDataMode, dmaBuf, dm>>
      BY <1>1 DEF dmaVars, threadVars
  <1>3. Coming' = Coming
      BY <1>1, <1>2 DEF Coming
  <1>4. ComingInv' /\ UnderwayInv'
      BY <1>1, <1>2, <1>3 DEF OrderInv, ComingInv, UnderwayInv
  <1>5. BoardInv'
      BY <1>2 DEF OrderInv, BoardInv
  <1>6. temp' = temp
      BY DEF WriterAlone, Environment, Terminated, HourPasses, vars, loopVars
  <1> QED BY <1>1, <1>4, <1>5, <1>6 DEF OrderInv

(* Every step.                                                             *)
LEMMA NextDisplay ==
  ASSUME Undisturbed, FramesDiffer, TypeOK, MainStreamInv, SentInv, DisplayInv, [Next]_vars
  PROVE  DisplayInv'
  <1>1. OrderInv /\ CopyInv /\ PictureInv /\ Awake
      BY DEF DisplayInv
  <1>2. Awake'
      BY <1>1, NextAwake
  <1>3. ASSUME UNCHANGED <<pix, wpc, frame, todo>>
        PROVE  PictureInv'
      BY <1>1, <1>3 DEF PictureInv
  <1>4. CASE ThreadAlone \/ BoardAlone
    <2>1. ThreadNext /\ UNCHANGED <<temp, sActValue>>
        BY <1>4, ThreadSteps DEF loopVars
    <2>2. UNCHANGED <<pix, wpc, frame, todo>>
        BY <1>1, <1>4, ImageStays
    <2>3. OrderInv'
        BY <1>1, <2>1, ThreadKeepsOrder
    <2>4. CopyInv'
        BY <1>1, <2>1, <2>2 DEF CopyInv
    <2> QED BY <1>2, <1>3, <2>2, <2>3, <2>4 DEF DisplayInv
  <1>5. CASE MainAlone
    <2>1. UNCHANGED <<pix, wpc, frame, todo>>
        BY <1>1, <1>5, ImageStays
    <2>2. CopyInv' /\ OrderInv'
        BY <1>1, <1>5, MainCopies, MainKeepsOrder
    <2> QED BY <1>2, <1>3, <2>1, <2>2 DEF DisplayInv
  <1>6. CASE WriterAlone
    <2>1. OrderInv' /\ UNCHANGED <<temp, sActValue>>
        BY <1>1, <1>6, BystandersKeepOrder
    <2>2. PictureInv' /\ PixelsOlder(pix, pix')
        BY <1>1, <1>6, WriterKeepsPicture DEF WriterAlone
    <2>3. PixelsOlder(temp, pix')
        BY <1>1, <2>2, PixelsOrder DEF CopyInv
    <2>4. CopyInv'
        BY <1>1, <2>1, <2>3 DEF CopyInv
    <2> QED BY <1>2, <2>1, <2>2, <2>4 DEF DisplayInv
  <1>7. CASE Environment \/ Terminated \/ UNCHANGED vars
    <2>1. OrderInv' /\ UNCHANGED <<temp, sActValue>>
        BY <1>1, <1>7, BystandersKeepOrder
    <2>2. UNCHANGED <<pix, wpc, frame, todo>>
        BY <1>1, <1>7, ImageStays
    <2>3. CopyInv'
        BY <1>1, <2>1, <2>2 DEF CopyInv
    <2> QED BY <1>2, <1>3, <2>1, <2>2, <2>3 DEF DisplayInv
  <1>8. ~Sigint /\ ~Restart
      BY <1>1 DEF Undisturbed, Sigint, Restart, Awake
  <1> QED BY <1>4, <1>5, <1>6, <1>7, <1>8 DEF Next

-----------------------------------------------------------------------------
(* Each step is one of the display or none.                                *)

(* What is to be sent has been written into the image before.              *)
LEMMA BuffersWritten ==
  ASSUME DisplayInv, NEW a \in Act
  PROVE  FrameOf(a, dmaBuf[0][DmMap[a]]) <= FrameOf(a, Convert(pix[a]))
  <1>1. /\ Older(dmaBuf[0], userBuf) /\ Older(userBuf, Coming) /\ Older(Coming, sActValue)
        /\ Older(sActValue, Mapped(temp)) /\ Older(Mapped(temp), Mapped(pix))
      BY MappedOlder DEF DisplayInv, OrderInv, BoardInv, UnderwayInv, CopyInv
  <1>2. Older(dmaBuf[0], Mapped(pix))
      BY <1>1, OlderOrders
  <1>3. FrameOf(a, dmaBuf[0][DmMap[a]]) <= FrameOf(a, Mapped(pix)[DmMap[a]])
      BY <1>2 DEF Older
  <1> QED BY <1>3, MappedWord

(* A word the board brings to the mirror.                                  *)
LEMMA WordRefreshes ==
  ASSUME TypeOK, DisplayInv, NEW i \in Act, DmaWord(i), UNCHANGED <<streamVars, loopVars>>
  PROVE  [Display!Next]_(Display!displayVars)
  <1> USE DEF TypeOK
  <1>1. PICK a \in Act : DmMap[a] = i
      BY LoopAssumption
  <1>2. UNCHANGED <<pix, mpc>>
      BY DEF streamVars, imageVars, loopVars
  <1>3. dma \in Buffers /\ dm \in Frame
      BY DEF DmaWord, ThreadTypeOK, DmaTypeOK
  <1>4. PICK b : b = dmaBuf[0]
      OBVIOUS
  <1>5. dmaBuf[dma] = b
      BY <1>3, <1>4 DEF Buffers, DisplayInv, OrderInv, BoardInv
  <1>6. dm' = [dm EXCEPT ![i] = b[i]]
      BY <1>5 DEF DmaWord
  <1>7. /\ \A c \in Act : DmMap[c] \in Act
        /\ \A c \in Act : c # a => dm'[DmMap[c]] = dm[DmMap[c]]
        /\ dm'[DmMap[a]] = b[DmMap[a]]
      BY <1>1, <1>3, <1>6, MapIsOneToOne, LoopAssumption DEF Frame
  <1>8. PICK k : k = FrameOf(a, b[DmMap[a]])
      OBVIOUS
  <1>9. k \in 0 .. Len(Commands) /\ k <= FrameOf(a, Convert(pix[a]))
      BY <1>4, <1>8, FrameOfType, BuffersWritten
  <1>10. PICK j : j = FrameOf(a, dm[DmMap[a]])
      OBVIOUS
  <1>11. j \in 0 .. Len(Commands) /\ j <= k
      BY <1>4, <1>8, <1>10, FrameOfType DEF DisplayInv, OrderInv, BoardInv, Older
  <1> DEFINE shown == [c \in Act |-> FrameOf(c, dm[DmMap[c]])]
             shownNext == [c \in Act |-> FrameOf(c, dm'[DmMap[c]])]
             published == [c \in Act |-> FrameOf(c, Convert(pix[c]))]
  <1>12. shownNext = [shown EXCEPT ![a] = k]
      BY <1>7, <1>8
  <1>13. shown[a] = j /\ published[a] = FrameOf(a, Convert(pix[a]))
      BY <1>10
  <1>14. /\ [c \in Act |-> FrameOf(c, Convert(pix'[c]))] = published
         /\ Running' = Running
      BY <1>2 DEF Running
  <1>15. CASE j = k
    <2>1. shownNext = shown
        BY <1>12, <1>13, <1>15
    <2> QED BY <1>14, <2>1 DEF Display!displayVars
  <1>16. CASE j < k
    <2>1. shown[a] < k /\ k <= published[a] /\ k \in Display!FrameNumbers
        BY <1>9, <1>13, <1>16 DEF Display!FrameNumbers
    <2>2. Display!Refresh(a)
        BY <1>12, <1>14, <2>1 DEF Display!Refresh
    <2> QED BY <2>2 DEF Display!Next
  <1> QED BY <1>9, <1>11, <1>15, <1>16

(* A pixel the writer stores.                                              *)
LEMMA PixelPublishes ==
  ASSUME FramesDiffer, TypeOK, DisplayInv, NEW a \in Act, WriterPixel(a),
         UNCHANGED <<dm, mpc>>
  PROVE  Display!Next
  <1> USE DEF TypeOK
  <1>1. /\ frame > 0 /\ pix \in Frame /\ wpc = "pixels" /\ a \in todo
        /\ frame \in 0 .. Len(Commands) /\ pix' = [pix EXCEPT ![a] = Commands[frame][a]]
      BY DEF WriterPixel, StreamTypeOK
  <1>2. frame \in DOMAIN Commands
      BY <1>1, FrameFacts
  <1>3. /\ FrameOf(a, Convert(pix'[a])) = frame
        /\ \A b \in Act : b # a => pix'[b] = pix[b]
      BY <1>1, <1>2, FrameOfWord DEF Frame
  <1>4. FrameOf(a, Convert(pix[a])) < frame
      BY <1>1 DEF DisplayInv, PictureInv
  <1> DEFINE published == [c \in Act |-> FrameOf(c, Convert(pix[c]))]
             publishedNext == [c \in Act |-> FrameOf(c, Convert(pix'[c]))]
  <1>5. publishedNext = [published EXCEPT ![a] = frame]
      BY <1>3
  <1>6. frame > published[a] /\ frame \in Display!FrameNumbers
      BY <1>1, <1>4 DEF Display!FrameNumbers
  <1>7. /\ [c \in Act |-> FrameOf(c, dm'[DmMap[c]])] = [c \in Act |-> FrameOf(c, dm[DmMap[c]])]
        /\ Running' = Running
      BY DEF Running
  <1>8. Display!Publish(a)
      BY <1>5, <1>6, <1>7 DEF Display!Publish
  <1> QED BY <1>8 DEF Display!Next

(* A step that changes neither the image nor the mirror.                   *)
LEMMA OthersSwitch ==
  ASSUME UNCHANGED <<dm, pix>>
  PROVE  [Display!Next]_(Display!displayVars)
  <1>1. /\ [c \in Act |-> FrameOf(c, dm'[DmMap[c]])] = [c \in Act |-> FrameOf(c, dm[DmMap[c]])]
        /\ [c \in Act |-> FrameOf(c, Convert(pix'[c]))] = [c \in Act |-> FrameOf(c, Convert(pix[c]))]
      OBVIOUS
  <1>2. CASE Running' = Running
      BY <1>1, <1>2 DEF Display!displayVars
  <1>3. CASE Running' = ~Running
      BY <1>1, <1>3 DEF Display!Switch, Display!Next
  <1>4. Running' \in BOOLEAN /\ Running \in BOOLEAN
      BY DEF Running
  <1> QED BY <1>2, <1>3, <1>4

(* Every step.                                                             *)
LEMMA NextShows ==
  ASSUME Undisturbed, FramesDiffer, TypeOK, MainStreamInv, SentInv, DisplayInv, [Next]_vars
  PROVE  [Display!Next]_(Display!displayVars)
  <1>1. Awake
      BY DEF DisplayInv
  <1>2. CASE BoardAlone
    <2>1. HardwareStep /\ UNCHANGED <<streamVars, loopVars>>
        BY <1>2 DEF BoardAlone
    <2>2. (\E i \in Act : DmaWord(i)) \/ dm' = dm
        BY <2>1 DEF HardwareStep, DmaNext, DmaEnd, DmaDoneNotifier
    <2>3. pix' = pix
        BY <2>1 DEF streamVars, imageVars
    <2> QED BY <2>1, <2>2, <2>3, WordRefreshes, OthersSwitch
  <1>3. CASE ThreadAlone
    <2>1. pix' = pix
        BY <1>3 DEF ThreadAlone, streamVars, imageVars
    <2>2. dm' = dm
        BY <1>3, ThreadLeavesMirror DEF ThreadAlone
    <2> QED BY <2>1, <2>2, OthersSwitch
  <1>4. CASE MainAlone
    <2>1. pix' = pix /\ dm' = dm
        BY <1>1, <1>4, ImageStays DEF MainAlone, dmaVars
    <2> QED BY <2>1, OthersSwitch
  <1>5. CASE WriterAlone
    <2>1. WriterStep /\ UNCHANGED <<dm, mpc>>
        BY <1>5 DEF WriterAlone, dmaVars, loopVars
    <2>2. (\E a \in Act : WriterPixel(a)) \/ pix' = pix
        BY <2>1 DEF WriterStep, WriterBegin, WriterUnflag, WriterReadCnt, WriterStoreCnt,
                    imageVars
    <2> QED BY <2>1, <2>2, PixelPublishes, OthersSwitch
  <1>6. CASE Environment \/ Terminated \/ UNCHANGED vars
    <2>1. dm' = dm
        BY <1>6, Bystanders DEF dmaVars
    <2>2. pix' = pix
        BY <1>1, <1>6, ImageStays
    <2> QED BY <2>1, <2>2, OthersSwitch
  <1>7. ~Sigint /\ ~Restart
      BY <1>1 DEF Undisturbed, Sigint, Restart, Awake
  <1> QED BY <1>2, <1>3, <1>4, <1>5, <1>6, <1>7 DEF Next

(* The mirror shows, actuator by actuator, frames in the order in which    *)
(* they were published in dmvolt, none before it was written and none      *)
(* after a newer one, however writer, loop, thread and board interleave:   *)
(* the safety part of DmDisplay, for every number of actuators, size of    *)
(* the pipe and sequence of frames.                                        *)
THEOREM ShowsFramesInOrder ==
  ASSUME Undisturbed, FramesDiffer
  PROVE  Spec => Display!InOrder
  <1>1. Init => SentInv /\ DisplayInv
    <2> SUFFICES ASSUME Init
                 PROVE  SentInv /\ DisplayInv
        OBVIOUS
    <2>1. /\ Stream = << >> /\ tpc = "setup" /\ iDataMode = 0
          /\ framecnt = -1 /\ mpc = "opening"
        BY DEF Init, FifoInit, ThreadInit, LoopInit, Stream
    <2> QED BY <2>1, NothingSentYet, InitDisplay
  <1>2. TypeOK /\ MainStreamInv /\ SentInv /\ DisplayInv /\ [Next]_vars
          => SentInv' /\ DisplayInv'
      BY NextSent, NextDisplay
  <1>3. Init => Display!Init
    <2> SUFFICES ASSUME Init
                 PROVE  Display!Init
        OBVIOUS
    <2>1. /\ dm = ZeroFrame /\ pix = ZeroFrame /\ ~Running
        BY DEF Init, DmaInit, StreamInit, LoopInit, ZeroFrame, Running
    <2>2. ASSUME NEW a \in Act
          PROVE  FrameOf(a, dm[DmMap[a]]) = 0 /\ FrameOf(a, Convert(pix[a])) = 0
      <3>1. DmMap[a] \in Act
          BY LoopAssumption
      <3>2. dm[DmMap[a]] = 0 /\ Convert(pix[a]) = 0
          BY <2>1, <3>1 DEF ZeroFrame, Convert
      <3> QED BY <3>2, FrameOfNone
    <2>3. /\ [a \in Act |-> FrameOf(a, dm[DmMap[a]])] = [a \in Act |-> 0]
          /\ [a \in Act |-> FrameOf(a, Convert(pix[a]))] = [a \in Act |-> 0]
        BY <2>2
    <2>4. Running = FALSE
        BY <2>1 DEF Running
    <2> QED BY <2>3, <2>4 DEF Display!Init
  <1>4. TypeOK /\ MainStreamInv /\ SentInv /\ DisplayInv /\ [Next]_vars
          => [Display!Next]_(Display!displayVars)
      BY NextShows
  <1> QED BY <1>1, <1>2, <1>3, <1>4, StreamAlways, PTL DEF Spec, Display!InOrder
=============================================================================
