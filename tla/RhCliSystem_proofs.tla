-------------------------- MODULE RhCliSystem_proofs --------------------------
(***************************************************************************)
(* Safety of rhcli for any number of actuators, any capacity of the pipe,  *)
(* any files, and any number of lines: the client keeps its variables and  *)
(* what it writes in their types, and touches nothing of the thread or of  *)
(* the board, whose own lemmas are in FramingThread_proofs.  What it does  *)
(* to the thread it does through the stream of messages: each is a whole   *)
(* command, has a RUN only when the menu says so, and a LOAD only of the   *)
(* table, from which the theorems on InSync, Run and the buffers follow.   *)
(***************************************************************************)
EXTENDS RhCliSystem, FramingThread_proofs

CliStep == CliLoop \/ User

-----------------------------------------------------------------------------
(* The client keeps the pipe and its own variables in their types.         *)

(* FindActuatorIndex finds an actuator.                                    *)
LEMMA FoundActuator == \A a \in Act : FindActuatorIndex(a) \in Act
  BY CliAssumption DEF FindActuatorIndex

(* A line that types msgs.                                                 *)
LEMMA LineType ==
  ASSUME FifoTypeOK, CliTypeOK, NEW new \in {STATE_RUN, STATE_STOP}, NEW msgs \in Seq(Item),
         Line(new, msgs), end' \in BOOLEAN, sActValue' \in Frame
  PROVE  FifoTypeOK' /\ CliTypeOK'
  <1>1. FifoTypeOK'
      BY DEF Line, FifoTypeOK
  <1>2. lines' \in 0 .. MaxLines
      BY CliAssumption DEF Line, CliTypeOK
  <1> QED BY <1>1, <1>2 DEF Line, CliTypeOK

(* The voltage of a poke, as an unsigned short, is at most 300.            *)
LEMMA PokeWordType ==
  ASSUME NEW value \in Nat, value <= 300
  PROVE  (value * MaxWord) \div 300 \in Word
  <1>1. (value * 65535) \div 300 \in Nat /\ (value * 65535) \div 300 <= 65535
      OBVIOUS
  <1> DEFINE word == (value * MaxWord) \div 300
  <1>2. word \in Nat /\ word <= MaxWord
      BY <1>1 DEF MaxWord
  <1> HIDE DEF word
  <1>3. word \in Word
      BY <1>2, WordBound DEF Word
  <1> QED BY <1>3 DEF word

(* A line that changes nothing of the client but, perhaps, iState.         *)
LEMMA PlainLineType ==
  ASSUME FifoTypeOK, CliTypeOK, NEW new \in {STATE_RUN, STATE_STOP}, NEW msgs \in Seq(Item),
         Line(new, msgs), UNCHANGED <<end, sActValue>>
  PROVE  FifoTypeOK' /\ CliTypeOK'
  <1>1. end' \in BOOLEAN /\ sActValue' \in Frame
      BY DEF CliTypeOK
  <1> QED BY <1>1, LineType

(* A line without a new state.                                             *)
LEMMA AnyLineType ==
  ASSUME FifoTypeOK, CliTypeOK, NEW msgs \in Seq(Item), AnyLine(msgs) \/ StoppedLine(msgs)
  PROVE  FifoTypeOK' /\ CliTypeOK'
  <1>1. iState \in {STATE_RUN, STATE_STOP}
      BY DEF CliTypeOK
  <1>2. Line(iState, msgs) /\ UNCHANGED <<end, sActValue>>
      BY DEF AnyLine, StoppedLine
  <1> QED BY <1>1, <1>2, PlainLineType

(* What a load sends and what it leaves in the table.                      *)
LEMMA LoadLineTable ==
  ASSUME CliTypeOK, LoadLine
  PROVE  \E s \in 0 .. NumAct, table \in Frame :
           /\ Line(iState, LoadMsg(SubSeq(table, 1, s)))
           /\ sActValue' = table
           /\ SubSeq(table, 1, s) \in Seq(Word) /\ Len(SubSeq(table, 1, s)) = s
           /\ (\A file \in Files : Len(file) >= NumAct) => s = NumAct
  <1>1. PICK file \in Files :
          LET s     == IF Len(file) < NumAct THEN Len(file) ELSE NumAct
              table == [i \in Act |-> IF ActMap[i] <= s THEN file[ActMap[i]] ELSE sActValue[i]]
          IN /\ Line(iState, LoadMsg(SubSeq(table, 1, s)))
             /\ sActValue' = table
             /\ UNCHANGED end
      BY DEF LoadLine
  <1> DEFINE s     == IF Len(file) < NumAct THEN Len(file) ELSE NumAct
             table == [i \in Act |-> IF ActMap[i] <= s THEN file[ActMap[i]] ELSE sActValue[i]]
  <1>2. file \in Seq(Word) /\ Len(file) \in Nat /\ NumAct \in Nat
      BY CliAssumption, FifoAssumption
  <1>3. s \in 0 .. NumAct /\ s <= Len(file)
      BY <1>2
  <1>4. ASSUME NEW i \in Act
        PROVE  table[i] \in Word
    <2>1. ActMap[i] \in 1 .. NumAct
        BY CliAssumption DEF Act
    <2>2. sActValue[i] \in Word
        BY DEF CliTypeOK, Frame
    <2>3. ActMap[i] <= s => file[ActMap[i]] \in Word
        BY <1>2, <1>3, <2>1
    <2> QED BY <2>2, <2>3
  <1>5. table \in Frame
      BY <1>4 DEF Frame
  <1>6. (\A f \in Files : Len(f) >= NumAct) => s = NumAct
      BY <1>2
  <1>7. Line(iState, LoadMsg(SubSeq(table, 1, s))) /\ sActValue' = table
      BY <1>1
  <1> HIDE DEF s, table
  <1>8. SubSeq(table, 1, s) \in Seq(Word) /\ Len(SubSeq(table, 1, s)) = s
    <2>1. 1 \in Int /\ s \in Int
        BY <1>3
    <2>2. \A i \in 1 .. s : table[i] \in Word
        BY <1>2, <1>3, <1>5 DEF Frame, Act
    <2>3. Len(SubSeq(table, 1, s)) = IF 1 <= s THEN s - 1 + 1 ELSE 0
        BY <2>1, <2>2, SubSeqProperties
    <2> QED BY <1>2, <1>3, <2>1, <2>2, <2>3, SubSeqProperties
  <1> QED
    <2>1. \E t \in Frame :
           /\ Line(iState, LoadMsg(SubSeq(t, 1, s)))
           /\ sActValue' = t
           /\ SubSeq(t, 1, s) \in Seq(Word) /\ Len(SubSeq(t, 1, s)) = s
           /\ (\A f \in Files : Len(f) >= NumAct) => s = NumAct
        BY <1>5, <1>6, <1>7, <1>8
    <2> QED BY <1>3, <2>1

(* The index and the voltage word of a poke.                               *)
LEMMA PokeLineWords ==
  ASSUME PokeLine
  PROVE  \E index \in Word, word \in Word : AnyLine(PokeMsg(index, word))
  <1>1. PICK a \in Act, typed \in Volts :
          /\ typed % 65536 <= 300
          /\ AnyLine(PokeMsg(FindActuatorIndex(a) - 1, ((typed % 65536) * MaxWord) \div 300))
      BY DEF PokeLine
  <1>2. FindActuatorIndex(a) - 1 \in Word
    <2>1. FindActuatorIndex(a) \in 1 .. NumAct
        BY FoundActuator DEF Act
    <2>2. FindActuatorIndex(a) - 1 \in 0 .. NumAct
        BY <2>1, FifoAssumption
    <2> QED BY <2>2, ActIsWord
  <1>3. typed % 65536 \in Nat
      BY CliAssumption
  <1>4. ((typed % 65536) * MaxWord) \div 300 \in Word
    <2> DEFINE value == typed % 65536
    <2>1. value \in Nat /\ value <= 300
        BY <1>1, <1>3
    <2> HIDE DEF value
    <2>2. (value * MaxWord) \div 300 \in Word
        BY <2>1, PokeWordType
    <2> QED BY <2>2 DEF value
  <1> QED BY <1>1, <1>2, <1>4

(* A load keeps the types.                                                 *)
LEMMA LoadLineType ==
  ASSUME FifoTypeOK, CliTypeOK, LoadLine
  PROVE  FifoTypeOK' /\ CliTypeOK'
  <1>1. PICK s \in 0 .. NumAct, table \in Frame :
           /\ Line(iState, LoadMsg(SubSeq(table, 1, s)))
           /\ sActValue' = table
           /\ SubSeq(table, 1, s) \in Seq(Word) /\ Len(SubSeq(table, 1, s)) = s
      BY LoadLineTable
  <1>2. Len(SubSeq(table, 1, s)) \in Word
      BY <1>1, ActIsWord
  <1>3. LoadMsg(SubSeq(table, 1, s)) \in Seq(Item)
      BY <1>1, <1>2, LoadType
  <1>4. UNCHANGED end
      BY DEF LoadLine
  <1>5. iState \in {STATE_RUN, STATE_STOP} /\ end' \in BOOLEAN /\ sActValue' \in Frame
      BY <1>1, <1>4 DEF CliTypeOK
  <1> QED BY <1>1, <1>3, <1>5, LineType

(* Every line the user may type...                                         *)
LEMMA CliCommandKeepsTypes ==
  ASSUME FifoTypeOK, CliTypeOK, CliCommand
  PROVE  FifoTypeOK' /\ CliTypeOK'
  <1> USE FifoTypeOK, CliTypeOK
  <1>1. CASE RunLine \/ StopLine
    <2>1. <<Cmd(RUN_CMD)>> \in Seq(Item) /\ <<Cmd(STOP_CMD)>> \in Seq(Item)
        BY SmallMsgTypes DEF RUN_CMD, STOP_CMD
    <2> QED BY <1>1, <2>1, PlainLineType DEF RunLine, StopLine
  <1>2. CASE StepLine \/ ClearLine \/ TestLine
    <2>1. /\ <<Cmd(STEP_CMD)>> \in Seq(Item)
          /\ <<Cmd(CLEAR_CMD)>> \in Seq(Item)
          /\ <<Cmd(TEST_CMD)>> \in Seq(Item)
        BY SmallMsgTypes DEF STEP_CMD, CLEAR_CMD, TEST_CMD
    <2> QED BY <1>2, <2>1, AnyLineType DEF StepLine, ClearLine, TestLine
  <1>3. CASE FramerateLine
    <2>1. PICK rate \in Rates : rate \in 10 .. 1000 /\ StoppedLine(FramerateMsg(rate))
        BY <1>3 DEF FramerateLine
    <2>2. rate \in Word
        BY <2>1, SmallWord
    <2>3. FramerateMsg(rate) \in Seq(Item)
        BY <2>2, SmallMsgTypes
    <2> QED BY <2>1, <2>3, AnyLineType
  <1>4. CASE PstrobeLine
    <2>1. PICK mhz \in Rates : mhz \in 10 .. 50 /\ StoppedLine(StrobeMsg(mhz, 0))
        BY <1>4 DEF PstrobeLine
    <2>2. mhz \in Word /\ 0 \in Word
        BY <2>1, SmallWord
    <2>3. StrobeMsg(mhz, 0) \in Seq(Item)
        BY <2>2, SmallMsgTypes
    <2> QED BY <2>1, <2>3, AnyLineType
  <1>5. CASE FstrobeLine
    <2>1. 50 \in Word /\ 1 \in Word
        BY SmallWord
    <2>2. StrobeMsg(50, 1) \in Seq(Item)
        BY <2>1, SmallMsgTypes
    <2> QED BY <1>5, <2>2, AnyLineType DEF FstrobeLine
  <1>6. CASE HalterrLine
    <2>1. 0 \in Word /\ 1 \in Word
        BY SmallWord
    <2>2. HalterrMsg(0) \in Seq(Item) /\ HalterrMsg(1) \in Seq(Item)
        BY <2>1, SmallMsgTypes
    <2> QED BY <1>6, <2>2, AnyLineType DEF HalterrLine
  <1>7. CASE PokeLine
    <2>1. PICK index \in Word, word \in Word : AnyLine(PokeMsg(index, word))
        BY <1>7, PokeLineWords
    <2>2. PokeMsg(index, word) \in Seq(Item)
        BY SmallMsgTypes
    <2> QED BY <2>1, <2>2, AnyLineType
  <1>8. CASE LoadLine
      BY <1>8, LoadLineType
  <1>9. CASE QuitLine
    <2>1. Line(iState, << >>) /\ end' = TRUE /\ UNCHANGED sActValue
        BY <1>9 DEF QuitLine
    <2>2. iState \in {STATE_RUN, STATE_STOP} /\ << >> \in Seq(Item) /\ sActValue' \in Frame
        BY <2>1 DEF CliTypeOK
    <2> QED BY <2>1, <2>2, LineType
  <1> QED BY <1>1, <1>2, <1>3, <1>4, <1>5, <1>6, <1>7, <1>8, <1>9 DEF CliCommand

(* ... and every other step of main.                                       *)
LEMMA CliKeepsTypes ==
  ASSUME FifoTypeOK, CliTypeOK, CliStep
  PROVE  FifoTypeOK' /\ CliTypeOK'
  <1> USE FifoTypeOK, CliTypeOK
  <1>1. CASE OpenFifo(ReaderOpen)
    <2>1. 1000 \in Word
        BY SmallWord
    <2>2. StartupMsgs(1000) \in Seq(Item)
        BY <2>1, StartupType
    <2> QED BY <1>1, <2>2 DEF OpenFifo, FifoTypeOK, CliTypeOK
  <1>2. CASE CliWrite
      BY <1>2, ClientWriteType DEF CliWrite, CliTypeOK, cliVars
  <1>3. CASE LoopTest
    <2>1. <<Cmd(TERM_CMD)>> \in Seq(Item)
        BY SmallMsgTypes DEF TERM_CMD
    <2>2. out' \in Seq(Item) /\ cpc' \in {"joining", "prompt"}
        BY <1>3, <2>1 DEF LoopTest, FifoTypeOK
    <2> QED BY <1>3, <2>2 DEF LoopTest, FifoTypeOK, CliTypeOK
  <1>4. CASE Join(ThreadOver)
      BY <1>4 DEF Join, FifoTypeOK, CliTypeOK, fifoVars
  <1>5. CASE Sigint
      BY <1>5 DEF Sigint, FifoTypeOK, CliTypeOK, fifoVars
  <1> QED BY <1>1, <1>2, <1>3, <1>4, <1>5, CliCommandKeepsTypes DEF CliStep, CliLoop, User

-----------------------------------------------------------------------------
(* The first state of the program.                                         *)
LEMMA InitTypes == Init => TypeOK
  <1> SUFFICES ASSUME Init
               PROVE  TypeOK
      OBVIOUS
  <1>1. FifoTypeOK
      BY FifoAssumption DEF Init, FifoInit, FifoTypeOK
  <1>3. 0 \in Word
      BY SmallWord
  <1>4. ThreadTypeOK
      BY InitialThreadTypes DEF Init
  <1>5. CliTypeOK
    <2>1. sActValue \in Frame /\ lines \in 0 .. MaxLines
        BY <1>3, CliAssumption DEF Init, CliInit, Frame
    <2>2. end \in BOOLEAN
        BY DEF Init, CliInit
    <2>3. cpc = "opening" /\ iState = STATE_STOP
        BY DEF Init, CliInit
    <2> QED BY <2>1, <2>2, <2>3 DEF CliTypeOK
  <1> QED BY <1>1, <1>4, <1>5 DEF TypeOK

(* A step of the program is one of the thread, of main or of the user.     *)
LEMMA NextTypes ==
  ASSUME TypeOK, [Next]_vars
  PROVE  TypeOK'
  <1> USE TypeOK DEF TypeOK
  <1>1. CASE ThreadNext /\ UNCHANGED cliVars
      BY <1>1, ThreadKeepsTypes DEF CliTypeOK, cliVars
  <1>2. CASE (CliLoop \/ User) /\ UNCHANGED <<dmaVars, threadVars>>
    <2>1. FifoTypeOK' /\ CliTypeOK'
        BY <1>2, CliKeepsTypes DEF CliStep
    <2>2. ThreadTypeOK'
        BY <1>2 DEF ThreadTypeOK, DmaTypeOK, dmaVars, threadVars
    <2> QED BY <2>1, <2>2
  <1>3. CASE UNCHANGED vars
      BY <1>3 DEF vars, fifoVars, dmaVars, threadVars, cliVars, FifoTypeOK, ThreadTypeOK,
                  DmaTypeOK, CliTypeOK
  <1> QED BY <1>1, <1>2, <1>3 DEF Next, Terminated

(* Every variable of rhcli keeps its type: no voltage word, count or rate  *)
(* leaves the sixteen bits it has in the pipe, however wide the input.     *)
THEOREM TypeCorrect == Spec => []TypeOK
  <1>1. TypeOK /\ [Next]_vars => TypeOK'
      BY NextTypes
  <1> QED BY InitTypes, <1>1, PTL DEF Spec

-----------------------------------------------------------------------------
(* The frame and the step invariants of the thread, in this program.       *)
LEMMA NextFrames ==
  ASSUME TypeOK, FrameInv, StepInv, [Next]_vars
  PROVE  FrameInv' /\ StepInv'
  <1> USE TypeOK, FrameInv, StepInv
  <1>1. CASE ThreadNext
      BY <1>1, ThreadKeepsFrame, ThreadKeepsStep DEF TypeOK
  <1>2. CASE UNCHANGED <<dmaVars, threadVars>>
      BY <1>2 DEF dmaVars, threadVars, FrameInv, SemDiscipline, NothingSent, WholeFrame, StepInv
  <1> QED BY <1>1, <1>2 DEF Next, Terminated, vars

(* By induction, on top of the types.                                      *)
LEMMA FramesAlways == Spec => [](FrameInv /\ StepInv)
  <1>1. Init => FrameInv /\ StepInv
      BY FrameInvInit, StepInvInit DEF Init
  <1>2. TypeOK /\ FrameInv /\ StepInv /\ [Next]_vars => FrameInv' /\ StepInv'
      BY NextFrames
  <1> QED BY <1>1, <1>2, TypeCorrect, PTL DEF Spec

(* Every DMA transfer has one post of dmaDoneSemaphore_out and one wait,   *)
(* whatever the client sends and when.                                     *)
THEOREM SemaphoreDiscipline == Spec => []SemDiscipline
  <1>1. FrameInv => SemDiscipline
      BY DEF FrameInv
  <1> QED BY FramesAlways, <1>1, PTL

(* No command overwrites a DMA buffer while the board is sending it.       *)
THEOREM FramesAreWhole == Spec => []WholeFrame
  <1>1. FrameInv => WholeFrame
      BY DEF FrameInv
  <1> QED BY FramesAlways, <1>1, PTL

(* A requested step never survives the tick in which it was read.          *)
THEOREM StepsAreNotCarriedOver == Spec => []StepNotCarriedOver
  BY FramesAlways, StepInvImplies, PTL

-----------------------------------------------------------------------------
(* What main writes, a message at a time.                                  *)

(* Main writes nothing at its prompt, and the stream is in order.          *)
CliStreamInv == StreamInv /\ (cpc \in {"opening", "prompt"} => out = << >>)

(* Main begins to write m.  The message has a RUN only when the menu says  *)
(* so from now on, and it has a LOAD only when the table is the one sent.  *)
Says(m) == /\ out = << >> /\ fifo' = fifo /\ out' = m
           /\ Message(m)
           /\ cpc' \notin {"opening", "prompt"}
           /\ \/ iState' = STATE_RUN
              \/ /\ NoCmd(m, RUN_CMD)
                 /\ \/ iState' = iState /\ cpc # "opening"
                    \/ Len(m) >= 1 /\ m[1] = Cmd(STOP_CMD)
           /\ (NoCmd(m, LOAD_CMD) /\ UNCHANGED sActValue) \/ LoadLine

(* Main begins to write nothing.                                           *)
SaysNothing == /\ Stream' = Stream
               /\ UNCHANGED <<iState, sActValue>>
               /\ cpc' = "opening" <=> cpc = "opening"
               /\ cpc' \in {"opening", "prompt"} => out' = << >>

(* A line that is not a load.                                              *)
LEMMA LineSays ==
  ASSUME CliStreamInv, NEW new, NEW m, Line(new, m), UNCHANGED sActValue,
         Message(m), NoCmd(m, LOAD_CMD),
         \/ new = STATE_RUN
         \/ /\ NoCmd(m, RUN_CMD)
            /\ new = iState \/ (Len(m) >= 1 /\ m[1] = Cmd(STOP_CMD))
  PROVE  \E k : Says(k)
  <1>1. Says(m)
      BY DEF Says, Line, CliStreamInv
  <1> QED BY <1>1

(* A line without a new state and without a load.                          *)
LEMMA AnyLineSays ==
  ASSUME CliStreamInv, NEW m, AnyLine(m) \/ StoppedLine(m),
         Message(m), NoCmd(m, LOAD_CMD), NoCmd(m, RUN_CMD)
  PROVE  \E k : Says(k)
  <1>1. Line(iState, m) /\ UNCHANGED sActValue
      BY DEF AnyLine, StoppedLine
  <1> QED BY <1>1, LineSays

(* A line with one of the commands that have no arguments.                 *)
LEMMA PlainLineSays ==
  ASSUME CliStreamInv, NEW c \in {STEP_CMD, CLEAR_CMD, TEST_CMD},
         AnyLine(<<Cmd(c)>>) \/ StoppedLine(<<Cmd(c)>>)
  PROVE  \E k : Says(k)
  <1>1. c \in PlainCommands /\ c # LOAD_CMD /\ c # RUN_CMD
      BY DEF PlainCommands, STEP_CMD, CLEAR_CMD, TEST_CMD, LOAD_CMD, RUN_CMD
  <1>2. Message(<<Cmd(c)>>) /\ NoCmd(<<Cmd(c)>>, LOAD_CMD) /\ NoCmd(<<Cmd(c)>>, RUN_CMD)
      BY <1>1, PlainMessage, PlainNo
  <1> QED BY <1>2, AnyLineSays

(* What a load sends is a whole command without a RUN.                     *)
LEMMA LoadLineSays ==
  ASSUME TypeOK, CliStreamInv, LoadLine
  PROVE  \E k : Says(k)
  <1>1. PICK s \in 0 .. NumAct, table \in Frame :
           /\ Line(iState, LoadMsg(SubSeq(table, 1, s)))
           /\ SubSeq(table, 1, s) \in Seq(Word) /\ Len(SubSeq(table, 1, s)) = s
      BY LoadLineTable DEF TypeOK
  <1>2. Len(SubSeq(table, 1, s)) \in Word
      BY <1>1, ActIsWord
  <1>3. LOAD_CMD # RUN_CMD
      BY DEF LOAD_CMD, RUN_CMD
  <1> DEFINE m == LoadMsg(SubSeq(table, 1, s))
  <1>4. Message(m) /\ NoCmd(m, RUN_CMD)
      BY <1>1, <1>2, <1>3, LoadMessage, LoadNo
  <1>5. Line(iState, m)
      BY <1>1
  <1> HIDE DEF m
  <1>6. Says(m)
      BY <1>4, <1>5 DEF Says, Line, CliStreamInv
  <1> QED BY <1>6

(* Every line of the user says something...                                *)
LEMMA CommandSays ==
  ASSUME TypeOK, CliStreamInv, CliCommand
  PROVE  \E k : Says(k)
  <1> USE TypeOK, CliStreamInv
  <1>c. /\ LOAD_CMD \notin {RUN_CMD, STOP_CMD, HALTERR_CMD, FRAMERATE_CMD, STROBE_CMD, POKE_CMD}
        /\ RUN_CMD \notin {STOP_CMD, HALTERR_CMD, FRAMERATE_CMD, STROBE_CMD, POKE_CMD}
        /\ RUN_CMD \in PlainCommands /\ STOP_CMD \in PlainCommands
      BY DEF PlainCommands, LOAD_CMD, RUN_CMD, STOP_CMD, HALTERR_CMD, FRAMERATE_CMD, STROBE_CMD,
             POKE_CMD
  <1>1. CASE RunLine
    <2>1. Message(<<Cmd(RUN_CMD)>>) /\ NoCmd(<<Cmd(RUN_CMD)>>, LOAD_CMD)
        BY <1>c, PlainMessage, PlainNo
    <2>2. Line(STATE_RUN, <<Cmd(RUN_CMD)>>) /\ UNCHANGED sActValue
        BY <1>1 DEF RunLine
    <2> QED BY <2>1, <2>2, LineSays
  <1>2. CASE StopLine
    <2> DEFINE m == <<Cmd(STOP_CMD)>>
    <2>1. Message(m) /\ NoCmd(m, LOAD_CMD) /\ NoCmd(m, RUN_CMD)
        BY <1>c, PlainMessage, PlainNo
    <2>2. Len(m) >= 1 /\ m[1] = Cmd(STOP_CMD)
        OBVIOUS
    <2>3. Line(STATE_STOP, m) /\ UNCHANGED sActValue
        BY <1>2 DEF StopLine
    <2> HIDE DEF m
    <2> QED BY <2>1, <2>2, <2>3, LineSays
  <1>3. CASE StepLine \/ ClearLine \/ TestLine
      BY <1>3, PlainLineSays DEF StepLine, ClearLine, TestLine
  <1>4. CASE FramerateLine
    <2>1. PICK rate \in Rates : rate \in 10 .. 1000 /\ StoppedLine(FramerateMsg(rate))
        BY <1>4 DEF FramerateLine
    <2>2. rate \in Word
        BY <2>1, SmallWord
    <2>3. /\ Message(FramerateMsg(rate)) /\ NoCmd(FramerateMsg(rate), LOAD_CMD)
          /\ NoCmd(FramerateMsg(rate), RUN_CMD)
        BY <1>c, <2>2, SettingMessages, SettingNo
    <2> QED BY <2>1, <2>3, AnyLineSays
  <1>5. CASE PstrobeLine \/ FstrobeLine
    <2>1. PICK mhz \in 10 .. 50, fix \in {0, 1} : StoppedLine(StrobeMsg(mhz, fix))
        BY <1>5 DEF PstrobeLine, FstrobeLine
    <2>2. mhz \in Word /\ fix \in Word
        BY <2>1, SmallWord
    <2>3. /\ Message(StrobeMsg(mhz, fix)) /\ NoCmd(StrobeMsg(mhz, fix), LOAD_CMD)
          /\ NoCmd(StrobeMsg(mhz, fix), RUN_CMD)
        BY <1>c, <2>2, SettingMessages, SettingNo
    <2> QED BY <2>1, <2>3, AnyLineSays
  <1>6. CASE HalterrLine
    <2>1. PICK on \in {0, 1} : AnyLine(HalterrMsg(on))
        BY <1>6 DEF HalterrLine
    <2>2. on \in Word
        BY <2>1, SmallWord
    <2>3. /\ Message(HalterrMsg(on)) /\ NoCmd(HalterrMsg(on), LOAD_CMD)
          /\ NoCmd(HalterrMsg(on), RUN_CMD)
        BY <1>c, <2>2, SettingMessages, SettingNo
    <2> QED BY <2>1, <2>3, AnyLineSays
  <1>7. CASE PokeLine
    <2>1. PICK index \in Word, word \in Word : AnyLine(PokeMsg(index, word))
        BY <1>7, PokeLineWords
    <2>2. /\ Message(PokeMsg(index, word)) /\ NoCmd(PokeMsg(index, word), LOAD_CMD)
          /\ NoCmd(PokeMsg(index, word), RUN_CMD)
        BY <1>c, <2>1, SettingMessages, SettingNo
    <2> QED BY <2>1, <2>2, AnyLineSays
  <1>8. CASE LoadLine
      BY <1>8, LoadLineSays
  <1>9. CASE QuitLine
    <2>1. Line(iState, << >>) /\ UNCHANGED sActValue
        BY <1>9 DEF QuitLine
    <2>2. Message(<< >>) /\ \A c : NoCmd(<< >>, c)
        BY NoMessage DEF NoCmd
    <2> QED BY <2>1, <2>2, LineSays
  <1> QED BY <1>1, <1>2, <1>3, <1>4, <1>5, <1>6, <1>7, <1>8, <1>9 DEF CliCommand

(* ... and so does main, or it says nothing.                               *)
LEMMA CliSays ==
  ASSUME TypeOK, CliStreamInv, CliStep
  PROVE  SaysNothing \/ \E k : Says(k)
  <1> USE TypeOK, CliStreamInv
  <1>1. CASE OpenFifo(ReaderOpen)
    <2> DEFINE m == StartupMsgs(1000)
    <2>1. 1000 \in Word
        BY SmallWord
    <2>2. Message(m) /\ Len(m) >= 1 /\ m[1] = Cmd(STOP_CMD)
        BY <2>1, StartupMessage, StartupFirst
    <2>3. NoCmd(m, LOAD_CMD) /\ NoCmd(m, RUN_CMD)
      <3>1. /\ LOAD_CMD \notin {STOP_CMD, HALTERR_CMD, FRAMERATE_CMD, STROBE_CMD}
            /\ RUN_CMD \notin {STOP_CMD, HALTERR_CMD, FRAMERATE_CMD, STROBE_CMD}
          BY DEF LOAD_CMD, RUN_CMD, STOP_CMD, HALTERR_CMD, FRAMERATE_CMD, STROBE_CMD
      <3> QED BY <2>1, <3>1, StartupNo
    <2>4. out' = m /\ fifo' = fifo /\ cpc = "opening" /\ cpc' = "writing" /\ UNCHANGED sActValue
        BY <1>1 DEF OpenFifo
    <2> HIDE DEF m
    <2>5. Says(m)
        BY <2>2, <2>3, <2>4 DEF Says, CliStreamInv
    <2> QED BY <2>5
  <1>2. CASE CliWrite
    <2>1. Stream' = Stream
        BY <1>2, ClientWriteStream DEF CliWrite, TypeOK
    <2>2. cpc \notin {"opening", "prompt"}
        BY <1>2 DEF CliWrite, ClientWrite, CliStreamInv
    <2> QED BY <1>2, <2>1, <2>2 DEF CliWrite, cliVars, SaysNothing
  <1>3. CASE LoopTest /\ end
    <2>1. Message(<<Cmd(TERM_CMD)>>)
        BY PlainMessage DEF PlainCommands
    <2>2. NoCmd(<<Cmd(TERM_CMD)>>, LOAD_CMD) /\ NoCmd(<<Cmd(TERM_CMD)>>, RUN_CMD)
        BY PlainNo DEF LOAD_CMD, RUN_CMD, TERM_CMD
    <2> DEFINE m == <<Cmd(TERM_CMD)>>
    <2>3. /\ out = << >> /\ out' = m /\ fifo' = fifo /\ cpc = "writing" /\ cpc' = "joining"
          /\ UNCHANGED <<iState, sActValue>>
          /\ cpc' \notin {"opening", "prompt"} /\ cpc # "opening"
        BY <1>3 DEF LoopTest
    <2>4. Message(m) /\ NoCmd(m, LOAD_CMD) /\ NoCmd(m, RUN_CMD)
        BY <2>1, <2>2
    <2> HIDE DEF m
    <2>5. Says(m)
        BY <2>3, <2>4 DEF Says
    <2> QED BY <2>5
  <1>4. CASE LoopTest /\ ~end
      BY <1>4 DEF LoopTest, SaysNothing, Stream
  <1>5. CASE Join(ThreadOver)
      BY <1>5 DEF Join, SaysNothing, Stream, fifoVars
  <1>6. CASE Sigint
      BY <1>6 DEF Sigint, SaysNothing, Stream, fifoVars, CliStreamInv
  <1> QED BY <1>1, <1>2, <1>3, <1>4, <1>5, <1>6, CommandSays DEF CliStep, CliLoop, User

-----------------------------------------------------------------------------
(* The thread and its client stay in step; STOP is kept; tables arrive.    *)

(* Every file has a line for every actuator.                               *)
FullFiles == \A file \in Files : Len(file) >= NumAct

(* The thread halts, or will when it has read what main has written.       *)
StopInv == iState = STATE_STOP /\ cpc # "opening" => Halting

(* A message of main leaves the stream in order.                           *)
LEMMA SaysKeepsStream ==
  ASSUME TypeOK, CliStreamInv, CliStep, UNCHANGED <<dmaVars, threadVars>>
  PROVE  CliStreamInv'
  <1> USE TypeOK, CliStreamInv DEF TypeOK, CliStreamInv
  <1>1. UNCHANGED <<tpc, count, next>>
      BY DEF threadVars
  <1>2. CASE SaysNothing
    <2>1. StreamInv'
        BY <1>1, <1>2 DEF SaysNothing, StreamInv, Framed, CommandAt, Reading, CountedAt, ArgsAt
    <2>2. cpc' \in {"opening", "prompt"} => out' = << >>
        BY <1>2 DEF SaysNothing
    <2> QED BY <2>1, <2>2
  <1>3. CASE \E k : Says(k)
    <2>1. PICK m : Says(m)
        BY <1>3
    <2>2. StreamInv'
        BY <1>1, <2>1, WritesMessage DEF Says
    <2> QED BY <2>1, <2>2 DEF Says
  <1> QED BY <1>2, <1>3, CliSays

(* STOP, or no RUN, is what main writes when the menu says stopped.        *)
LEMMA SaysKeepsStop ==
  ASSUME TypeOK, CliStreamInv, StopInv, CliStep, UNCHANGED <<dmaVars, threadVars>>
  PROVE  StopInv'
  <1> USE TypeOK, CliStreamInv, StopInv DEF TypeOK, CliStreamInv, StopInv
  <1>1. UNCHANGED <<tpc, count, next, Run>>
      BY DEF threadVars
  <1>2. CASE SaysNothing
      BY <1>1, <1>2 DEF SaysNothing, Halting
  <1>3. CASE \E k : Says(k)
    <2>1. PICK m : Says(m)
        BY <1>3
    <2>2. Stream' = Stream \o m
        BY <1>1, <2>1, WritesMessage DEF Says
    <2>3. Stream \in Seq(Item) /\ m \in Seq(Item)
        BY <2>1, StreamType DEF Says, Message
    <2>4. CASE iState' = STATE_STOP
      <3>1. STATE_STOP # STATE_RUN
          BY DEF STATE_STOP, STATE_RUN
      <3>2. NoCmd(m, RUN_CMD)
          BY <2>1, <2>4, <3>1 DEF Says
      <3>3. (Halting /\ Run' = Run) \/ (Len(m) >= 1 /\ m[1] = Cmd(STOP_CMD))
          BY <1>1, <2>1, <2>4, <3>1 DEF Says
      <3>4. PICK s \in Seq(Item) : s = Stream
          BY <2>3
      <3>5. Halting'
          BY <2>2, <2>3, <3>2, <3>3, <3>4, HaltingAfter
      <3> QED BY <3>5
    <2> QED BY <2>4
  <1> QED BY <1>2, <1>3, CliSays

(* A load puts the new table on its way.                                   *)
LEMMA LoadLineSends ==
  ASSUME TypeOK, CliStreamInv, ModeInv, LoadLine, FullFiles, UNCHANGED <<dmaVars, threadVars>>
  PROVE  LoadInv(sActValue)'
  <1>1. PICK s \in 0 .. NumAct, table \in Frame :
           /\ Line(iState, LoadMsg(SubSeq(table, 1, s)))
           /\ sActValue' = table
           /\ SubSeq(table, 1, s) \in Seq(Word) /\ Len(SubSeq(table, 1, s)) = s
           /\ (\A file \in Files : Len(file) >= NumAct) => s = NumAct
      BY LoadLineTable DEF TypeOK
  <1>2. s = NumAct
      BY <1>1 DEF FullFiles
  <1>3. table \in Seq(Word) /\ Len(table) = NumAct
      BY FrameIsSeq
  <1>4. SubSeq(table, 1, s) = table
      BY <1>2, <1>3, FifoAssumption, SubSeqFull
  <1> DEFINE m == LoadMsg(table) \o << >>
  <1>5. << >> \in Seq(Item) /\ NoCmd(<< >>, LOAD_CMD)
      BY DEF NoCmd
  <1>6. m \in Seq(Item) /\ LoadAt(m, 0, table)
      BY <1>3, <1>5, LoadOfFrame
  <1>7. Len(table) \in Word
      BY <1>3, FifoAssumption, ActIsWord
  <1>8. Message(LoadMsg(table)) /\ LoadMsg(table) \in Seq(Item)
      BY <1>3, <1>7, LoadMessage, LoadElements
  <1>9. m = LoadMsg(table)
      BY <1>8
  <1>10. out = << >> /\ fifo' = fifo /\ out' = LoadMsg(table)
      BY <1>1, <1>4 DEF Line, CliStreamInv
  <1> HIDE DEF m
  <1>11. Stream' = Stream \o m
    <2>1. UNCHANGED <<tpc, count, next>>
        BY DEF threadVars
    <2> QED BY <1>8, <1>9, <1>10, <2>1, WritesMessage DEF TypeOK, CliStreamInv
  <1>12. LoadInv(table)'
      BY <1>6, <1>11, LoadSent DEF TypeOK
  <1>13. table' = table /\ sActValue' = table
      BY <1>1
  <1> QED BY <1>12, <1>13

(* Any other message leaves the table on its way, or in the buffers.       *)
LEMMA SaysKeepsLoad ==
  ASSUME TypeOK, CliStreamInv, LoadInv(sActValue), FullFiles, CliStep,
         UNCHANGED <<dmaVars, threadVars>>
  PROVE  LoadInv(sActValue)'
  <1> USE TypeOK, CliStreamInv DEF TypeOK, CliStreamInv
  <1>1. CASE LoadLine
      BY <1>1, LoadLineSends DEF LoadInv
  <1>2. CASE ~LoadLine
    <2>1. PICK t \in Frame : t = sActValue
        BY DEF CliTypeOK
    <2>2. LoadInv(t)
        BY <2>1
    <2>3. UNCHANGED sActValue
        BY <1>2, CliSays DEF Says, SaysNothing
    <2>4. \E m \in Seq(Item) : Stream' = Stream \o m /\ NoCmd(m, LOAD_CMD)
      <3>1. CASE SaysNothing
        <4>1. << >> \in Seq(Item) /\ NoCmd(<< >>, LOAD_CMD)
            BY DEF NoCmd
        <4>2. Stream = Stream \o << >>
            BY StreamType
        <4> QED BY <3>1, <4>1, <4>2 DEF SaysNothing
      <3>2. CASE \E k : Says(k)
        <4>1. PICK m : Says(m)
            BY <3>2
        <4>2. UNCHANGED <<tpc, count, next>>
            BY DEF threadVars
        <4>3. Stream' = Stream \o m
            BY <4>1, <4>2, WritesMessage DEF Says
        <4> QED BY <1>2, <4>1, <4>3 DEF Says, Message
      <3> QED BY <3>1, <3>2, CliSays
    <2>5. PICK m \in Seq(Item) : Stream' = Stream \o m /\ NoCmd(m, LOAD_CMD)
        BY <2>4
    <2>6. LoadInv(t)'
        BY <2>2, <2>5, LoadStaysLast
    <2> QED BY <2>1, <2>3, <2>6
  <1> QED BY <1>1, <1>2

(* A step of the program keeps the stream in order and STOP effective.     *)
LEMMA NextStream ==
  ASSUME TypeOK, CliStreamInv, StopInv, [Next]_vars
  PROVE  CliStreamInv' /\ StopInv'
  <1>1. CASE ThreadNext /\ UNCHANGED cliVars
    <2>1. CliStreamInv'
        BY <1>1, ThreadKeepsStream, ThreadLeavesOut DEF TypeOK, CliStreamInv, cliVars
    <2>2. StopInv'
        BY <1>1, ThreadKeepsHalting DEF TypeOK, CliStreamInv, StopInv, cliVars
    <2> QED BY <2>1, <2>2
  <1>2. CASE (CliLoop \/ User) /\ UNCHANGED <<dmaVars, threadVars>>
      BY <1>2, SaysKeepsStream, SaysKeepsStop DEF CliStep
  <1>3. CASE UNCHANGED vars
    <2>1. UNCHANGED <<Stream, out, cpc, iState, tpc, count, next, Run>>
        BY <1>3 DEF vars, fifoVars, threadVars, cliVars, Stream
    <2> QED BY <2>1 DEF CliStreamInv, StopInv, StreamInv, Framed, CommandAt, Reading, CountedAt,
                        ArgsAt, Halting
  <1> QED BY <1>1, <1>2, <1>3 DEF Next, Terminated

(* By induction, on top of the types.                                      *)
LEMMA StreamAlways == Spec => [](TypeOK /\ CliStreamInv /\ StopInv)
  <1>1. Init => CliStreamInv /\ StopInv
      BY StreamInvInit DEF Init, CliStreamInv, StopInv, CliInit, FifoInit
  <1>2. TypeOK /\ CliStreamInv /\ StopInv /\ [Next]_vars => CliStreamInv' /\ StopInv'
      BY NextStream
  <1> QED BY <1>1, <1>2, TypeCorrect, PTL DEF Spec

(* The thread never takes an argument for a command, nor a command for an  *)
(* argument, whatever lines are typed and however the pipe cuts them.      *)
THEOREM CommandsStayInSync == Spec => []InSync
  <1>1. TypeOK /\ CliStreamInv => InSync
      BY StreamInvImplies DEF TypeOK, CliStreamInv
  <1> QED BY StreamAlways, <1>1, PTL

(* When the menu says stopped, the thread that has read everything stands  *)
(* still.                                                                  *)
THEOREM StopIsKept == Spec => []StoppedMeansStopped
  <1>1. TypeOK /\ CliStreamInv /\ StopInv => StoppedMeansStopped
    <2> SUFFICES ASSUME StopInv, Settled, iState = STATE_STOP
                 PROVE  ~Run
        BY DEF StoppedMeansStopped
    <2>1. Halting /\ Stream = << >>
        BY DEF StopInv, Settled, Drained, Stream
    <2> QED BY <2>1 DEF Halting, StopAhead
  <1> QED BY StreamAlways, <1>1, PTL

(* The last LOAD sent is that of the table, until it is in the buffers.    *)
LEMMA NextLoad ==
  ASSUME FullFiles, TypeOK, CliStreamInv, LoadInv(sActValue), [Next]_vars
  PROVE  LoadInv(sActValue)'
  <1>1. PICK t \in Frame : t = sActValue
      BY DEF TypeOK, CliTypeOK
  <1>2. CASE ThreadNext /\ UNCHANGED cliVars
    <2>1. LoadInv(t)'
        BY <1>1, <1>2, ThreadKeepsLoad DEF TypeOK, CliStreamInv
    <2> QED BY <1>1, <1>2, <2>1 DEF cliVars
  <1>3. CASE (CliLoop \/ User) /\ UNCHANGED <<dmaVars, threadVars>>
      BY <1>3, SaysKeepsLoad DEF CliStep
  <1>4. CASE UNCHANGED vars
    <2>1. UNCHANGED <<Stream, tpc, count, next, userBuf, iDataMode, dmaBuf, sActValue>>
        BY <1>4 DEF vars, fifoVars, dmaVars, threadVars, cliVars, Stream
    <2> QED BY <2>1 DEF LoadInv, ModeInv, LoadAhead, LoadAt, LoadTaken, NoCmd
  <1> QED BY <1>2, <1>3, <1>4 DEF Next, Terminated

(* Nothing has been sent before the first state.                           *)
LEMMA LoadInvInit == Init => LoadInv(sActValue)
  <1> SUFFICES ASSUME Init
               PROVE  LoadInv(sActValue)
      OBVIOUS
  <1>1. Stream = << >> /\ tpc = "setup" /\ iDataMode = 0
      BY DEF Init, FifoInit, ThreadInit, Stream
  <1> QED BY <1>1 DEF LoadInv, LoadTaken, ModeInv, NoCmd

(* After a load both DMA buffers hold the table of the client, when every  *)
(* file has a line for every actuator: for a shorter one it is false, as   *)
(* the run on short files shows.                                           *)
THEOREM LoadsArrive ==
  ASSUME \A file \in Files : Len(file) >= NumAct
  PROVE  Spec => []LoadMirrorsTable
  <1>1. FullFiles
      BY DEF FullFiles
  <1>2. TypeOK /\ CliStreamInv /\ LoadInv(sActValue) /\ [Next]_vars => LoadInv(sActValue)'
      BY <1>1, NextLoad
  <1>3. LoadInv(sActValue) => LoadMirrorsTable
    <2> SUFFICES ASSUME LoadInv(sActValue), Settled, iDataMode = 1
                 PROVE  \A b \in Buffers : dmaBuf[b] = sActValue
        BY DEF LoadMirrorsTable
    <2>1. Len(Stream) = 0 /\ tpc = "tick"
        BY DEF Settled, Drained, Stream
    <2>2. ~LoadAhead(sActValue)
        BY <2>1, FifoAssumption DEF LoadAhead, LoadAt
    <2> QED BY <2>1, <2>2 DEF LoadInv, LoadTaken
  <1> QED BY <1>2, <1>3, LoadInvInit, StreamAlways, PTL DEF Spec
=============================================================================
