-------------------------------- MODULE RhCli --------------------------------
(***************************************************************************)
(* The command-line client rhcli.c: it creates the framing thread, opens   *)
(* the pipe, sends the startup commands, then turns each line the user     *)
(* types into write() calls, and at the end sends TERM and waits for the   *)
(* thread.                                                                 *)
(*                                                                         *)
(* A line with a bad argument, an unknown command and "help" print and     *)
(* change nothing: they are left out, as is the text of every message.     *)
(* An empty line repeats the last command, which is one of the others.     *)
(***************************************************************************)
EXTENDS CommandFifo

CONSTANTS
  ActMap,      \* g_i4kMap: FindActuatorIndex returns the i with Map[i] = a
  Files,       \* files "load" may be given: sequences of words
  Rates,       \* arguments of "framerate" and "pstrobe"
  Volts,       \* voltage arguments of "poke"
  MaxLines     \* bound: lines the user types

ASSUME CliAssumption ==
  /\ ActMap \in [Act -> Act]
  /\ \A a \in Act : \E i \in Act : ActMap[i] = a
  /\ Files \subseteq Seq(Word)
  /\ Rates \subseteq Nat /\ Volts \subseteq Nat
  /\ MaxLines \in Nat

VARIABLES
  cpc,         \* where main is
  iState,      \* STATE_RUN or STATE_STOP, what the menu shows
  end,         \* set by quit and by SIGINT
  sActValue,   \* the actuator table the load command fills
  lines        \* lines typed so far

cliVars == <<cpc, iState, end, sActValue, lines>>

STATE_RUN  == 0
STATE_STOP == 1

FindActuatorIndex(a) == CHOOSE i \in Act : ActMap[i] = a

-----------------------------------------------------------------------------
CliInit == /\ cpc = "opening"
           /\ iState = STATE_STOP
           /\ end = FALSE
           /\ sActValue = [a \in Act |-> 0]
           /\ lines = 0

(* open(O_WRONLY) blocks until the thread has opened the pipe for reading; *)
(* then the startup commands.                                              *)
OpenFifo(readerOpen) == /\ cpc = "opening"
                        /\ readerOpen
                        /\ out' = StartupMsgs(1000)
                        /\ iState' = STATE_STOP
                        /\ cpc' = "writing"
                        /\ UNCHANGED <<fifo, end, sActValue, lines>>

(* The user types a line: state new, write() calls msgs.                   *)
Line(new, msgs) == /\ cpc = "prompt"
                   /\ lines < MaxLines
                   /\ lines' = lines + 1
                   /\ iState' = new
                   /\ out' = msgs
                   /\ cpc' = "writing"
                   /\ UNCHANGED fifo

RunLine  == Line(STATE_RUN,  <<Cmd(RUN_CMD)>>)  /\ UNCHANGED <<end, sActValue>>
StopLine == Line(STATE_STOP, <<Cmd(STOP_CMD)>>) /\ UNCHANGED <<end, sActValue>>

(* Only while stopped.                                                     *)
StoppedLine(msgs) == /\ iState = STATE_STOP
                     /\ Line(iState, msgs)
                     /\ UNCHANGED <<end, sActValue>>

StepLine      == StoppedLine(<<Cmd(STEP_CMD)>>)

FramerateLine == \E rate \in Rates : /\ rate \in 10 .. 1000
                                     /\ StoppedLine(FramerateMsg(rate))
PstrobeLine   == \E mhz \in Rates : /\ mhz \in 10 .. 50
                                    /\ StoppedLine(StrobeMsg(mhz, 0))
FstrobeLine   == StoppedLine(StrobeMsg(50, 1))

(* In any state.                                                           *)
AnyLine(msgs) == Line(iState, msgs) /\ UNCHANGED <<end, sActValue>>

ClearLine   == AnyLine(<<Cmd(CLEAR_CMD)>>)
TestLine    == AnyLine(<<Cmd(TEST_CMD)>>)
HalterrLine == \E on \in {0, 1} : AnyLine(HalterrMsg(on))

(* Mutant: the range of the voltage is not checked. *)
PokeLine_Unchecked ==
  \E a \in Act, typed \in Volts :
    AnyLine(PokeMsg(FindActuatorIndex(a) - 1, ((typed % 65536) * MaxWord) \div 300))

(* The voltage is an unsigned short before its range is checked.           *)
PokeLine == \E a \in Act, typed \in Volts :
              LET value == typed % 65536
              IN /\ value <= 300
                 /\ AnyLine(PokeMsg(FindActuatorIndex(a) - 1, (value * MaxWord) \div 300))

(* Line s of the file is for actuator s; the first Len(file) words of the  *)
(* table are sent.  The loop also ends after iMode lines.                  *)
LoadLine ==
  \E file \in Files :
    LET s     == IF Len(file) < NumAct THEN Len(file) ELSE NumAct
        table == [i \in Act |-> IF ActMap[i] <= s THEN file[ActMap[i]] ELSE sActValue[i]]
    IN /\ Line(iState, LoadMsg(SubSeq(table, 1, s)))
       /\ sActValue' = table
       /\ UNCHANGED end

QuitLine == /\ Line(iState, << >>)
            /\ end' = TRUE
            /\ UNCHANGED sActValue

(* SIGINT: fgets is restarted, so a line being typed is still carried out. *)
Sigint == /\ ~end
          /\ end' = TRUE
          /\ UNCHANGED <<fifoVars, cpc, iState, sActValue, lines>>

(* while (!end), after the last write() of a line or of the startup.       *)
LoopTest == /\ cpc = "writing"
            /\ out = << >>
            /\ IF end
                 THEN out' = <<Cmd(TERM_CMD)>> /\ cpc' = "joining"
                 ELSE UNCHANGED out /\ cpc' = "prompt"
            /\ UNCHANGED <<fifo, iState, end, sActValue, lines>>

(* pthread_join, close, unlink, exit.                                      *)
Join(threadOver) == /\ cpc = "joining"
                    /\ out = << >>
                    /\ threadOver
                    /\ cpc' = "exited"
                    /\ UNCHANGED <<fifoVars, iState, end, sActValue, lines>>

CliWrite == ClientWrite /\ UNCHANGED cliVars

CliCommand == \/ RunLine \/ StopLine \/ StepLine
              \/ FramerateLine \/ PstrobeLine \/ FstrobeLine
              \/ ClearLine \/ TestLine \/ HalterrLine
              \/ PokeLine \/ LoadLine \/ QuitLine

CliTypeOK == /\ cpc \in {"opening", "writing", "prompt", "joining", "exited"}
             /\ iState \in {STATE_RUN, STATE_STOP}
             /\ end \in BOOLEAN
             /\ sActValue \in Frame
             /\ lines \in 0 .. MaxLines
=============================================================================
