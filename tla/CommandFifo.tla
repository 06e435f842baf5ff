----------------------------- MODULE CommandFifo -----------------------------
(***************************************************************************)
(* The named pipe /tmp/mdlfifo between a command client (rhcli.c or        *)
(* runBMCcacao_VMETRO.c) and the framing thread of thread.c.               *)
(*                                                                         *)
(* One element of the pipe is what one write() of a client puts there: a   *)
(* command byte of shared.h, or one argument of it.  The only write() of   *)
(* several arguments is the frame of a LOAD command: it is larger than     *)
(* PIPE_BUF, so the thread may find a part of it in the pipe, and it is    *)
(* modelled as one element per actuator.                                   *)
(*                                                                         *)
(* The tag "cmd"/"arg" is for the properties only: the thread sees values. *)
(***************************************************************************)
EXTENDS Naturals, Sequences

CONSTANTS
  NumAct,     \* number of actuators (NBpix, iMode: 4096 in the code)
  Capacity    \* number of elements the pipe holds before write() blocks

ASSUME FifoAssumption ==
  /\ NumAct \in Nat \ {0}
  /\ NumAct <= 32767             \* LOAD announces it as a short
  /\ Capacity \in Nat \ {0, 1}

VARIABLES
  fifo,       \* elements written and not yet read
  out         \* write() calls the client has begun and not yet completed

fifoVars == <<fifo, out>>

Act     == 1 .. NumAct
MaxWord == 65535                    \* unsigned short
Word    == 0 .. MaxWord
Frame   == [Act -> Word]

-----------------------------------------------------------------------------
RUN_CMD       == 0
STOP_CMD      == 1
POKE_CMD      == 2
CLEAR_CMD     == 4
LOAD_CMD      == 5
TEST_CMD      == 6
FRAMERATE_CMD == 7
STROBE_CMD    == 8
TERM_CMD      == 9
STEP_CMD      == 10
HALTERR_CMD   == 11

Item == [kind : {"cmd", "arg"}, val : Word]

Cmd(c) == [kind |-> "cmd", val |-> c]
Arg(v) == [kind |-> "arg", val |-> v]

Args(seq) == [i \in DOMAIN seq |-> Arg(seq[i])]

(* The write() calls of the commands that carry arguments.                 *)
HalterrMsg(on)       == <<Cmd(HALTERR_CMD), Arg(on)>>
FramerateMsg(rate)   == <<Cmd(FRAMERATE_CMD), Arg(rate)>>
StrobeMsg(mhz, fix)  == <<Cmd(STROBE_CMD), Arg(mhz), Arg(fix)>>
PokeMsg(index, word) == <<Cmd(POKE_CMD), Arg(index), Arg(word)>>
LoadMsg(words)       == <<Cmd(LOAD_CMD), Arg(Len(words))>> \o Args(words)

(* What both clients send before anything else: stop, halt on error, the   *)
(* frame rate, a programmable 50 MHz strobe.                               *)
StartupMsgs(rate) == <<Cmd(STOP_CMD)>> \o HalterrMsg(1)
                       \o FramerateMsg(rate) \o StrobeMsg(50, 0)

-----------------------------------------------------------------------------
FifoInit == /\ fifo = << >>
            /\ out  = << >>

(* One write() of the client completes; it blocks while the pipe is full.  *)
ClientWrite == /\ out # << >>
               /\ Len(fifo) < Capacity
               /\ fifo' = Append(fifo, Head(out))
               /\ out'  = Tail(out)

(* read() of one element by the thread.                                    *)
ReadItem == /\ fifo # << >>
            /\ fifo' = Tail(fifo)
            /\ UNCHANGED out

(* Nothing the client sent is still on its way to the thread.              *)
Drained == fifo = << >> /\ out = << >>

FifoTypeOK == /\ fifo \in Seq(Item)
              /\ Len(fifo) <= Capacity
              /\ out \in Seq(Item)
=============================================================================
