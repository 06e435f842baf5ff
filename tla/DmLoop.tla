-------------------------------- MODULE DmLoop --------------------------------
(***************************************************************************)
(* main and dm2k_realtimeloop of runBMCcacao_VMETRO.c: start the framing   *)
(* thread as rhcli does, then poll dmvolt and send each new frame to the   *)
(* thread as a LOAD and a STEP; when nothing has come for dt_update_lim    *)
(* (an hour) write zeros into dmvolt.                                      *)
(*                                                                         *)
(* Time is one bit: since tlastupdate an hour has passed or has not.       *)
(* tlastupdate starts at 0.0, the epoch.  cnt1 and cntloop are statistics. *)
(***************************************************************************)
EXTENDS VoltStream

CONSTANTS
  DmMap,       \* map2k on the actuators: a permutation
  MaxHours     \* bound: how often an hour passes without a new frame

ASSUME LoopAssumption ==
  /\ DmMap \in [Act -> Act]
  /\ \A i \in Act : \E a \in Act : DmMap[a] = i
  /\ MaxHours \in Nat

VARIABLES
  mpc,         \* where main is
  framecnt,    \* counter of the last frame sent, -1 before the first
  seen,        \* cnt0 as read at the start of the iteration
  temp,        \* private copy of the pixels
  sActValue,   \* voltage words in the order of the mirror
  mi,          \* loop index of the memcpy and of the zeroing
  mcnt,        \* register for cnt0++
  late,        \* dt_update > dt_update_lim
  hours        \* number of times it has become late

loopVars == <<mpc, framecnt, seen, temp, sActValue, mi, mcnt, late, hours>>

(* Mutant: no protection against overflow. *)
Convert_Overflows(t) == 4 * t

(* Voltage word of a pixel: four times it, saturated.                      *)
Convert(t) == IF t >= 16384 THEN MaxWord ELSE 4 * t

(* Mutant: the wiring of the mirror is ignored. *)
Mapped_Straight(t) == [i \in Act |-> Convert(t[i])]

(* sActValue for the pixels t.                                             *)
Mapped(t) == [i \in Act |-> Convert(t[CHOOSE a \in Act : DmMap[a] = i])]

-----------------------------------------------------------------------------
LoopInit == /\ mpc = "opening"
            /\ framecnt = -1
            /\ seen = 0
            /\ temp = [a \in Act |-> 0]
            /\ sActValue = [a \in Act |-> 0]
            /\ mi = 1
            /\ mcnt = 0
            /\ late = TRUE
            /\ hours = 0

OpenFifo(readerOpen) == /\ mpc = "opening"
                        /\ readerOpen
                        /\ out' = StartupMsgs(2000)
                        /\ mpc' = "starting"
                        /\ UNCHANGED <<fifo, imageVars, framecnt, seen, temp, sActValue,
                                       mi, mcnt, late, hours>>

EnterLoop == /\ mpc = "starting"
             /\ out = << >>
             /\ mpc' = "check"
             /\ UNCHANGED <<fifoVars, imageVars, framecnt, seen, temp, sActValue, mi,
                            mcnt, late, hours>>

(* while (status < 100): read cnt0, or leave the loop and send TERM.       *)
CheckStatus == /\ mpc = "check"
               /\ \/ ~quit /\ seen' = cnt0 /\ mpc' = "gate" /\ UNCHANGED out
                  \/ quit /\ out' = <<Cmd(TERM_CMD)>> /\ mpc' = "joining" /\ UNCHANGED seen
               /\ UNCHANGED <<fifo, imageVars, framecnt, temp, sActValue, mi, mcnt, late,
                              hours>>

NewFrame == seen > framecnt /\ ~write

Gate == /\ mpc = "gate"
        /\ mi' = 1
        /\ mpc' = IF NewFrame THEN "copy" ELSE "idle"
        /\ UNCHANGED <<fifoVars, imageVars, framecnt, seen, temp, sActValue, mcnt, late,
                       hours>>

(* memcpy reads the pixels one after the other; then the conversion and    *)
(* the write() calls.                                                      *)
CopyPixel == /\ mpc = "copy"
             /\ temp' = [temp EXCEPT ![mi] = pix[mi]]
             /\ IF mi < NumAct
                  THEN mi' = mi + 1 /\ UNCHANGED <<mpc, sActValue, out>>
                  ELSE /\ mpc' = "send"
                       /\ sActValue' = Mapped(temp')
                       /\ out' = Append(LoadMsg(sActValue'), Cmd(STEP_CMD))
                       /\ UNCHANGED mi
             /\ UNCHANGED <<fifo, imageVars, framecnt, seen, mcnt, late, hours>>

(* Mutant: framecnt takes the counter of the moment. *)
Sent_RereadsCounter ==
  /\ mpc = "send"
  /\ out = << >>
  /\ framecnt' = cnt0
  /\ late' = FALSE
  /\ mpc' = "check"
  /\ UNCHANGED <<fifoVars, imageVars, seen, temp, sActValue, mi, mcnt, hours>>

Sent == /\ mpc = "send"
        /\ out = << >>
        /\ framecnt' = seen
        /\ late' = FALSE
        /\ mpc' = "check"
        /\ UNCHANGED <<fifoVars, imageVars, seen, temp, sActValue, mi, mcnt, hours>>

(* Nothing to send: wait, and after an hour put the mirror to sleep.       *)
Idle == /\ mpc = "idle"
        /\ IF late THEN write' = TRUE /\ mpc' = "zero"
                   ELSE UNCHANGED write /\ mpc' = "check"
        /\ UNCHANGED <<fifoVars, pix, cnt0, quit, framecnt, seen, temp, sActValue, mi,
                       mcnt, late, hours>>

ZeroPixel == /\ mpc = "zero"
             /\ pix' = [pix EXCEPT ![mi] = 0]
             /\ IF mi < NumAct THEN mi' = mi + 1 /\ UNCHANGED mpc
                               ELSE mpc' = "unflag" /\ UNCHANGED mi
             /\ UNCHANGED <<fifoVars, write, cnt0, quit, framecnt, seen, temp, sActValue,
                            mcnt, late, hours>>

Unflag == /\ mpc = "unflag"
          /\ write' = FALSE
          /\ mpc' = "readcnt"
          /\ UNCHANGED <<fifoVars, pix, cnt0, quit, framecnt, seen, temp, sActValue, mi,
                         mcnt, late, hours>>

ReadCnt == /\ mpc = "readcnt"
           /\ mcnt' = cnt0
           /\ mpc' = "storecnt"
           /\ UNCHANGED <<fifoVars, imageVars, framecnt, seen, temp, sActValue, mi, late,
                          hours>>

(* Mutant: the zeros are not announced. *)
StoreCnt_NoIncrement ==
  /\ mpc = "storecnt"
  /\ cnt0' = mcnt
  /\ mpc' = "check"
  /\ UNCHANGED <<fifoVars, pix, write, quit, framecnt, seen, temp, sActValue, mi, mcnt,
                 late, hours>>

StoreCnt == /\ mpc = "storecnt"
            /\ cnt0' = mcnt + 1
            /\ mpc' = "check"
            /\ UNCHANGED <<fifoVars, pix, write, quit, framecnt, seen, temp, sActValue,
                           mi, mcnt, late, hours>>

(* pthread_join, close, unlink, return.                                    *)
Join(threadOver) == /\ mpc = "joining"
                    /\ out = << >>
                    /\ threadOver
                    /\ mpc' = "exited"
                    /\ UNCHANGED <<fifoVars, imageVars, framecnt, seen, temp, sActValue,
                                   mi, mcnt, late, hours>>

MainWrite == ClientWrite /\ UNCHANGED <<imageVars, loopVars>>

LoopStep == \/ EnterLoop \/ CheckStatus \/ Gate \/ CopyPixel \/ Sent
            \/ Idle \/ ZeroPixel \/ Unflag \/ ReadCnt \/ StoreCnt
            \/ MainWrite

(* An hour passes without a frame being sent.                              *)
HourPasses == /\ ~late
              /\ hours < MaxHours
              /\ hours' = hours + 1
              /\ late' = TRUE
              /\ UNCHANGED <<fifoVars, imageVars, mpc, framecnt, seen, temp, sActValue,
                             mi, mcnt>>

Running == mpc \notin {"opening", "starting", "joining", "exited", "killed"}

LoopTypeOK ==
  /\ mpc \in {"opening", "starting", "check", "gate", "copy", "send", "idle", "zero",
              "unflag", "readcnt", "storecnt", "joining", "exited", "killed"}
  /\ framecnt \in Nat \cup {-1}
  /\ seen \in Nat /\ mcnt \in Nat
  /\ temp \in Frame /\ sActValue \in Frame
  /\ mi \in Act
  /\ late \in BOOLEAN
  /\ hours \in 0 .. MaxHours
=============================================================================
