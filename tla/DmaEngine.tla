------------------------------ MODULE DmaEngine ------------------------------
(***************************************************************************)
(* The DPIO2 board as thread.c and dpio2funcs.cpp use it: two DMA buffers  *)
(* in kernel memory, one DMA transfer at a time that sends a buffer to the *)
(* mirror word by word, an interrupt at its end, and the callback          *)
(* dmaDoneNotifier that a notifier thread of the board's library runs for  *)
(* each interrupt.                                                         *)
(***************************************************************************)
EXTENDS CommandFifo

CONSTANT
  Faults      \* what may go wrong: a subset of AllFaults

AllFaults == {"setup",      \* thread_code returns before it opens the pipe
              "ioctl",      \* setting the PIO2 strobe line fails
              "dmastart",   \* startDmaTransfer returns ERROR
              "irq"}        \* the DMA-done interrupt is lost

ASSUME FaultsAssumption == Faults \subseteq AllFaults

VARIABLES
  dmaBuf,     \* pDmaBuffer[0], pDmaBuffer[1]: the kernel DMA buffers
  dma,        \* the buffer being transferred, or NoDma
  sent,       \* actuators whose word the transfer has already delivered
  irq,        \* a DMA-done interrupt the notifier thread has not handled
  sem,        \* dmaDoneSemaphore_out
  dm          \* the voltage words the mirror electronics hold

dmaVars == <<dmaBuf, dma, sent, irq, sem, dm>>

Buffers == {0, 1}
NoDma   == 2

ZeroFrame == [a \in Act |-> 0]

(* The kernel module clears a new DMA buffer and then sets its first two   *)
(* bytes to '=' (0x3D3D).                                                  *)
BootFrame == [a \in Act |-> IF a = 1 THEN 15677 ELSE 0]

-----------------------------------------------------------------------------
DmaInit == /\ dmaBuf = [b \in Buffers |-> BootFrame]
           /\ dma    = NoDma
           /\ sent   = {}
           /\ irq    = FALSE
           /\ sem    = 0
           /\ dm     = ZeroFrame

(* Mutant: the second copyToKernel is missing. *)
CopyToKernel_One(userFrame) == dmaBuf' = [dmaBuf EXCEPT ![0] = userFrame]

(* copyToKernel of the user buffers, which are always equal, into both DMA *)
(* buffers.  The user buffers are locked in memory: the copy cannot fault. *)
CopyToKernel(userFrame) == dmaBuf' = [b \in Buffers |-> userFrame]

(* startDmaTransfer succeeds.                                              *)
StartDma(b) == /\ dma'  = b
               /\ sent' = {}
               /\ UNCHANGED <<dmaBuf, irq, sem, dm>>

(* The board delivers the word of actuator a.                              *)
DmaWord(a) == /\ dma # NoDma
              /\ a \notin sent
              /\ dm'   = [dm EXCEPT ![a] = dmaBuf[dma][a]]
              /\ sent' = sent \cup {a}
              /\ UNCHANGED <<dmaBuf, dma, irq, sem>>

(* The end of the chain raises the interrupt, or loses it.                 *)
DmaEnd == /\ dma # NoDma
          /\ sent = Act
          /\ dma'  = NoDma
          /\ sent' = {}
          /\ \/ irq' = TRUE
             \/ "irq" \in Faults /\ irq' = irq
          /\ UNCHANGED <<dmaBuf, sem, dm>>

(* Mutant: the callback does not post the semaphore. *)
DmaDoneNotifier_NoPost == /\ irq
                          /\ irq' = FALSE
                          /\ UNCHANGED <<dmaBuf, dma, sent, sem, dm>>

(* The notifier thread runs dmaDoneNotifier.                               *)
DmaDoneNotifier == /\ irq
                   /\ irq' = FALSE
                   /\ sem' = sem + 1
                   /\ UNCHANGED <<dmaBuf, dma, sent, dm>>

SemWait == /\ sem > 0
           /\ sem' = sem - 1
           /\ UNCHANGED <<dmaBuf, dma, sent, irq, dm>>

DmaNext == \/ \E a \in Act : DmaWord(a)
           \/ DmaEnd
           \/ DmaDoneNotifier

DmaTypeOK == /\ dmaBuf \in [Buffers -> Frame]
             /\ dma \in Buffers \cup {NoDma}
             /\ sent \in SUBSET Act
             /\ irq \in BOOLEAN
             /\ sem \in Nat
             /\ dm \in Frame
=============================================================================
