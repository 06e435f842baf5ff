------------------------------ MODULE VoltStream ------------------------------
(***************************************************************************)
(* The shared-memory image dmvolt, and the process that writes it (the     *)
(* deformable-mirror server of milk/cacao, which is not in the repository: *)
(* modelled from the write protocol that runBMCcacao_VMETRO.c itself       *)
(* follows when it writes the image, lines 869-875: write = 1, the pixels, *)
(* write = 0, cnt0++).  Nothing locks the image; cnt0++ is a load and a    *)
(* store.                                                                  *)
(***************************************************************************)
EXTENDS CommandFifo, Integers

CONSTANT
  Commands     \* the frames the writer will publish, in order

ASSUME CommandsAssumption == Commands \in Seq(Frame)

VARIABLES
  pix,         \* the pixels that are actuators
  write, cnt0, \* md[0].write # 0 and md[0].cnt0
  quit,        \* md[0].status >= 100
  wpc,         \* where the writer is
  frame,       \* number of the frame it writes or wrote last
  todo,        \* pixels of that frame it has still to store
  wcnt         \* its register for cnt0++

writerVars == <<wpc, frame, todo, wcnt>>
imageVars  == <<pix, write, cnt0, quit>>
streamVars == <<imageVars, writerVars>>

StreamInit == /\ pix = [a \in Act |-> 0]
              /\ write = FALSE
              /\ cnt0 = 0
              /\ quit = FALSE
              /\ wpc = "idle"
              /\ frame = 0
              /\ todo = {}
              /\ wcnt = 0

WriterBegin == /\ wpc = "idle"
               /\ frame < Len(Commands)
               /\ frame' = frame + 1
               /\ todo' = Act
               /\ write' = TRUE
               /\ wpc' = "pixels"
               /\ UNCHANGED <<pix, cnt0, quit, wcnt>>

(* The pixels are stored one by one, in any order.                         *)
WriterPixel(a) == /\ wpc = "pixels"
                  /\ a \in todo
                  /\ pix' = [pix EXCEPT ![a] = Commands[frame][a]]
                  /\ todo' = todo \ {a}
                  /\ UNCHANGED <<write, cnt0, quit, wpc, frame, wcnt>>

WriterUnflag == /\ wpc = "pixels"
                /\ todo = {}
                /\ write' = FALSE
                /\ wpc' = "unflagged"
                /\ UNCHANGED <<pix, cnt0, quit, frame, todo, wcnt>>

WriterReadCnt == /\ wpc = "unflagged"
                 /\ wcnt' = cnt0
                 /\ wpc' = "counting"
                 /\ UNCHANGED <<imageVars, frame, todo>>

WriterStoreCnt == /\ wpc = "counting"
                  /\ cnt0' = wcnt + 1
                  /\ wpc' = "idle"
                  /\ UNCHANGED <<pix, write, quit, frame, todo, wcnt>>

WriterStep == \/ WriterBegin
              \/ \E a \in Act : WriterPixel(a)
              \/ WriterUnflag \/ WriterReadCnt \/ WriterStoreCnt

(* Somebody sets md[0].status to stop the driver.                          *)
StatusQuit == /\ ~quit
              /\ quit' = TRUE
              /\ UNCHANGED <<pix, write, cnt0, writerVars>>

WriterDone == wpc = "idle" /\ frame = Len(Commands)

StreamTypeOK == /\ pix \in Frame
                /\ write \in BOOLEAN /\ quit \in BOOLEAN
                /\ cnt0 \in Nat /\ wcnt \in Nat
                /\ wpc \in {"idle", "pixels", "unflagged", "counting"}
                /\ frame \in 0 .. Len(Commands)
                /\ wpc # "idle" => frame > 0
                /\ todo \subseteq Act
=============================================================================
