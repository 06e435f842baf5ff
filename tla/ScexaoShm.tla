------------------------------ MODULE ScexaoShm ------------------------------
(***************************************************************************)
(* The class shm of scexao_shm.py: processes that share one image, some    *)
(* calling set_data, some get_data (with check, which waits for the image  *)
(* counter to move or for a timeout, or without).  Nothing locks the image *)
(* and each memory access is a step.                                       *)
(*                                                                         *)
(* A pixel holds the number of the set_data call that stored it.  For the  *)
(* images of the mirror channels (dm..disp..) and of blobcam set_data also *)
(* posts the semaphores of the image; the server waiting on them belongs   *)
(* to milk and is modelled as: wait, then read the pixels.                 *)
(***************************************************************************)
EXTENDS Integers, FiniteSets

CONSTANTS
  Writers, Readers, Pixels,
  MaxWrites    \* bound: number of set_data calls of all writers together

ASSUME ShmAssumption == /\ IsFiniteSet(Writers)
                        /\ IsFiniteSet(Pixels) /\ Pixels # {}
                        /\ MaxWrites \in Nat
                        /\ Writers \cap Readers = {}

VARIABLES
  buf,         \* the pixels
  cnt0,        \* the image counter
  sem,         \* semaphore the server waits on
  writes,      \* number of set_data calls begun
  wst, wnum, wtodo, wcnt,   \* writers: place, call, pixels to store, counter read
  rst, rcnt0, rtodo, rdata,
               \* readers: place, initial counter, pixels to read, data
               \* returned
  sst, stodo, sdata         \* the server: place, pixels to read, its copy

imageVars  == <<buf, cnt0, sem>>
writerVars == <<writes, wst, wnum, wtodo, wcnt>>
readerVars == <<rst, rcnt0, rtodo, rdata>>
serverVars == <<sst, stodo, sdata>>
shmVars       == <<imageVars, writerVars, readerVars, serverVars>>

ZeroImage == [p \in Pixels |-> 0]

ShmInit ==
  /\ buf = ZeroImage /\ cnt0 = 0 /\ sem = 0
  /\ writes = 0
  /\ wst = [w \in Writers |-> "idle"] /\ wnum = [w \in Writers |-> 0]
  /\ wtodo = [w \in Writers |-> {}] /\ wcnt = [w \in Writers |-> 0]
  /\ rst = [r \in Readers |-> "idle"] /\ rcnt0 = [r \in Readers |-> 0]
  /\ rtodo = [r \in Readers |-> {}]
  /\ rdata = [r \in Readers |-> ZeroImage]
  /\ sst = "wait" /\ stodo = {} /\ sdata = ZeroImage

-----------------------------------------------------------------------------
(* set_data *)
SetData(w) == /\ wst[w] = "idle"
              /\ writes < MaxWrites
              /\ writes' = writes + 1
              /\ wst' = [wst EXCEPT ![w] = "store"]
              /\ wnum' = [wnum EXCEPT ![w] = writes']
              /\ wtodo' = [wtodo EXCEPT ![w] = Pixels]
              /\ UNCHANGED <<imageVars, wcnt>>

StorePixel(w, p) == /\ wst[w] = "store"
                    /\ p \in wtodo[w]
                    /\ buf' = [buf EXCEPT ![p] = wnum[w]]
                    /\ wtodo' = [wtodo EXCEPT ![w] = @ \ {p}]
                    /\ UNCHANGED <<cnt0, sem, writes, wst, wnum, wcnt>>

(* Mutant: the counter is incremented while pixels are still to be stored. *)
GetCounter_Early(w) == /\ wst[w] = "store"
                       /\ wcnt' = [wcnt EXCEPT ![w] = cnt0]
                       /\ wst' = [wst EXCEPT ![w] = "count"]
                       /\ UNCHANGED <<imageVars, writes, wnum, wtodo>>

(* increment_counter: get_counter, then the store. *)
GetCounter(w) == /\ wst[w] = "store"
                 /\ wtodo[w] = {}
                 /\ wcnt' = [wcnt EXCEPT ![w] = cnt0]
                 /\ wst' = [wst EXCEPT ![w] = "count"]
                 /\ UNCHANGED <<imageVars, writes, wnum, wtodo>>

(* increment_counter: the store.                                            *)
StoreCounter(w) == /\ wst[w] = "count"
                   /\ cnt0' = wcnt[w] + 1
                   /\ wst' = [wst EXCEPT ![w] = "post"]
                   /\ UNCHANGED <<buf, sem, writes, wnum, wtodo, wcnt>>

(* Mutant: the image is not one of those that are posted. *)
ImSemPost_None(w) == /\ wst[w] = "post"
                     /\ wst' = [wst EXCEPT ![w] = "idle"]
                     /\ UNCHANGED <<imageVars, writes, wnum, wtodo, wcnt>>

ImSemPost(w) == /\ wst[w] = "post"
                /\ sem' = sem + 1
                /\ wst' = [wst EXCEPT ![w] = "idle"]
                /\ UNCHANGED <<buf, cnt0, writes, wnum, wtodo, wcnt>>

WriterStep(w) == /\ \/ SetData(w)
                    \/ \E p \in Pixels : StorePixel(w, p)
                    \/ GetCounter(w) \/ StoreCounter(w) \/ ImSemPost(w)
                 /\ UNCHANGED <<readerVars, serverVars>>

-----------------------------------------------------------------------------
(* get_data *)
StartRead(r) == /\ rst' = [rst EXCEPT ![r] = "read"]
                /\ rtodo' = [rtodo EXCEPT ![r] = Pixels]

GetNow(r) == /\ rst[r] = "idle"
             /\ StartRead(r)
             /\ UNCHANGED <<rcnt0, rdata>>

GetChecked(r) == /\ rst[r] = "idle"
                 /\ rst' = [rst EXCEPT ![r] = "poll"]
                 /\ rcnt0' = [rcnt0 EXCEPT ![r] = cnt0]
                 /\ UNCHANGED <<rtodo, rdata>>

Updated(r) == /\ rst[r] = "poll"
              /\ cnt0 > rcnt0[r]
              /\ StartRead(r)
              /\ UNCHANGED <<rcnt0, rdata>>

Timeout(r) == /\ rst[r] = "poll"
              /\ cnt0 <= rcnt0[r]
              /\ StartRead(r)
              /\ UNCHANGED <<rcnt0, rdata>>

ReadPixel(r, p) == /\ rst[r] = "read"
                   /\ p \in rtodo[r]
                   /\ rdata' = [rdata EXCEPT ![r][p] = buf[p]]
                   /\ rtodo' = [rtodo EXCEPT ![r] = @ \ {p}]
                   /\ UNCHANGED <<rst, rcnt0>>

GetDataReturns(r) == /\ rst[r] = "read"
             /\ rtodo[r] = {}
             /\ rst' = [rst EXCEPT ![r] = "idle"]
             /\ UNCHANGED <<rcnt0, rtodo, rdata>>

ReaderStep(r) == /\ \/ GetNow(r) \/ GetChecked(r) \/ Updated(r) \/ Timeout(r)
                    \/ \E p \in Pixels : ReadPixel(r, p)
                    \/ GetDataReturns(r)
                 /\ UNCHANGED <<imageVars, writerVars, serverVars>>

-----------------------------------------------------------------------------

ServerWakes == /\ sst = "wait"
               /\ sem > 0
               /\ sem' = sem - 1
               /\ sst' = "read"
               /\ stodo' = Pixels
               /\ UNCHANGED <<buf, cnt0, sdata>>

ServerReads(p) == /\ sst = "read"
                  /\ p \in stodo
                  /\ sdata' = [sdata EXCEPT ![p] = buf[p]]
                  /\ stodo' = stodo \ {p}
                  /\ UNCHANGED <<imageVars, sst>>

ServerWaits == /\ sst = "read"
               /\ stodo = {}
               /\ sst' = "wait"
               /\ UNCHANGED <<imageVars, stodo, sdata>>

ServerStep == /\ ServerWakes \/ (\E p \in Pixels : ServerReads(p)) \/ ServerWaits
              /\ UNCHANGED <<writerVars, readerVars>>

ShmNext == \/ \E w \in Writers : WriterStep(w)
           \/ \E r \in Readers : ReaderStep(r)
           \/ ServerStep

ShmSpec == ShmInit /\ [][ShmNext]_shmVars

ShmFairness == /\ \A w \in Writers : WF_shmVars(WriterStep(w))
               /\ \A r \in Readers : WF_shmVars(ReaderStep(r))
               /\ WF_shmVars(ServerStep)

-----------------------------------------------------------------------------
(* Types of the state of the images.                                      *)
ShmTypeOK ==
  /\ buf \in [Pixels -> Nat] /\ cnt0 \in Nat /\ sem \in Nat
  /\ writes \in 0 .. MaxWrites
  /\ wst \in [Writers -> {"idle", "store", "count", "post"}]
  /\ wnum \in [Writers -> 0 .. MaxWrites]
  /\ wtodo \in [Writers -> SUBSET Pixels]
  /\ wcnt \in [Writers -> Nat]
  /\ rst \in [Readers -> {"idle", "poll", "read"}]
  /\ rcnt0 \in [Readers -> Nat]
  /\ rtodo \in [Readers -> SUBSET Pixels]
  /\ rdata \in [Readers -> [Pixels -> Nat]]
  /\ sst \in {"wait", "read"}
  /\ stodo \in SUBSET Pixels
  /\ sdata \in [Pixels -> Nat]

(* The counter is never ahead of the data, although two writers may lose  *)
(* an increment: it counts only set_data calls whose pixels are all in the *)
(* image, so a reader that waited for the counter reads a new image.       *)
CounterNeverAhead ==
  cnt0 + Cardinality({w \in Writers : wtodo[w] # {}}) <= writes

(* A reader that keeps asking ends with the last frame: one that starts    *)
(* to wait after the last set_data is saved by its timeout.                *)
ReadersGetLastFrame ==
  (writes = MaxWrites /\ \A w \in Writers : wst[w] = "idle")
    ~> \A r \in Readers : rdata[r] = buf

(* The semaphores are posted after the pixels and the counter: the server  *)
(* never goes back to sleep with an older frame for good.                  *)
ServerGetsLastFrame == <>[](sdata = buf)
=============================================================================
