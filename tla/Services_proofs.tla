---------------------------- MODULE Services_proofs ----------------------------
(***************************************************************************)
(* The components above the mirror loop together.  Each keeps its own      *)
(* invariant by its own steps and by not moving, so all of them hold in    *)
(* every state, and with them what each component promises.                *)
(***************************************************************************)
EXTENDS MCServices, ManagerSvc_proofs, InsInt_proofs, ThreadPool_proofs, Sharing_proofs

ServiceInv == PoolInv /\ SvcTypes
ReceptionInv == SetsInv /\ RecvTypes /\ FileInv
ImageInv == ShmTypeOK /\ CountInv
NetInv == NamesInv /\ BunchInv

PartsInv ==
    /\ part \in Parts
    /\ MgrInv /\ CalmInv /\ ServiceInv /\ ReceptionInv /\ ImageInv /\ NetInv

\* All of them hold at first: every component begins as it does alone.
LEMMA ServicesInitInv == ServicesInit => PartsInv
  <1>1. MgrInit => MgrInv
    BY InitInv
  <1>2. InsInit => CalmInv
    BY CalmInit
  <1>3. SvcInit => ServiceInv
    BY SvcInitInv DEF ServiceInv
  <1>4. FileInit => ReceptionInv
    BY FilesInit, SetsInit DEF FileInit, RecvTypes, ReceptionInv
  <1>5. ShmInit => ImageInv
    BY ShmInitTypes, CountInit DEF ImageInv
  <1>6. PubInit => NetInv
    BY PubInitInv, RecordsInit DEF NetInv
  <1> QED BY <1>1, <1>2, <1>3, <1>4, <1>5, <1>6 DEF ServicesInit, PartsInv

\* A component moves as it would alone, or stays where it is.
LEMMA OneMoves ==
    ASSUME [ServicesNext]_allVars
    PROVE  /\ part' = part /\ [MgrNext]_mgrVars /\ [InsNext]_insVars /\ [ShmNext]_shmVars /\ [PubNext]_pubVars
           /\ [SvcNext]_insServiceVars \/ ([PoolNext]_poolVars /\ UNCHANGED svcVars)
           /\ [FileNext]_fileVars \/ ([SetNext]_setVars /\ UNCHANGED <<recvVars, saveVars, resDict>>)
  BY DEF ServicesNext, Only, allVars, insServiceVars, fileVars

\* Every step.
LEMMA ServicesStep == PartsInv /\ [ServicesNext]_allVars => PartsInv'
  <1> SUFFICES ASSUME PartsInv, [ServicesNext]_allVars PROVE PartsInv'
    OBVIOUS
  <1>1. MgrInv' /\ CalmInv' /\ ImageInv' /\ NetInv'
    BY OneMoves, StepInv, CalmStep, ShmStepTypes, CountStep, NamesStep, RecordsStep DEF PartsInv, ImageInv, NetInv
  <1>2. ServiceInv'
    <2>1. CASE [SvcNext]_insServiceVars
      BY <2>1, SvcStep DEF PartsInv, ServiceInv
    <2>2. CASE [PoolNext]_poolVars /\ UNCHANGED svcVars
      BY <2>2, PoolStep DEF PartsInv, ServiceInv, SvcTypes, svcVars
    <2> QED BY <2>1, <2>2, OneMoves
  <1>3. ReceptionInv'
    <2>1. CASE [FileNext]_fileVars
      BY <2>1, FilesStep, FilesKeepSets, RecvStaysTyped DEF PartsInv, ReceptionInv
    <2>2. CASE [SetNext]_setVars /\ UNCHANGED <<recvVars, saveVars, resDict>>
      <3>1. SetsInv'
        BY <2>2, SetsStep DEF PartsInv, ReceptionInv
      <3>2. RecvTypes'
        BY <2>2 DEF PartsInv, ReceptionInv, RecvTypes, recvVars
      <3>3. FileInv'
        BY <2>2, NoFileTouched DEF PartsInv, ReceptionInv, FileInv, FileTypes, recvVars
      <3> QED BY <3>1, <3>2, <3>3 DEF ReceptionInv
    <2> QED BY <2>1, <2>2, OneMoves
  <1>4. part' \in Parts
    BY OneMoves DEF PartsInv
  <1> QED BY <1>1, <1>2, <1>3, <1>4 DEF PartsInv

\* The invariant holds in every state.
LEMMA ServicesInvariance == ServicesSpec => []PartsInv
  BY ServicesInitInv, ServicesStep, PTL DEF ServicesSpec
-----------------------------------------------------------------------------
\* Whichever component runs, its state is of its types, for all values of all
\* their constants.
THEOREM ServicesTypeCorrect == ServicesSpec => []ServicesTypeOK
  <1>1. PartsInv => ServicesTypeOK
    <2> SUFFICES ASSUME PartsInv PROVE ServicesTypeOK
      OBVIOUS
    <2>1. MgrTypeOK /\ InsTypeOK /\ SvcTypeOK /\ FileTypeOK /\ ShmTypeOK /\ PubTypeOK
      BY MgrTells, CommandTells, SvcTells, FilesTell, RecordsTell
         DEF PartsInv, CalmInv, ServiceInv, ReceptionInv, ImageInv, NetInv
    <2>2. part \in {"manager", "command", "pool", "service", "sets", "files", "shm", "pubsub"}
      BY ServicesAssumption DEF PartsInv
    <2> QED BY <2>1, <2>2 DEF ServicesTypeOK
  <1> QED BY <1>1, ServicesInvariance, PTL

\* Every promise that a component keeps alone is kept in the composed system,
\* which is the one the runs check: with the exceptions the promises name, the
\* check interrupted by a signal handler (StoppedStaysStopped) and the frame
\* that is asked for more than twice (ReceivedIsOnDisk).
THEOREM ServicesKeepPromises ==
    ServicesSpec => []( /\ StoppedStaysStopped /\ AutoRestartBudget
                        /\ OkOnlyIfEnded /\ NoFalseFailure
                        /\ StatusMatches /\ StoppedMeansGone
                        /\ SetsAreConclusive /\ ReceivedIsOnDisk
                        /\ CounterNeverAhead /\ NoCyclicUpdates )
  <1>1. PartsInv => /\ StoppedStaysStopped /\ AutoRestartBudget
                    /\ OkOnlyIfEnded /\ NoFalseFailure
                    /\ StatusMatches /\ StoppedMeansGone
                    /\ SetsAreConclusive /\ ReceivedIsOnDisk
                    /\ CounterNeverAhead /\ NoCyclicUpdates
    BY MgrTells, CommandTells, CalmTells, PoolInvStatus, PoolInvGone, SetsTell, FilesReceived,
       NeverAhead, NamesTell
       DEF PartsInv, CalmInv, ServiceInv, ReceptionInv, ImageInv, NetInv
  <1> QED BY <1>1, ServicesInvariance, PTL
=============================================================================
