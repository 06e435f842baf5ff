------------------------------ MODULE MCServices ------------------------------
(* The components above the mirror loop share no state with each other, so *)
(* one run checks them side by side: a behaviour is a behaviour of one of  *)
(* them, chosen at the beginning, while the others stay where they begin.  *)
EXTENDS ManagerSvc, InsCommand, InsService, MCFileRecv, ScexaoShm, MCPubSub

CONSTANT Parts
VARIABLE part

\* A part is one of the components or kinds of behaviour below.
ASSUME ServicesAssumption ==
    Parts \subseteq {"manager", "command", "pool", "service", "sets", "files", "shm", "pubsub"}

allVars == <<part, mgrVars, insVars, insServiceVars, fileVars, shmVars, pubVars>>

ServicesInit ==
    /\ part \in Parts
    /\ MgrInit /\ InsInit /\ SvcInit /\ FileInit /\ ShmInit /\ PubInit
    /\ part # "pubsub" => net = CHOOSE n \in Nets : TRUE
    /\ part # "files" => onDisk = [d \in FrameIds |-> NoFile]

Only(p) == part = p /\ UNCHANGED part
ServicesNext ==
    \/ /\ Only("manager") /\ MgrNext
       /\ UNCHANGED <<insVars, insServiceVars, fileVars, shmVars, pubVars>>
    \/ /\ Only("command") /\ InsNext
       /\ UNCHANGED <<mgrVars, insServiceVars, fileVars, shmVars, pubVars>>
    \/ /\ Only("pool") /\ PoolNext
       /\ UNCHANGED <<mgrVars, insVars, svcVars, fileVars, shmVars, pubVars>>
    \/ /\ Only("service") /\ SvcNext
       /\ UNCHANGED <<mgrVars, insVars, fileVars, shmVars, pubVars>>
    \/ /\ Only("sets") /\ SetNext
       /\ UNCHANGED <<mgrVars, insVars, insServiceVars, recvVars, saveVars, resDict, shmVars, pubVars>>
    \/ /\ Only("files") /\ FileNext
       /\ UNCHANGED <<mgrVars, insVars, insServiceVars, shmVars, pubVars>>
    \/ /\ Only("shm") /\ ShmNext
       /\ UNCHANGED <<mgrVars, insVars, insServiceVars, fileVars, pubVars>>
    \/ /\ Only("pubsub") /\ PubNext
       /\ UNCHANGED <<mgrVars, insVars, insServiceVars, fileVars, shmVars>>

ServicesSpec == ServicesInit /\ [][ServicesNext]_allVars

\* The state of the component that runs is of its types.
ServicesTypeOK ==
    CASE part = "manager" -> MgrTypeOK
      [] part = "command" -> InsTypeOK
      [] part \in {"pool", "service"} -> SvcTypeOK
      [] part \in {"sets", "files"} -> FileTypeOK
      [] part = "shm" -> ShmTypeOK
      [] part = "pubsub" -> PubTypeOK
-----------------------------------------------------------------------------
(* The liveness of each component, under its own fairness.                  *)

\* A dead service is restarted (DeadIsRestarted); the manager ends after quit.
ManagerRestarts == (part = "manager" /\ MgrFairness) => DeadIsRestarted
ManagerQuits == (part = "manager" /\ MgrFairness) => QuitEndsManager

\* The end of a command is reported (EndIsReported).
CommandReports == (part = "command" /\ InsFairness) => EndIsReported

\* startall and stopall return (CallsReturn).
PoolCallsReturn == (part = "pool" /\ PoolFairness) => CallsReturn

\* The service comes up and serves its jobs (ServiceServes).
ServiceWorks == (part = "service" /\ SvcFairness) => ServiceServes

\* Compound tasks end (SetsEnd).
SetsFinish == (part = "sets" /\ SetFairness) => SetsEnd

\* Requests for files are answered (RequestIsAnswered).
FilesAnswered == (part = "files" /\ FileFairness) => RequestIsAnswered

\* Readers of an image get its last frame (ReadersGetLastFrame), and so does
\* the server that waits on its semaphore (ServerGetsLastFrame).
ImageUsersServed ==
    (part = "shm" /\ ShmFairness) => ReadersGetLastFrame /\ ServerGetsLastFrame

\* Subscribers that run are told (SubscribersServed), others dropped
\* (GoneAreDropped).
SubscribersTold == (part = "pubsub" /\ PubFairness) => SubscribersServed
DeadSubscribersDropped == (part = "pubsub" /\ PubFairness) => GoneAreDropped
=============================================================================
