------------------------------- MODULE FileRecv -------------------------------
(***************************************************************************)
(* Reception of FITS files from an instrument (ArchiveRequest of INSint.py)*)
(* A DS request names some frames; file_recv, a task of the pool, answers  *)
(* AB, has the files fetched group by group by a ConcurrentAndTaskset of   *)
(* save_fits tasks, waits for each set for a limited time and answers DE   *)
(* with a status for each frame.  An instrument may ask for the same frame *)
(* again while the first transfer is still running, or after one of which  *)
(* the file is still there.                                                *)
(***************************************************************************)
EXTENDS TaskSets

CONSTANTS Groups,       \* for each request, its sets of transfers
          Transfers,    \* the save_fits tasks
          FrameId,      \* the frame each of them fetches
          NoFile,
          OldFile,      \* the file of a frame from before the program was started
          OldFrames,    \* bound: frames which may have such a file
          RecvFaults,   \* what may fail: "ab", "de", "copy", "framedb", and what may
                        \* be wrong with a request: "host", "payload", "empty"
          DataTimeout   \* whether data_timeout may pass

ASSUME RecvAssumption ==
    /\ Groups \in [Runners -> Seq(AndSets) \ {<<>>}] /\ Transfers \subseteq SetTasks \ (Compound \cup Runners)
    /\ \A r \in Runners : \A k \in DOMAIN Groups[r] : KidSet(Groups[r][k]) \subseteq Transfers
    /\ \A r \in Runners, t \in Compound :
          r \notin KidSet(t) /\ \A k \in DOMAIN Groups[r] : Groups[r][k] \notin KidSet(t)
    /\ NoFile \notin Transfers \cup {OldFile} /\ OldFile \notin Transfers /\ DataTimeout \in BOOLEAN

VARIABLES recvAt,       \* file_recv of each request: where it is
          recvGroup,    \* its group
          waited,       \* result: 0 if the last wait() has returned None or 0
          statuslist,   \* the statuses it has collected for its frames
          reply,        \* DE
          resDict,      \* resDict, for every transfer
          saveAt,       \* save_fits of each transfer: where it is
          onDisk,       \* the file that has the name of a frame; files are named
                        \* after the transfer that created them
          renamed,      \* the files of a frame that have been renamed and are still there
          target,       \* the file a transfer writes to
          fullSize,     \* files of the size that was announced
          readOnly      \* files after chmod

recvVars == <<recvAt, recvGroup, waited, statuslist, reply>>
saveVars == <<saveAt, onDisk, renamed, target, fullSize, readOnly>>
fileVars == <<setVars, recvVars, saveVars, resDict>>

FrameIds == {FrameId[f] : f \in Transfers}
Files == Transfers \cup {OldFile}
FramesOf(r) == UNION {KidSet(Groups[r][k]) : k \in DOMAIN Groups[r]}

FileInit ==
    /\ SetInit
    /\ recvAt = [r \in Runners |-> "ack"] /\ recvGroup = [r \in Runners |-> 1]
    /\ waited = [r \in Runners |-> 0]
    /\ statuslist = [f \in Transfers |-> 1] /\ resDict = [f \in Transfers |-> 1]
    /\ reply = [r \in Runners |-> "none"]
    /\ saveAt = [f \in Transfers |-> "exists"]
    /\ onDisk \in {disk \in [FrameIds -> {NoFile, OldFile}] : \A d \in FrameIds \ OldFrames : disk[d] = NoFile}
    /\ renamed = [d \in FrameIds |-> {}]
    /\ target = [f \in Transfers |-> NoFile] /\ fullSize = {} /\ readOnly = {}
-----------------------------------------------------------------------------
(* file_recv                                                                *)

At(r, where) == Running(r) /\ recvAt[r] = where
Go(r, where) == recvAt' = [recvAt EXCEPT ![r] = where]

\* file_recv returns, and there is no DE, when the sender is not in the filter
\* list, after an AB with an error when the request cannot be unpacked, and
\* after an AB with success when it names no frames.  rpcconn.callrpc raises
\* when the AB cannot be sent.
Ack(r) ==
    /\ At(r, "ack")
    /\ \/ Go(r, "group") /\ UNCHANGED setVars
       \/ /\ RecvFaults \cap {"host", "payload", "empty"} # {} /\ Go(r, "over")
          /\ Done(r, "ok") /\ UNCHANGED <<setQueue, setState, adding>>
       \/ /\ "ab" \in RecvFaults /\ Go(r, "over")
          /\ Done(r, "error") /\ UNCHANGED <<setQueue, setState, adding>>
    /\ UNCHANGED <<recvGroup, waited, statuslist, reply, resDict, saveVars>>

\* The results are preset to errors, the set is put into the task queue.
StartGroup(r) ==
    /\ At(r, "group") /\ recvGroup[r] <= Len(Groups[r]) /\ Go(r, "wait")
    /\ LET set == Groups[r][recvGroup[r]] IN
       /\ resDict' = [f \in Transfers |-> IF f \in KidSet(set) THEN 1 ELSE resDict[f]]
       /\ InitAndStart(set)
    /\ UNCHANGED <<setResult, setState, adding, recvGroup, waited, statuslist, reply, saveVars>>

\* statuslist = [ resDict[i] for i in xrange(index) ]
Collect(r, set, result) ==
    /\ waited' = [waited EXCEPT ![r] = result]
    /\ statuslist' = [f \in Transfers |-> IF f \in KidSet(set) THEN resDict[f] ELSE statuslist[f]]
    /\ recvGroup' = [recvGroup EXCEPT ![r] = @ + 1] /\ Go(r, "group")
    /\ UNCHANGED <<setVars, reply, resDict, saveVars>>

\* wait() returns; an exception of a transfer that is no TaskError is raised
\* here and ends file_recv.
GroupEnds(r) ==
    /\ At(r, "wait")
    /\ LET set == Groups[r][recvGroup[r]] IN
       /\ Ended(set)
       /\ \/ setResult[set] # "error" /\ Collect(r, set, IF setResult[set] = "ok" THEN 0 ELSE 1)
          \/ /\ setResult[set] = "error" /\ Go(r, "over")
             /\ Done(r, "error")
             /\ UNCHANGED <<setQueue, setState, adding, recvGroup, waited, statuslist, reply, resDict, saveVars>>

\* Mutant: wait() without a timeout.
GroupTimeout_Never(r) == r \in Runners /\ FALSE /\ UNCHANGED fileVars

GroupTimeout(r) ==
    /\ At(r, "wait") /\ DataTimeout
    /\ ~Ended(Groups[r][recvGroup[r]])
    /\ Collect(r, Groups[r][recvGroup[r]], 1)

\* DE has result 0 when every status is 0 and so is what the last wait()
\* returned, else file_recv raises after it.
SendDe(r) ==
    /\ At(r, "group") /\ recvGroup[r] > Len(Groups[r]) /\ Go(r, "over")
    /\ LET allOk == waited[r] = 0 /\ \A f \in FramesOf(r) : statuslist[f] = 0 IN
       \/ /\ reply' = [reply EXCEPT ![r] = IF allOk THEN "ok" ELSE "error"]
          /\ Done(r, IF allOk THEN "ok" ELSE "error")
       \/ "de" \in RecvFaults /\ Done(r, "error") /\ UNCHANGED reply
    /\ UNCHANGED <<setQueue, setState, adding, recvGroup, waited, statuslist, resDict, saveVars>>
-----------------------------------------------------------------------------
(* save_fits                                                                *)

Saving(f, where) == f \in Transfers /\ Running(f) /\ saveAt[f] = where
Goto(f, where) == saveAt' = [saveAt EXCEPT ![f] = where]

\* check_rename: a file that is there is renamed, and that fails with an
\* exception when somebody else has just renamed it.
Exists(f) ==
    /\ Saving(f, "exists") /\ Goto(f, IF onDisk[FrameId[f]] = NoFile THEN "open" ELSE "rename")
    /\ UNCHANGED <<setVars, recvVars, resDict, onDisk, renamed, target, fullSize, readOnly>>

\* The new name has the time in seconds, and os.rename replaces a file that
\* has this name already: one renamed before, by anybody, may be gone.
Rename(f) ==
    /\ Saving(f, "rename")
    /\ LET d == FrameId[f] IN
       \/ /\ onDisk[d] # NoFile /\ Goto(f, "open") /\ UNCHANGED setVars
          /\ onDisk' = [onDisk EXCEPT ![d] = NoFile]
          /\ \E replaced \in renamed[d] \cup {NoFile} :
                renamed' = [renamed EXCEPT ![d] = (@ \ {replaced}) \cup {onDisk[d]}]
       \/ /\ onDisk[d] = NoFile /\ Goto(f, "over") /\ UNCHANGED <<onDisk, renamed>>
          /\ Done(f, "error") /\ UNCHANGED <<setQueue, setState, adding>>
    /\ UNCHANGED <<recvVars, resDict, target, fullSize, readOnly>>

\* The transfer creates the file, or truncates the one that is there by now;
\* it may fail at once, half-way or not at all.
Open(f) ==
    /\ Saving(f, "open")
    /\ LET there == onDisk[FrameId[f]]
           file == IF there = NoFile THEN f ELSE there
       IN \/ /\ file \notin readOnly /\ Goto(f, "copy")
             /\ target' = [target EXCEPT ![f] = file] /\ onDisk' = [onDisk EXCEPT ![FrameId[f]] = file]
             /\ fullSize' = fullSize \ {file}
          \/ /\ file \in readOnly \/ "copy" \in RecvFaults
             /\ Goto(f, "failed") /\ UNCHANGED <<target, onDisk, fullSize>>
    /\ UNCHANGED <<setVars, recvVars, resDict, renamed, readOnly>>

Copy(f) ==
    /\ Saving(f, "copy")
    /\ \/ Goto(f, "check") /\ fullSize' = fullSize \cup {target[f]}
       \/ "copy" \in RecvFaults /\ Goto(f, "failed") /\ UNCHANGED fullSize
    /\ UNCHANGED <<setVars, recvVars, resDict, onDisk, renamed, target, readOnly>>

\* chmod of whatever has the name now.
Chmod(f) ==
    /\ Saving(f, "check")
    /\ LET file == onDisk[FrameId[f]] IN
       \/ file # NoFile /\ Goto(f, "stat") /\ readOnly' = readOnly \cup {file}
       \/ file = NoFile /\ Goto(f, "failed") /\ UNCHANGED readOnly
    /\ UNCHANGED <<setVars, recvVars, resDict, onDisk, renamed, target, fullSize>>

\* stat of whatever has the name by then.
Stat(f) ==
    /\ Saving(f, "stat")
    /\ Goto(f, IF onDisk[FrameId[f]] \in fullSize THEN "good" ELSE "failed")
    /\ UNCHANGED <<setVars, recvVars, resDict, onDisk, renamed, target, fullSize, readOnly>>

\* Mutant: the result of the transfer is overwritten by that of addTransfer.
AddTransfer_AnyResult(f) ==
    /\ Saving(f, "good") \/ Saving(f, "failed")
    /\ Goto(f, "over")
    /\ resDict' = [resDict EXCEPT ![f] = 0] /\ Done(f, "ok")
    /\ UNCHANGED <<setQueue, setState, adding, recvVars, onDisk, renamed, target, fullSize, readOnly>>

\* framedb.addTransfer may raise; then resDict is not written.
AddTransfer(f) ==
    /\ Saving(f, "good") \/ Saving(f, "failed")
    /\ Goto(f, "over")
    /\ \/ /\ resDict' = [resDict EXCEPT ![f] = IF saveAt[f] = "good" THEN 0 ELSE 1]
          /\ Done(f, IF saveAt[f] = "good" THEN "ok" ELSE "bad")
       \/ "framedb" \in RecvFaults /\ Done(f, "error") /\ UNCHANGED resDict
    /\ UNCHANGED <<setQueue, setState, adding, recvVars, onDisk, renamed, target, fullSize, readOnly>>
-----------------------------------------------------------------------------
Receives(r) == Ack(r) \/ StartGroup(r) \/ GroupEnds(r) \/ SendDe(r)
Saves(f) == Exists(f) \/ Rename(f) \/ Open(f) \/ Copy(f) \/ Chmod(f) \/ Stat(f) \/ AddTransfer(f)
Worker == Take /\ UNCHANGED <<recvVars, saveVars, resDict>>
SetStep(t) == Executes(t) /\ UNCHANGED <<recvVars, saveVars, resDict>>
Ask(r) == InitAndStart(r) /\ UNCHANGED <<setResult, setState, adding, recvVars, saveVars, resDict>>

FileNext ==
    \/ \E r \in Runners : Ask(r) \/ Receives(r) \/ GroupTimeout(r)
    \/ \E f \in Transfers : Saves(f)
    \/ Worker \/ \E t \in Compound : SetStep(t)

FileSpec == FileInit /\ [][FileNext]_fileVars

\* Threads run, transfers end and the time passes; nobody has to ask.
FileFairness ==
    /\ WF_fileVars(Worker) /\ \A t \in Compound : WF_fileVars(SetStep(t))
    /\ \A r \in Runners : WF_fileVars(Receives(r)) /\ WF_fileVars(GroupTimeout(r))
    /\ \A f \in Transfers : WF_fileVars(Saves(f))
FileFairSpec == FileSpec /\ FileFairness
-----------------------------------------------------------------------------
(* Properties.                                                              *)

\* Types of the state of the file reception.
FileTypeOK ==
    /\ SetTypeOK
    /\ recvAt \in [Runners -> {"ack", "group", "wait", "over"}] /\ recvGroup \in [Runners -> Nat]
    /\ waited \in [Runners -> 0..1] /\ statuslist \in [Transfers -> 0..1] /\ resDict \in [Transfers -> 0..1]
    /\ reply \in [Runners -> {"none", "ok", "error"}]
    /\ saveAt \in [Transfers -> {"exists", "rename", "open", "copy", "check", "stat", "good", "failed", "over"}]
    /\ onDisk \in [FrameIds -> Files \cup {NoFile}] /\ renamed \in [FrameIds -> SUBSET Files]
    /\ target \in [Transfers -> Files \cup {NoFile}] /\ fullSize \subseteq Files /\ readOnly \subseteq Files

\* No frame is asked for more than twice while the program runs.
AskedTwiceAtMost ==
    \A f, g, h \in Transfers :
        FrameId[f] = FrameId[g] /\ FrameId[g] = FrameId[h] => f = g \/ g = h \/ f = h

\* A file that a transfer has brought completely is still there.
Complete(f) ==
    \E file \in Transfers \cap fullSize \cap readOnly :
        FrameId[file] = FrameId[f] /\ file \in renamed[FrameId[f]] \cup {onDisk[FrameId[f]]}

\* A request answered with result 0 has left a complete file of each of its
\* frames, under its name or renamed, although the transfers of two requests
\* for the same frame rename, truncate and chmod each other's files and a file
\* from before is in their way (save_fits, DE of file_recv).  It is not so of
\* three requests: when two files are renamed in the same second, the first of
\* them, which may have been answered for, is gone.
ReceivedIsOnDisk ==
    AskedTwiceAtMost => \A r \in Runners : reply[r] = "ok" => \A f \in FramesOf(r) : Complete(f)

\* A request is answered with a DE once it has got to its frames, also when its
\* transfers fail or take too long, or all workers are busy with requests;
\* except when something raises that is no TaskError: file_recv passes it on,
\* and there is no DE although the results were preset to errors.  A request
\* that is dropped, cannot be unpacked or names no frames does not get there:
\* it is never answered with a DE, even if it was acknowledged.
RequestIsAnswered ==
    \A r \in Runners : (recvAt[r] = "group") ~> (reply[r] # "none" \/ setResult[r] = "error")
=============================================================================
