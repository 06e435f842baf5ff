------------------------------ MODULE InsCommand ------------------------------
(***************************************************************************)
(* The command channel to an instrument (DDCommandChannel of INSint.py):   *)
(* a command is sent by RPC under a new sequence number, the instrument's  *)
(* computer (OBCP) answers with an AB (acknowledged) and an EN (ended),    *)
(* and the answers find the command by that number.  The sends and the     *)
(* answers are tasks of a thread pool, so they interleave freely.          *)
(***************************************************************************)
EXTENDS Naturals, FiniteSets

CONSTANTS Tags,         \* commands, by the tag the task manager gave them
          NoTag,
          InsMaxFaults  \* bound on repeated or failed calls, lost answers, restarts

ASSUME InsAssumption == IsFiniteSet(Tags) /\ NoTag \notin Tags /\ InsMaxFaults \in Nat

VARIABLES insSeq,       \* seq_num: the next sequence number
          insTrans,     \* db["cmd.<n>"]: the tag a sequence number stands for
          insDb,        \* db[tag]: the record of a command
          insSend,      \* how far the sending of a command has come
          insTasks,     \* answers a thread of the pool is processing
          obcp,         \* commands the instrument is executing
          insNet,       \* answers under way or in the queue of tasks
          insFaults, insRestarts,
          obcpSaid      \* what the instrument has said of each command so far

insVars == <<insSeq, insTrans, insDb, insSend, insTasks, obcp, insNet, insFaults, insRestarts, obcpSaid>>

Seqs == 0..Cardinality(Tags)
EmptyRecord == [fields |-> {}, seq |-> 0, done |-> FALSE, result |-> "none"]
Fault == insFaults < InsMaxFaults /\ insFaults' = insFaults + 1

InsInit ==
    /\ insSeq = 0 /\ insTrans = [n \in Seqs |-> NoTag]
    /\ insDb = [t \in Tags |-> EmptyRecord] /\ insSend = [t \in Tags |-> "none"]
    /\ insTasks = {} /\ obcp = {} /\ insNet = {}
    /\ insFaults = 0 /\ insRestarts = 0 /\ obcpSaid = [t \in Tags |-> {}]
-----------------------------------------------------------------------------
(* The transaction table.                                                   *)

\* del_trans looks for the fields cmd, ack and end, while the records hold
\* cmd_time, ack_time and end_time.
DelTrans(n, t) ==
    IF {"cmd", "ack", "end"} \subseteq insDb[t].fields THEN [insTrans EXCEPT ![n] = NoTag]
    ELSE insTrans

\* cmd_error: the waiters are told that the command has failed.
Failed(t) == [insDb EXCEPT ![t].done = TRUE, ![t].result = "error"]
-----------------------------------------------------------------------------
(* Sending.                                                                 *)

\* ocsInsInt.send_cmd.  A call that is repeated for a tag that is there marks
\* the command as done, with no result.
SendCmd(t) ==
    \/ /\ insSend[t] = "none" /\ insSend' = [insSend EXCEPT ![t] = "queued"]
       /\ UNCHANGED <<insSeq, insTrans, insDb, insTasks, obcp, insNet, insFaults, insRestarts, obcpSaid>>
    \/ /\ insSend[t] \notin {"none", "lost"} /\ Fault
       /\ insDb' = [insDb EXCEPT ![t].done = TRUE]
       /\ UNCHANGED <<insSeq, insTrans, insSend, insTasks, obcp, insNet, insRestarts, obcpSaid>>

\* cmd_send up to the call: a new number, the record of the command, the
\* transaction.  Nobody else knows the number before the call is made.
NewNumber(t) ==
    /\ insSend[t] = "queued"
    /\ insSeq' = insSeq + 1
    /\ LET known == [insDb[t] EXCEPT !.seq = insSeq, !.fields = @ \cup {"cmd_time"}] IN
       \/ /\ insTrans[insSeq] = NoTag
          /\ insTrans' = [insTrans EXCEPT ![insSeq] = t]
          /\ insDb' = [insDb EXCEPT ![t] = known]
          /\ insSend' = [insSend EXCEPT ![t] = "linked"]
       \/ /\ insTrans[insSeq] # NoTag
          /\ insDb' = [insDb EXCEPT ![t] = [known EXCEPT !.done = TRUE, !.result = "error"]]
          /\ insTrans' = DelTrans(insSeq, t)
          /\ insSend' = [insSend EXCEPT ![t] = "sent"]
    /\ UNCHANGED <<insTasks, obcp, insNet, insFaults, insRestarts, obcpSaid>>

\* lazyClient.callrpc tries twice.  The instrument may have got the command
\* although the call failed, and twice if only the first reply was lost.
CallRpc(t) ==
    /\ insSend[t] = "linked" /\ insSend' = [insSend EXCEPT ![t] = "sent"]
    /\ \E copies \in 0..2, ok \in BOOLEAN :
        /\ ok => copies > 0
        /\ IF ok /\ copies = 1 THEN UNCHANGED insFaults ELSE Fault
        /\ obcp' = obcp \cup {[seq |-> insDb[t].seq, of |-> t, copy |-> k, at |-> "got"] : k \in 1..copies}
        /\ insDb' = IF ok THEN insDb ELSE Failed(t)
        /\ insTrans' = IF ok THEN insTrans ELSE DelTrans(insDb[t].seq, t)
    /\ UNCHANGED <<insSeq, insTasks, insNet, insRestarts, obcpSaid>>
-----------------------------------------------------------------------------
(* The instrument.                                                          *)

Said(t, what) == [obcpSaid EXCEPT ![t] = @ \cup {what}]
Answer(x, kind, res) == [kind |-> kind, res |-> res, seq |-> x.seq, of |-> x.of, copy |-> x.copy]

ObcpAck(x) ==
    /\ x.at = "got"
    /\ \E res \in {"ok", "error"} :
        /\ insNet' = insNet \cup {Answer(x, "AB", res)}
        /\ obcp' = (obcp \ {x}) \cup (IF res = "ok" THEN {[x EXCEPT !.at = "running"]} ELSE {})
        /\ obcpSaid' = IF res = "ok" THEN obcpSaid ELSE Said(x.of, "error")
    /\ UNCHANGED <<insSeq, insTrans, insDb, insSend, insTasks, insFaults, insRestarts>>

ObcpEnd(x) ==
    /\ x.at = "running"
    /\ \E res \in {"ok", "error"} :
        /\ insNet' = insNet \cup {Answer(x, "EN", res)}
        /\ obcpSaid' = Said(x.of, res)
    /\ obcp' = obcp \ {x}
    /\ UNCHANGED <<insSeq, insTrans, insDb, insSend, insTasks, insFaults, insRestarts>>

Lose(m) ==
    /\ Fault /\ insNet' = insNet \ {m}
    /\ UNCHANGED <<insSeq, insTrans, insDb, insSend, insTasks, obcp, insRestarts, obcpSaid>>
-----------------------------------------------------------------------------
(* Answers: cmd_recv, one task of the pool per answer.                      *)

TimeOf(kind) == IF kind = "AB" THEN "ack_time" ELSE "end_time"

\* get_trans, and the test for an answer of that kind; with no command of that
\* number the answer is only logged.
Lookup(m) ==
    /\ insNet' = insNet \ {m}
    /\ LET t == insTrans[m.seq] IN
       IF t = NoTag THEN UNCHANGED insTasks
       ELSE insTasks' = insTasks \cup
                {[msg |-> m, tag |-> t, at |-> IF TimeOf(m.kind) \in insDb[t].fields THEN "error" ELSE "record"]}
    /\ UNCHANGED <<insSeq, insTrans, insDb, insSend, obcp, insFaults, insRestarts, obcpSaid>>

\* Mutants: the result of an EN is not looked at; an EN before its AB is an error.
Record_IgnoresResult(x) ==
    /\ x.at = "record"
    /\ insDb' = [insDb EXCEPT ![x.tag].fields = @ \cup {TimeOf(x.msg.kind)}]
    /\ insTasks' = (insTasks \ {x}) \cup {[x EXCEPT !.at = IF x.msg.kind = "EN" THEN "complete" ELSE "forget"]}
    /\ UNCHANGED <<insSeq, insTrans, insSend, obcp, insNet, insFaults, insRestarts, obcpSaid>>

Record_AckFirst(x) ==
    /\ x.at = "record"
    /\ insDb' = [insDb EXCEPT ![x.tag].fields = @ \cup {TimeOf(x.msg.kind)}]
    /\ insTasks' = (insTasks \ {x}) \cup {[x EXCEPT !.at =
                       IF x.msg.res = "error" \/ (x.msg.kind = "EN" /\ "ack_time" \notin insDb[x.tag].fields)
                       THEN "error" ELSE IF x.msg.kind = "EN" THEN "complete" ELSE "forget"]}
    /\ UNCHANGED <<insSeq, insTrans, insSend, obcp, insNet, insFaults, insRestarts, obcpSaid>>

\* validate_ack and validate_end: an EN before its AB is accepted.
Record(x) ==
    /\ x.at = "record"
    /\ insDb' = [insDb EXCEPT ![x.tag].fields = @ \cup {TimeOf(x.msg.kind)}]
    /\ insTasks' = (insTasks \ {x}) \cup {[x EXCEPT !.at = IF x.msg.res = "error" \/ "cmd_time" \notin insDb[x.tag].fields
                                 THEN "error"
                                 ELSE IF x.msg.kind = "EN" THEN "complete" ELSE "forget"]}
    /\ UNCHANGED <<insSeq, insTrans, insSend, obcp, insNet, insFaults, insRestarts, obcpSaid>>

\* Mutant: the waiters are not released.
Finish_Silent(x) ==
    /\ x.at \in {"complete", "error", "forget"}
    /\ insTrans' = DelTrans(x.msg.seq, x.tag)
    /\ insTasks' = insTasks \ {x}
    /\ UNCHANGED <<insSeq, insDb, insSend, obcp, insNet, insFaults, insRestarts, obcpSaid>>

Finish(x) ==
    /\ x.at \in {"complete", "error", "forget"}
    /\ insDb' = CASE x.at = "complete" -> [insDb EXCEPT ![x.tag].done = TRUE, ![x.tag].result = "ok"]
                  [] x.at = "error" -> Failed(x.tag)
                  [] x.at = "forget" -> insDb
    /\ insTrans' = DelTrans(x.msg.seq, x.tag)
    /\ insTasks' = insTasks \ {x}
    /\ UNCHANGED <<insSeq, insSend, obcp, insNet, insFaults, insRestarts, obcpSaid>>
-----------------------------------------------------------------------------
\* The process is started again: nothing has stored the sequence number, so
\* it starts at 0 with an empty database, while the instrument goes on.
InsRestart ==
    /\ Fault /\ insRestarts' = insRestarts + 1
    /\ insSeq' = 0 /\ insTrans' = [n \in Seqs |-> NoTag] /\ insTasks' = {}
    /\ insDb' = [t \in Tags |-> EmptyRecord]
    /\ insSend' = [t \in Tags |-> IF insSend[t] = "none" THEN "none" ELSE "lost"]
    /\ UNCHANGED <<obcp, insNet, obcpSaid>>

Sender(t) == NewNumber(t) \/ CallRpc(t)
Receiver == (\E m \in insNet : Lookup(m)) \/ (\E x \in insTasks : Record(x) \/ Finish(x))

InsNext ==
    \/ \E t \in Tags : SendCmd(t) \/ Sender(t)
    \/ \E x \in obcp : ObcpAck(x) \/ ObcpEnd(x)
    \/ \E m \in insNet : Lose(m)
    \/ Receiver \/ InsRestart

InsSpec == InsInit /\ [][InsNext]_insVars

\* The pool runs its tasks, the transport delivers what is not lost.
InsFairness == (\A t \in Tags : WF_insVars(Sender(t))) /\ WF_insVars(Receiver)
-----------------------------------------------------------------------------
(* Properties.                                                              *)

MsgType == [kind : {"AB", "EN"}, res : {"ok", "error"}, seq : Seqs, of : Tags, copy : 1..2]

\* Types of the command channel's state.
InsTypeOK ==
    /\ insSeq \in Seqs /\ insTrans \in [Seqs -> Tags \cup {NoTag}]
    /\ insDb \in [Tags -> [fields : SUBSET {"cmd_time", "ack_time", "end_time"}, seq : Seqs,
                           done : BOOLEAN, result : {"none", "ok", "error"}]]
    /\ insSend \in [Tags -> {"none", "queued", "linked", "sent", "lost"}]
    /\ insTasks \subseteq [msg : MsgType, at : {"record", "complete", "error", "forget"},
                           tag : Tags]
    /\ obcp \subseteq [seq : Seqs, of : Tags, copy : 1..2, at : {"got", "running"}]
    /\ insNet \subseteq MsgType /\ insFaults \in 0..InsMaxFaults /\ insRestarts \in 0..InsMaxFaults
    /\ obcpSaid \in [Tags -> SUBSET {"ok", "error"}]

\* Until the process is restarted, a command is reported as done with result 0
\* only if the instrument has ended that command well, whatever calls are
\* repeated, fail or are overtaken (sequence numbers of cmd_send, cmd_recv).
OkOnlyIfEnded ==
    insRestarts = 0 => \A t \in Tags : insDb[t].result = "ok" => "ok" \in obcpSaid[t]

\* With nothing repeated, lost or refused a command never fails, in whatever
\* order the tasks process the AB and the EN (validate_end).
NoFalseFailure ==
    insFaults = 0 => \A t \in Tags : insDb[t].result = "error" => "error" \in obcpSaid[t]

\* With no fault, an EN on its way makes its command done (cmd_recv, cmd_error).
EndIsReported ==
    \A t \in Tags :
        (\E m \in insNet : m.kind = "EN" /\ m.of = t)
            ~> (insDb[t].result # "none" \/ insFaults > 0)
=============================================================================
