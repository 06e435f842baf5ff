----------------------------- MODULE InsInt_proofs -----------------------------
(***************************************************************************)
(* The instrument interface for every number of commands, requests, frames *)
(* and faults.  Commands: del_trans never deletes, so a number that has    *)
(* been given out keeps standing for its command, and an answer finds the  *)
(* command it belongs to until the process is started again; without a     *)
(* fault each answer is said once and is on its way, held or recorded.     *)
(* Files: a transfer truncates no read-only file; and where a frame is     *)
(* asked for twice at most, a file that a transfer has brought is renamed  *)
(* only by the other one, so that neither of them renames another over it. *)
(* Tasks: a concurrent set drops a child from its list only when it *)
(* has seen it end, a sequence goes on only when it has.                   *)
(***************************************************************************)
EXTENDS InsCommand, FileRecv, FiniteSetTheorems, TLAPS

Numbered == {t \in Tags : insSend[t] \in {"linked", "sent"}}
DbType == [fields : SUBSET {"cmd_time", "ack_time", "end_time"}, seq : Seqs,
           done : BOOLEAN, result : {"none", "ok", "error"}]
TaskType == [msg : MsgType, at : {"record", "complete", "error", "forget"}, tag : Tags]
ObcpType == [seq : Seqs, of : Tags, copy : 1..2, at : {"got", "running"}]

CommandTypes ==
    /\ insSeq \in Seqs /\ insTrans \in [Seqs -> Tags \cup {NoTag}] /\ insDb \in [Tags -> DbType]
    /\ insSend \in [Tags -> {"none", "queued", "linked", "sent", "lost"}]
    /\ insTasks \subseteq TaskType /\ obcp \subseteq ObcpType /\ insNet \subseteq MsgType
    /\ insRestarts \in Nat /\ insFaults \in 0..InsMaxFaults /\ insRestarts <= insFaults
    /\ obcpSaid \in [Tags -> SUBSET {"ok", "error"}]

\* What the instrument has been told, and what it says, bears the number of
\* the command it is about.
NumbersFit ==
    /\ \A n \in Seqs : n >= insSeq => insTrans[n] = NoTag
    /\ \A t \in Tags : insSend[t] = "linked" => insTrans[insDb[t].seq] = t
    /\ \A x \in obcp : insTrans[x.seq] = x.of
    /\ \A m \in insNet : insTrans[m.seq] = m.of
    /\ \A x \in insTasks : x.tag = x.msg.of

Truthful(m) == m.kind = "EN" /\ m.res = "ok" => "ok" \in obcpSaid[m.of]
ResultsTrue ==
    /\ \A m \in insNet : Truthful(m)
    /\ \A x \in insTasks : Truthful(x.msg) /\ (x.at = "complete" => "ok" \in obcpSaid[x.tag])
    /\ \A t \in Tags : insDb[t].result = "ok" => "ok" \in obcpSaid[t]

CommandInv ==
    /\ CommandTypes /\ insSeq = Cardinality(Numbered)
    /\ insRestarts = 0 => NumbersFit /\ ResultsTrue
-----------------------------------------------------------------------------
\* del_trans deletes nothing: no record has the fields it looks for.
LEMMA NothingIsDeleted ==
    ASSUME CommandTypes, NEW n, NEW t \in Tags
    PROVE  DelTrans(n, t) = insTrans
<1>1. insDb[t] \in DbType
  BY DEF CommandTypes
<1>2. insDb[t].fields \subseteq {"cmd_time", "ack_time", "end_time"}
  BY <1>1 DEF DbType
<1>3. "cmd" \notin insDb[t].fields
  BY <1>2
<1> QED BY <1>3 DEF DelTrans

\* What the steps change in the record of a command.
LEMMA RecordUpdates ==
    ASSUME NEW d \in DbType, NEW n \in Seqs, NEW fs \in SUBSET {"cmd_time", "ack_time", "end_time"},
           NEW res \in {"ok", "error"}
    PROVE  /\ [d EXCEPT !.done = TRUE] \in DbType /\ [d EXCEPT !.done = TRUE].result = d.result
           /\ [d EXCEPT !.done = TRUE, !.result = res] \in DbType
           /\ [d EXCEPT !.done = TRUE, !.result = res].result = res
           /\ [d EXCEPT !.seq = n, !.fields = fs] \in DbType
           /\ [d EXCEPT !.seq = n, !.fields = fs].seq = n
           /\ [d EXCEPT !.seq = n, !.fields = fs].result = d.result
           /\ [d EXCEPT !.fields = fs] \in DbType /\ [d EXCEPT !.fields = fs].result = d.result
           /\ [d EXCEPT !.fields = fs].seq = d.seq /\ [d EXCEPT !.done = TRUE].seq = d.seq
           /\ [d EXCEPT !.done = TRUE, !.result = res].seq = d.seq
<1>1. PICK a : a = [d EXCEPT !.done = TRUE]
  OBVIOUS
<1>2. a \in DbType /\ a.result = d.result /\ a.seq = d.seq
  BY <1>1 DEF DbType
<1>3. PICK b : b = [d EXCEPT !.done = TRUE, !.result = res]
  OBVIOUS
<1>4. b \in DbType /\ b.result = res /\ b.seq = d.seq
  BY <1>3 DEF DbType
<1>5. PICK e : e = [d EXCEPT !.seq = n, !.fields = fs]
  OBVIOUS
<1>6. e \in DbType /\ e.result = d.result /\ e.seq = n
  BY <1>5 DEF DbType
<1>7. PICK f : f = [d EXCEPT !.fields = fs]
  OBVIOUS
<1>8. f \in DbType /\ f.result = d.result /\ f.seq = d.seq
  BY <1>7 DEF DbType
<1> QED BY <1>1, <1>2, <1>3, <1>4, <1>5, <1>6, <1>7, <1>8

\* A step that changes the record of one command.
LEMMA OneRecord ==
    ASSUME CommandInv, NEW t \in Tags, NEW d \in DbType, insDb' = [insDb EXCEPT ![t] = d],
           d.seq = insDb[t].seq, insRestarts' = insRestarts, insFaults' \in 0..InsMaxFaults,
           insRestarts <= insFaults', insTrans' = insTrans,
           insRestarts = 0 => (d.result = "ok" => "ok" \in obcpSaid[t]),
           UNCHANGED <<insSeq, insSend, obcp, insNet, obcpSaid>>,
           insTasks' \subseteq TaskType,
           insRestarts = 0 => \A x \in insTasks' :
               x.tag = x.msg.of /\ Truthful(x.msg) /\ (x.at = "complete" => "ok" \in obcpSaid[x.tag])
    PROVE  CommandInv'
<1>1. insDb' \in [Tags -> DbType]
  BY DEF CommandInv, CommandTypes
<1>2. \A u \in Tags : insDb'[u].seq = insDb[u].seq
  BY DEF CommandInv, CommandTypes
<1>3. CommandTypes' /\ Numbered' = Numbered
  BY <1>1 DEF CommandInv, CommandTypes, Numbered
<1>4. ASSUME insRestarts = 0 PROVE NumbersFit'
  BY <1>2, <1>4 DEF CommandInv, NumbersFit
<1>5. ASSUME insRestarts = 0 PROVE ResultsTrue'
  <2>1. \A u \in Tags : insDb'[u].result = "ok" => "ok" \in obcpSaid[u]
    BY <1>5 DEF CommandInv, CommandTypes, ResultsTrue
  <2> QED BY <1>5, <2>1 DEF CommandInv, ResultsTrue, Truthful
<1> QED BY <1>3, <1>4, <1>5 DEF CommandInv
-----------------------------------------------------------------------------
(* The steps.                                                               *)

\* The channel begins with nothing sent.
LEMMA CommandInit == InsInit => CommandInv
<1> SUFFICES ASSUME InsInit PROVE CommandInv
  OBVIOUS
<1>1. IsFiniteSet(Tags) /\ Cardinality(Tags) \in Nat /\ InsMaxFaults \in Nat
  BY InsAssumption, FS_CardinalityType
<1>2. 0 \in Seqs
  BY <1>1 DEF Seqs
<1>3. EmptyRecord \in DbType /\ EmptyRecord.result = "none"
  BY <1>2 DEF EmptyRecord, DbType
<1>4. CommandTypes
  BY <1>1, <1>2, <1>3 DEF InsInit, CommandTypes
<1>5. Numbered = {}
  BY DEF InsInit, Numbered
<1>6. NumbersFit
  BY DEF InsInit, NumbersFit
<1>7. ResultsTrue
  BY <1>3 DEF InsInit, ResultsTrue
<1> QED BY <1>4, <1>5, <1>6, <1>7, FS_EmptySet DEF CommandInv, InsInit

\* Giving out one more number: there is one for every command.
LEMMA OneMoreNumber ==
    ASSUME CommandInv, NEW t \in Tags, insSend[t] = "queued", NEW x \in {"linked", "sent"},
           insSend' = [insSend EXCEPT ![t] = x], insSeq' = insSeq + 1
    PROVE  insSeq' \in Seqs /\ insSeq' = Cardinality(Numbered')
<1>1. Numbered' = Numbered \cup {t} /\ t \notin Numbered
  BY DEF CommandInv, CommandTypes, Numbered
<1>2. Numbered \subseteq Tags /\ Numbered' \subseteq Tags
  BY <1>1 DEF Numbered
<1>3. IsFiniteSet(Numbered) /\ IsFiniteSet(Tags)
  BY <1>2, InsAssumption, FS_Subset
<1>4. Cardinality(Numbered') = Cardinality(Numbered) + 1
  BY <1>1, <1>3, FS_AddElement
<1>5. Cardinality(Numbered') <= Cardinality(Tags) /\ Cardinality(Numbered) \in Nat
      /\ Cardinality(Tags) \in Nat
  BY <1>2, <1>3, FS_Subset, FS_CardinalityType
<1> QED BY <1>4, <1>5 DEF CommandInv, Seqs

\* cmd_send gives the command a number nothing else stands for.
LEMMA NewNumberInv == ASSUME CommandInv, NEW t \in Tags, NewNumber(t) PROVE CommandInv'
<1> USE DEF CommandInv
<1>1. insSeq \in Seqs /\ insDb[t] \in DbType /\ insSend[t] = "queued" /\ insSeq' = insSeq + 1
  BY DEF CommandTypes, NewNumber
<1>2. PICK fs : fs = insDb[t].fields \cup {"cmd_time"}
  OBVIOUS
<1>3. fs \in SUBSET {"cmd_time", "ack_time", "end_time"}
  BY <1>1, <1>2 DEF DbType
<1>4. PICK d : d = [insDb[t] EXCEPT !.seq = insSeq, !.fields = fs]
  OBVIOUS
<1>5. d \in DbType /\ d.seq = insSeq /\ d.result = insDb[t].result
  <2>1. PICK r : r = insDb[t]
    OBVIOUS
  <2>2. d = [r EXCEPT !.seq = insSeq, !.fields = fs] /\ r \in DbType
    BY <1>1, <1>4, <2>1
  <2>3. d \in DbType /\ d.seq = insSeq /\ d.result = r.result
    BY <1>1, <1>3, <2>2 DEF DbType
  <2> QED BY <2>1, <2>3
<1>6. CASE insTrans[insSeq] = NoTag
  <2>1. insDb' = [insDb EXCEPT ![t] = d] /\ insTrans' = [insTrans EXCEPT ![insSeq] = t]
        /\ insSend' = [insSend EXCEPT ![t] = "linked"]
    BY <1>2, <1>4, <1>6 DEF NewNumber
  <2>2. insSeq' \in Seqs /\ insSeq' = Cardinality(Numbered')
    BY <1>1, <2>1, OneMoreNumber
  <2>3. insDb' \in [Tags -> DbType]
    BY <1>5, <2>1 DEF CommandTypes
  <2>4. CommandTypes'
    BY <2>1, <2>2, <2>3 DEF CommandTypes, NewNumber
  <2>5. ASSUME insRestarts = 0 PROVE NumbersFit'
    <3>1. \A n \in Seqs : n >= insSeq' => insTrans'[n] = NoTag
      <4>1. insSeq \in Nat
        BY <1>1 DEF Seqs
      <4>2. \A n \in Seqs : n >= insSeq' => n >= insSeq /\ n # insSeq
        BY <1>1, <4>1 DEF Seqs
      <4> QED BY <2>1, <2>5, <4>2 DEF NumbersFit, CommandTypes
    <3>2. \A n \in Seqs : insTrans[n] \in Tags => insTrans'[n] = insTrans[n]
      BY <1>6, <2>1, InsAssumption DEF CommandTypes
    <3>3. \A u \in Tags : insSend'[u] = "linked" => insTrans'[insDb'[u].seq] = u
      <4> SUFFICES ASSUME NEW u \in Tags, insSend'[u] = "linked" PROVE insTrans'[insDb'[u].seq] = u
        OBVIOUS
      <4>1. CASE u = t
        BY <1>1, <1>5, <2>1, <4>1 DEF CommandTypes
      <4>2. CASE u # t
        <5>1. insDb'[u] = insDb[u] /\ insSend[u] = "linked" /\ insDb[u] \in DbType
          BY <2>1, <4>2 DEF CommandTypes
        <5>2. insDb[u].seq \in Seqs
          BY <5>1 DEF DbType
        <5> QED BY <2>5, <3>2, <5>1, <5>2 DEF NumbersFit
      <4> QED BY <4>1, <4>2
    <3>4. \A x \in obcp : insTrans[x.seq] = x.of /\ x.seq \in Seqs /\ x.of \in Tags
      BY <2>5 DEF NumbersFit, CommandTypes, ObcpType
    <3>5. \A m \in insNet : insTrans[m.seq] = m.of /\ m.seq \in Seqs /\ m.of \in Tags
      BY <2>5 DEF NumbersFit, CommandTypes, MsgType
    <3>6. obcp' = obcp /\ insNet' = insNet /\ insTasks' = insTasks
      BY DEF NewNumber
    <3>7. \A x \in obcp' : insTrans'[x.seq] = x.of
      BY <3>2, <3>4, <3>6
    <3>8. \A m \in insNet' : insTrans'[m.seq] = m.of
      BY <3>2, <3>5, <3>6
    <3> QED BY <2>5, <3>1, <3>3, <3>6, <3>7, <3>8 DEF NumbersFit
  <2>6. ASSUME insRestarts = 0 PROVE ResultsTrue'
    <3>1. \A u \in Tags : insDb'[u].result = insDb[u].result
      BY <1>5, <2>1 DEF CommandTypes
    <3> QED BY <2>6, <3>1 DEF ResultsTrue, Truthful, NewNumber
  <2>7. insRestarts' = insRestarts
    BY DEF NewNumber
  <2> QED BY <2>2, <2>4, <2>5, <2>6, <2>7
<1>7. CASE insTrans[insSeq] # NoTag
  <2>1. PICK e : e = [d EXCEPT !.done = TRUE, !.result = "error"]
    OBVIOUS
  <2>2. e \in DbType
    BY <1>1, <1>3, <1>5, <2>1, RecordUpdates
  <2>3. insDb' = [insDb EXCEPT ![t] = e] /\ insSend' = [insSend EXCEPT ![t] = "sent"]
    BY <1>2, <1>4, <1>7, <2>1 DEF NewNumber
  <2>4. insTrans' = insTrans
    BY <1>7, NothingIsDeleted DEF NewNumber
  <2>5. insSeq' \in Seqs /\ insSeq' = Cardinality(Numbered')
    BY <1>1, <2>3, OneMoreNumber
  <2>6. CommandTypes'
    BY <2>2, <2>3, <2>4, <2>5 DEF CommandTypes, NewNumber
  <2>7. insRestarts # 0
    <3>1. insSeq \in Nat
      BY <1>1 DEF Seqs
    <3> QED BY <1>1, <1>7, <3>1 DEF NumbersFit
  <2> QED BY <2>5, <2>6, <2>7 DEF NewNumber
<1> QED BY <1>6, <1>7

\* send_cmd queues a command, or finds it done.
LEMMA SendCmdInv == ASSUME CommandInv, NEW t \in Tags, SendCmd(t) PROVE CommandInv'
<1>1. CASE insSend' = [insSend EXCEPT ![t] = "queued"] /\ insSend[t] = "none"
           /\ UNCHANGED <<insSeq, insTrans, insDb, insTasks, obcp, insNet, insFaults, insRestarts, obcpSaid>>
  <2>1. CommandTypes'
    BY <1>1 DEF CommandInv, CommandTypes
  <2>2. Numbered' = Numbered
    BY <1>1 DEF CommandInv, CommandTypes, Numbered
  <2>3. ASSUME insRestarts = 0 PROVE NumbersFit' /\ ResultsTrue'
    <3>1. \A u \in Tags : insSend'[u] = "linked" => insSend[u] = "linked"
      BY <1>1 DEF CommandInv, CommandTypes
    <3> QED BY <1>1, <2>3, <3>1 DEF CommandInv, NumbersFit, ResultsTrue, Truthful
  <2> QED BY <1>1, <2>1, <2>2, <2>3 DEF CommandInv
<1>2. CASE Fault /\ insDb' = [insDb EXCEPT ![t].done = TRUE]
           /\ UNCHANGED <<insSeq, insTrans, insSend, insTasks, obcp, insNet, insRestarts, obcpSaid>>
  <2>1. PICK r : r = insDb[t]
    OBVIOUS
  <2>2. PICK d : d = [r EXCEPT !.done = TRUE]
    OBVIOUS
  <2>3. r \in DbType
    BY <2>1 DEF CommandInv, CommandTypes
  <2>4. d \in DbType /\ d.seq = r.seq /\ d.result = r.result
    BY <2>2, <2>3 DEF DbType
  <2>5. insDb' = [insDb EXCEPT ![t] = d]
    BY <1>2, <2>1, <2>2
  <2>6. insFaults' \in 0..InsMaxFaults /\ insRestarts <= insFaults'
    BY <1>2, InsAssumption DEF Fault, CommandInv, CommandTypes
  <2>7. insTasks' \subseteq TaskType
    BY <1>2 DEF CommandInv, CommandTypes
  <2>8. insRestarts = 0 => (d.result = "ok" => "ok" \in obcpSaid[t])
    BY <2>1, <2>4 DEF CommandInv, ResultsTrue
  <2>9. insRestarts = 0 => \A x \in insTasks' :
               x.tag = x.msg.of /\ Truthful(x.msg) /\ (x.at = "complete" => "ok" \in obcpSaid[x.tag])
    BY <1>2 DEF CommandInv, NumbersFit, ResultsTrue
  <2> QED BY <1>2, <2>1, <2>4, <2>5, <2>6, <2>7, <2>8, <2>9, OneRecord
<1> QED BY <1>1, <1>2 DEF SendCmd

\* The call hands the number of the command to the instrument, or fails.
LEMMA CallRpcInv == ASSUME CommandInv, NEW t \in Tags, CallRpc(t) PROVE CommandInv'
<1>1. insSend[t] = "linked" /\ insSend' = [insSend EXCEPT ![t] = "sent"] /\ insDb[t] \in DbType
      /\ UNCHANGED <<insSeq, insTasks, insNet, insRestarts, obcpSaid>>
  BY DEF CallRpc, CommandInv, CommandTypes
<1>2. insTrans' = insTrans
  BY NothingIsDeleted DEF CallRpc, CommandInv
<1>3. PICK n : n = insDb[t].seq
  OBVIOUS
<1>4. n \in Seqs
  BY <1>1, <1>3 DEF DbType
<1>5. insFaults' \in 0..InsMaxFaults /\ insRestarts <= insFaults'
  BY InsAssumption DEF CallRpc, Fault, CommandInv, CommandTypes
<1>6. PICK copies \in 0..2 :
          obcp' = obcp \cup {[seq |-> n, of |-> t, copy |-> k, at |-> "got"] : k \in 1..copies}
  BY <1>3 DEF CallRpc
<1>7. obcp' \subseteq ObcpType
  <2>1. 1..copies \subseteq 1..2
    OBVIOUS
  <2>2. \A k \in 1..copies : [seq |-> n, of |-> t, copy |-> k, at |-> "got"] \in ObcpType
    BY <1>4, <2>1 DEF ObcpType
  <2> QED BY <1>6, <2>2 DEF CommandInv, CommandTypes
<1>8. insDb' \in [Tags -> DbType]
      /\ \A u \in Tags : insDb'[u].seq = insDb[u].seq /\ (insDb'[u].result = "ok" => insDb[u].result = "ok")
  <2>1. CASE insDb' = insDb
    BY <2>1 DEF CommandInv, CommandTypes
  <2>2. CASE insDb' = Failed(t)
    <3>1. PICK r : r = insDb[t]
      OBVIOUS
    <3>2. PICK d : d = [r EXCEPT !.done = TRUE, !.result = "error"]
      OBVIOUS
    <3>3. d \in DbType /\ d.seq = r.seq /\ d.result = "error"
      BY <1>1, <3>1, <3>2 DEF DbType
    <3>4. insDb' = [insDb EXCEPT ![t] = d]
      BY <2>2, <3>1, <3>2 DEF Failed, CommandInv, CommandTypes
    <3> QED BY <3>1, <3>3, <3>4 DEF CommandInv, CommandTypes
  <2> QED BY <2>1, <2>2 DEF CallRpc
<1>9. CommandTypes' /\ Numbered' = Numbered
  <2>1. CommandTypes'
    BY <1>1, <1>2, <1>5, <1>7, <1>8 DEF CommandInv, CommandTypes
  <2>2. Numbered' = Numbered
    BY <1>1 DEF CommandInv, CommandTypes, Numbered
  <2> QED BY <2>1, <2>2
<1>10. ASSUME insRestarts = 0 PROVE NumbersFit' /\ ResultsTrue'
  <2>1. insTrans[n] = t
    BY <1>1, <1>3, <1>10 DEF CommandInv, NumbersFit
  <2>2. \A x \in obcp' : insTrans'[x.seq] = x.of
    BY <1>2, <1>6, <1>10, <2>1 DEF CommandInv, NumbersFit
  <2>3. \A u \in Tags : insSend'[u] = "linked" => insSend[u] = "linked"
    BY <1>1 DEF CommandInv, CommandTypes
  <2>4. NumbersFit'
    BY <1>1, <1>2, <1>8, <1>10, <2>2, <2>3 DEF CommandInv, NumbersFit
  <2>5. ResultsTrue'
    BY <1>1, <1>8, <1>10 DEF CommandInv, ResultsTrue, Truthful
  <2> QED BY <2>4, <2>5
<1> QED BY <1>1, <1>9, <1>10 DEF CommandInv

\* The instrument acknowledges or refuses under the number it was given.
LEMMA ObcpAckInv == ASSUME CommandInv, NEW x \in obcp, ObcpAck(x) PROVE CommandInv'
<1>1. x \in ObcpType
  BY DEF CommandInv, CommandTypes
<1>2. x.seq \in Seqs /\ x.of \in Tags /\ x.copy \in 1..2
  BY <1>1 DEF ObcpType
<1>3. PICK res \in {"ok", "error"} :
          /\ insNet' = insNet \cup {Answer(x, "AB", res)}
          /\ obcp' = (obcp \ {x}) \cup (IF res = "ok" THEN {[x EXCEPT !.at = "running"]} ELSE {})
          /\ obcpSaid' = IF res = "ok" THEN obcpSaid ELSE Said(x.of, "error")
  BY DEF ObcpAck
<1>4. PICK m : m = Answer(x, "AB", res)
  OBVIOUS
<1>5. m \in MsgType /\ m.seq = x.seq /\ m.of = x.of /\ m.kind = "AB"
  BY <1>2, <1>4 DEF Answer, MsgType
<1>6. PICK y : y = [x EXCEPT !.at = "running"]
  OBVIOUS
<1>7. y \in ObcpType /\ y.seq = x.seq /\ y.of = x.of
  BY <1>1, <1>6 DEF ObcpType
<1>8. obcpSaid' \in [Tags -> SUBSET {"ok", "error"}] /\ \A t \in Tags : obcpSaid[t] \subseteq obcpSaid'[t]
  BY <1>2, <1>3 DEF Said, CommandInv, CommandTypes
<1>9. UNCHANGED <<insSeq, insTrans, insDb, insSend, insTasks, insFaults, insRestarts>>
  BY DEF ObcpAck
<1>10. insNet' = insNet \cup {m} /\ obcp' \subseteq obcp \cup {y}
  BY <1>3, <1>4, <1>6
<1>11. CommandTypes' /\ Numbered' = Numbered
  BY <1>5, <1>7, <1>8, <1>9, <1>10 DEF CommandInv, CommandTypes, Numbered
<1>12. ASSUME insRestarts = 0 PROVE NumbersFit' /\ ResultsTrue'
  <2>1. insTrans[x.seq] = x.of
    BY <1>12 DEF CommandInv, NumbersFit
  <2>2. NumbersFit'
    BY <1>5, <1>7, <1>9, <1>10, <1>12, <2>1 DEF CommandInv, NumbersFit
  <2>3. Truthful(m)'
    BY <1>5 DEF Truthful
  <2>4. \A q \in MsgType : Truthful(q) => Truthful(q)'
    BY <1>8 DEF Truthful, MsgType
  <2>5. insNet \subseteq MsgType /\ \A k \in insTasks : k.msg \in MsgType /\ k.tag \in Tags
    BY DEF CommandInv, CommandTypes, TaskType
  <2>6. ResultsTrue'
    BY <1>8, <1>9, <1>10, <1>12, <2>3, <2>4, <2>5 DEF CommandInv, ResultsTrue
  <2> QED BY <2>2, <2>6
<1> QED BY <1>9, <1>11, <1>12 DEF CommandInv

\* The instrument ends a command; what it says is what it has done.
LEMMA ObcpEndInv == ASSUME CommandInv, NEW x \in obcp, ObcpEnd(x) PROVE CommandInv'
<1>1. x \in ObcpType
  BY DEF CommandInv, CommandTypes
<1>2. x.seq \in Seqs /\ x.of \in Tags /\ x.copy \in 1..2
  BY <1>1 DEF ObcpType
<1>3. PICK res \in {"ok", "error"} :
          insNet' = insNet \cup {Answer(x, "EN", res)} /\ obcpSaid' = Said(x.of, res)
  BY DEF ObcpEnd
<1>4. PICK m : m = Answer(x, "EN", res)
  OBVIOUS
<1>5. m \in MsgType /\ m.seq = x.seq /\ m.of = x.of /\ m.res = res
  BY <1>2, <1>4 DEF Answer, MsgType
<1>6. obcpSaid' \in [Tags -> SUBSET {"ok", "error"}] /\ res \in obcpSaid'[x.of]
      /\ \A t \in Tags : obcpSaid[t] \subseteq obcpSaid'[t]
  BY <1>2, <1>3 DEF Said, CommandInv, CommandTypes
<1>7. UNCHANGED <<insSeq, insTrans, insDb, insSend, insTasks, insFaults, insRestarts>>
      /\ insNet' = insNet \cup {m} /\ obcp' \subseteq obcp
  BY <1>3, <1>4 DEF ObcpEnd
<1>8. CommandTypes' /\ Numbered' = Numbered
  BY <1>5, <1>6, <1>7 DEF CommandInv, CommandTypes, Numbered
<1>9. ASSUME insRestarts = 0 PROVE NumbersFit' /\ ResultsTrue'
  <2>1. NumbersFit'
    BY <1>5, <1>7, <1>9 DEF CommandInv, NumbersFit
  <2>2. Truthful(m)'
    BY <1>5, <1>6 DEF Truthful
  <2>3. \A q \in MsgType : Truthful(q) => Truthful(q)'
    BY <1>6 DEF Truthful, MsgType
  <2>4. insNet \subseteq MsgType /\ \A k \in insTasks : k.msg \in MsgType /\ k.tag \in Tags
    BY DEF CommandInv, CommandTypes, TaskType
  <2>5. ResultsTrue'
    BY <1>6, <1>7, <1>9, <2>2, <2>3, <2>4 DEF CommandInv, ResultsTrue
  <2> QED BY <2>1, <2>5
<1> QED BY <1>7, <1>8, <1>9 DEF CommandInv

\* A lost answer is missed, and no more.
LEMMA LoseInv == ASSUME CommandInv, NEW m \in insNet, Lose(m) PROVE CommandInv'
<1>1. insFaults' \in 0..InsMaxFaults /\ insRestarts <= insFaults'
  BY InsAssumption DEF Lose, Fault, CommandInv, CommandTypes
<1>2. UNCHANGED <<insSeq, insTrans, insDb, insSend, insTasks, obcp, insRestarts, obcpSaid>>
      /\ insNet' \subseteq insNet
  BY DEF Lose
<1>3. CommandTypes' /\ Numbered' = Numbered
  BY <1>1, <1>2 DEF CommandInv, CommandTypes, Numbered
<1>4. ASSUME insRestarts = 0 PROVE NumbersFit' /\ ResultsTrue'
  BY <1>2, <1>4 DEF CommandInv, NumbersFit, ResultsTrue, Truthful
<1> QED BY <1>2, <1>3, <1>4 DEF CommandInv

\* get_trans leads an answer to the command it is about.
LEMMA LookupInv == ASSUME CommandInv, NEW m \in insNet, Lookup(m) PROVE CommandInv'
<1>1. m \in MsgType /\ m.seq \in Seqs /\ m.of \in Tags
  BY DEF CommandInv, CommandTypes, MsgType
<1>2. UNCHANGED <<insSeq, insTrans, insDb, insSend, obcp, insFaults, insRestarts, obcpSaid>>
      /\ insNet' \subseteq insNet
  BY DEF Lookup
<1>3. CASE insTrans[m.seq] = NoTag
  <2>1. insTasks' = insTasks
    BY <1>3 DEF Lookup
  <2>2. CommandTypes' /\ Numbered' = Numbered
    BY <1>2, <2>1 DEF CommandInv, CommandTypes, Numbered
  <2>3. ASSUME insRestarts = 0 PROVE NumbersFit' /\ ResultsTrue'
    BY <1>2, <2>1, <2>3 DEF CommandInv, NumbersFit, ResultsTrue, Truthful
  <2> QED BY <1>2, <2>2, <2>3 DEF CommandInv
<1>4. CASE insTrans[m.seq] # NoTag
  <2>1. PICK a \in {"error", "record"} : insTasks' = insTasks \cup {[msg |-> m, tag |-> insTrans[m.seq], at |-> a]}
    BY <1>4 DEF Lookup
  <2>2. PICK k : k = [msg |-> m, tag |-> insTrans[m.seq], at |-> a]
    OBVIOUS
  <2>3. insTrans[m.seq] \in Tags
    BY <1>1, <1>4 DEF CommandInv, CommandTypes
  <2>4. k \in TaskType /\ k.msg = m /\ k.tag = insTrans[m.seq] /\ k.at # "complete"
    BY <1>1, <2>2, <2>3 DEF TaskType
  <2>5. insTasks' = insTasks \cup {k}
    BY <2>1, <2>2
  <2>6. CommandTypes' /\ Numbered' = Numbered
    BY <1>2, <2>4, <2>5 DEF CommandInv, CommandTypes, Numbered
  <2>7. ASSUME insRestarts = 0 PROVE NumbersFit' /\ ResultsTrue'
    <3>1. insTrans[m.seq] = m.of /\ Truthful(m)
      BY <2>7 DEF CommandInv, NumbersFit, ResultsTrue
    <3>2. NumbersFit'
      BY <1>2, <2>4, <2>5, <2>7, <3>1 DEF CommandInv, NumbersFit
    <3>3. ResultsTrue'
      BY <1>2, <2>4, <2>5, <2>7, <3>1 DEF CommandInv, ResultsTrue, Truthful
    <3> QED BY <3>2, <3>3
  <2> QED BY <1>2, <2>6, <2>7 DEF CommandInv
<1> QED BY <1>3, <1>4

\* validate_ack and validate_end: a task completes a command only with an EN
\* that reports success.
LEMMA RecordInv == ASSUME CommandInv, NEW x \in insTasks, Record(x) PROVE CommandInv'
<1>1. x \in TaskType
  BY DEF CommandInv, CommandTypes
<1>2. x.tag \in Tags /\ x.msg \in MsgType
  BY <1>1 DEF TaskType
<1>3. x.msg.kind \in {"AB", "EN"} /\ x.msg.res \in {"ok", "error"}
  BY <1>2 DEF MsgType
<1>4. PICK r : r = insDb[x.tag]
  OBVIOUS
<1>5. r \in DbType
  BY <1>2, <1>4 DEF CommandInv, CommandTypes
<1>6. PICK fs : fs = r.fields \cup {TimeOf(x.msg.kind)}
  OBVIOUS
<1>7. fs \in SUBSET {"cmd_time", "ack_time", "end_time"}
  <2>1. TimeOf(x.msg.kind) \in {"ack_time", "end_time"}
    BY DEF TimeOf
  <2>2. r.fields \subseteq {"cmd_time", "ack_time", "end_time"}
    BY <1>5 DEF DbType
  <2> QED BY <1>6, <2>1, <2>2
<1>8. PICK d : d = [r EXCEPT !.fields = fs]
  OBVIOUS
<1>9. d \in DbType /\ d.seq = r.seq /\ d.result = r.result
  BY <1>5, <1>7, <1>8 DEF DbType
<1>10. insDb' = [insDb EXCEPT ![x.tag] = d]
  BY <1>4, <1>6, <1>8 DEF Record
<1>11. PICK a \in {"error", "complete", "forget"} :
           /\ insTasks' = (insTasks \ {x}) \cup {[x EXCEPT !.at = a]}
           /\ a = "complete" => x.msg.kind = "EN" /\ x.msg.res = "ok"
  BY <1>3 DEF Record
<1>12. PICK k : k = [x EXCEPT !.at = a]
  OBVIOUS
<1>13. k \in TaskType /\ k.msg = x.msg /\ k.tag = x.tag /\ k.at = a
  BY <1>1, <1>12 DEF TaskType
<1>14. insTasks' = (insTasks \ {x}) \cup {k}
  BY <1>11, <1>12
<1>15. insTasks' \subseteq TaskType
  BY <1>13, <1>14 DEF CommandInv, CommandTypes
<1>16. ASSUME insRestarts = 0, NEW y \in insTasks'
       PROVE  y.tag = y.msg.of /\ Truthful(y.msg) /\ (y.at = "complete" => "ok" \in obcpSaid[y.tag])
  <2>1. \A z \in insTasks : z.tag = z.msg.of /\ Truthful(z.msg) /\ (z.at = "complete" => "ok" \in obcpSaid[z.tag])
    BY <1>16 DEF CommandInv, NumbersFit, ResultsTrue
  <2>2. CASE y \in insTasks
    BY <2>1, <2>2
  <2>3. CASE y = k
    BY <1>11, <1>13, <2>1, <2>3 DEF Truthful
  <2> QED BY <1>14, <2>2, <2>3
<1>17. insRestarts = 0 => (d.result = "ok" => "ok" \in obcpSaid[x.tag])
  BY <1>2, <1>4, <1>9 DEF CommandInv, ResultsTrue
<1>18. UNCHANGED <<insSeq, insTrans, insSend, obcp, insNet, insFaults, insRestarts, obcpSaid>>
  BY DEF Record
<1>19. insFaults' \in 0..InsMaxFaults /\ insRestarts <= insFaults'
  BY <1>18 DEF CommandInv, CommandTypes
<1> QED BY <1>2, <1>4, <1>9, <1>10, <1>15, <1>16, <1>17, <1>18, <1>19, OneRecord

\* The waiters are told that the command is done, or has failed.
LEMMA FinishInv == ASSUME CommandInv, NEW x \in insTasks, Finish(x) PROVE CommandInv'
<1>1. x \in TaskType
  BY DEF CommandInv, CommandTypes
<1>2. x.tag \in Tags
  BY <1>1 DEF TaskType
<1>3. insTrans' = insTrans
  BY <1>2, NothingIsDeleted DEF Finish, CommandInv
<1>4. PICK r : r = insDb[x.tag]
  OBVIOUS
<1>5. r \in DbType
  BY <1>2, <1>4 DEF CommandInv, CommandTypes
<1>6. PICK d \in DbType : /\ insDb' = [insDb EXCEPT ![x.tag] = d] /\ d.seq = r.seq
                          /\ d.result = "ok" => (r.result = "ok" \/ x.at = "complete")
  <2>1. CASE x.at \in {"complete", "error"}
    <3>1. PICK res \in {"ok", "error"} : res = IF x.at = "complete" THEN "ok" ELSE "error"
      BY <2>1
    <3>2. PICK e : e = [r EXCEPT !.done = TRUE, !.result = res]
      OBVIOUS
    <3>3. e \in DbType /\ e.seq = r.seq /\ e.result = res
      BY <1>5, <3>1, <3>2 DEF DbType
    <3>4. insDb' = [insDb EXCEPT ![x.tag] = [insDb[x.tag] EXCEPT !.done = TRUE, !.result = res]]
      BY <1>2, <2>1, <3>1 DEF Finish, Failed, CommandInv, CommandTypes
    <3>5. insDb' = [insDb EXCEPT ![x.tag] = e]
      BY <1>4, <3>2, <3>4
    <3> QED BY <3>1, <3>3, <3>5
  <2>2. CASE x.at = "forget"
    <3>1. insDb' = insDb
      BY <2>2 DEF Finish
    <3>2. insDb' = [insDb EXCEPT ![x.tag] = r]
      BY <1>2, <1>4, <3>1 DEF CommandInv, CommandTypes
    <3> QED BY <1>5, <3>2
  <2> QED BY <2>1, <2>2 DEF Finish
<1>7. UNCHANGED <<insSeq, insSend, obcp, insNet, insFaults, insRestarts, obcpSaid>> /\ insTasks' \subseteq insTasks
  BY DEF Finish
<1>8. insRestarts = 0 => (d.result = "ok" => "ok" \in obcpSaid[x.tag])
  BY <1>2, <1>4, <1>6 DEF CommandInv, ResultsTrue
<1>9. insRestarts = 0 => \A y \in insTasks' :
          y.tag = y.msg.of /\ Truthful(y.msg) /\ (y.at = "complete" => "ok" \in obcpSaid[y.tag])
  BY <1>7 DEF CommandInv, NumbersFit, ResultsTrue
<1>10. insFaults' \in 0..InsMaxFaults /\ insRestarts <= insFaults' /\ insTasks' \subseteq TaskType
  BY <1>7 DEF CommandInv, CommandTypes
<1> QED BY <1>2, <1>3, <1>4, <1>6, <1>7, <1>8, <1>9, <1>10, OneRecord

\* After a restart the numbers begin again, and nothing has one yet.
LEMMA InsRestartInv == ASSUME CommandInv, InsRestart PROVE CommandInv'
<1>1. IsFiniteSet(Tags) /\ Cardinality(Tags) \in Nat
  BY InsAssumption, FS_CardinalityType
<1>2. 0 \in Seqs
  BY <1>1 DEF Seqs
<1>3. EmptyRecord \in DbType
  BY <1>2 DEF EmptyRecord, DbType
<1>4. insFaults' \in 0..InsMaxFaults /\ insRestarts' \in Nat /\ insRestarts' <= insFaults' /\ insRestarts' # 0
  BY InsAssumption DEF InsRestart, Fault, CommandInv, CommandTypes
<1>5. insSend' \in [Tags -> {"none", "queued", "linked", "sent", "lost"}]
      /\ \A t \in Tags : insSend'[t] \in {"none", "lost"}
  BY DEF InsRestart
<1>6. CommandTypes'
  BY <1>2, <1>3, <1>4, <1>5 DEF InsRestart, CommandInv, CommandTypes
<1>7. Numbered' = {}
  BY <1>5 DEF Numbered
<1> QED BY <1>4, <1>6, <1>7, FS_EmptySet DEF CommandInv, InsRestart

\* Every step keeps the invariant.
LEMMA CommandStep == CommandInv /\ [InsNext]_insVars => CommandInv'
<1> SUFFICES ASSUME CommandInv, [InsNext]_insVars PROVE CommandInv'
  OBVIOUS
<1>1. ASSUME NEW t \in Tags, SendCmd(t) \/ Sender(t) PROVE CommandInv'
  BY <1>1, SendCmdInv, NewNumberInv, CallRpcInv DEF Sender
<1>2. ASSUME NEW x \in obcp, ObcpAck(x) \/ ObcpEnd(x) PROVE CommandInv'
  BY <1>2, ObcpAckInv, ObcpEndInv
<1>3. ASSUME NEW m \in insNet, Lose(m) PROVE CommandInv'
  BY <1>3, LoseInv
<1>4. CASE Receiver
  BY <1>4, LookupInv, RecordInv, FinishInv DEF Receiver
<1>5. CASE InsRestart
  BY <1>5, InsRestartInv
<1>6. CASE UNCHANGED insVars
  <2>1. CommandTypes' /\ Numbered' = Numbered
    BY <1>6 DEF insVars, CommandInv, CommandTypes, Numbered
  <2>2. ASSUME insRestarts = 0 PROVE NumbersFit' /\ ResultsTrue'
    BY <1>6, <2>2 DEF insVars, CommandInv, NumbersFit, ResultsTrue, Truthful
  <2> QED BY <1>6, <2>1, <2>2 DEF insVars, CommandInv
<1> QED BY <1>1, <1>2, <1>3, <1>4, <1>5, <1>6 DEF InsNext

\* The invariant holds in every state.
LEMMA CommandInvariance == InsSpec => []CommandInv
BY CommandInit, CommandStep, PTL DEF InsSpec
-----------------------------------------------------------------------------
\* What the invariant says of the types and of the results.
LEMMA CommandTells == CommandInv => InsTypeOK /\ OkOnlyIfEnded
<1> SUFFICES ASSUME CommandInv PROVE InsTypeOK /\ OkOnlyIfEnded
  OBVIOUS
<1>1. insRestarts \in 0..InsMaxFaults
  BY InsAssumption DEF CommandInv, CommandTypes
<1>2. InsTypeOK
  BY <1>1 DEF CommandInv, CommandTypes, InsTypeOK, DbType, TaskType, ObcpType
<1> QED BY <1>2 DEF CommandInv, ResultsTrue, OkOnlyIfEnded

\* Every state of the command channel is well typed; in particular there is a
\* sequence number for every command, also after restarts.
THEOREM CommandTypeCorrect == InsSpec => []InsTypeOK
BY CommandTells, CommandInvariance, PTL

\* Until the process is restarted, a command is reported as done with result 0
\* only if the instrument has ended it well, for every number of commands, of
\* repeated or failed calls and of lost answers (cmd_send, cmd_recv).
THEOREM OkIsTrue == InsSpec => []OkOnlyIfEnded
BY CommandTells, CommandInvariance, PTL
-----------------------------------------------------------------------------
(* With no fault: nothing fails that the instrument has not refused.        *)

Asked(t) == insSend[t] = "sent"
Has(t, field) == field \in insDb[t].fields
OfKind(m, t, kind) == m.of = t /\ m.kind = kind
Unanswered(t, kind) ==
    /\ ~Has(t, TimeOf(kind))
    /\ \A m \in insNet : ~OfKind(m, t, kind)
    /\ \A x \in insTasks : ~OfKind(x.msg, t, kind)

\* Nothing is said of a command before the call is made.
OnlyAsked ==
    /\ \A t \in Tags : insSend[t] \in {"linked", "sent"} => Has(t, "cmd_time")
    /\ \A t \in Tags : ~Asked(t) => ~Has(t, "ack_time") /\ ~Has(t, "end_time")
    /\ \A x \in obcp : Asked(x.of)
    /\ \A m \in insNet : Asked(m.of)
    /\ \A x \in insTasks : Asked(x.msg.of)

\* There is one AB and one EN of a command: to be said, under way, in a task or
\* in the record.
SaidOnce ==
    /\ \A x, y \in obcp : x.of = y.of => x = y
    /\ \A x \in obcp : Unanswered(x.of, "EN") /\ (x.at = "got" => Unanswered(x.of, "AB"))
    /\ \A m \in insNet : ~Has(m.of, TimeOf(m.kind))
    /\ \A m, k \in insNet : OfKind(k, m.of, m.kind) => k = m
    /\ \A m \in insNet : \A x \in insTasks : ~OfKind(x.msg, m.of, m.kind)
    /\ \A x \in insTasks : x.at = "record" => ~Has(x.msg.of, TimeOf(x.msg.kind))
    /\ \A x, y \in insTasks : OfKind(x.msg, y.msg.of, y.msg.kind) => x = y

Honest(m) == m.res = "error" => "error" \in obcpSaid[m.of]
ErrorsTrue ==
    /\ \A m \in insNet : Honest(m)
    /\ \A x \in insTasks : Honest(x.msg) /\ (x.at = "error" => "error" \in obcpSaid[x.msg.of])
    /\ \A t \in Tags : insDb[t].result = "error" => "error" \in obcpSaid[t]

CalmInv == CommandInv /\ (insFaults = 0 => OnlyAsked /\ SaidOnce /\ ErrorsTrue)

\* Without a fault nothing was restarted, and everything is about a command.
LEMMA CalmFacts ==
    ASSUME CalmInv, insFaults = 0
    PROVE  /\ insRestarts = 0 /\ OnlyAsked /\ SaidOnce /\ ErrorsTrue
           /\ \A x \in obcp : x.of \in Tags /\ x.at \in {"got", "running"}
           /\ \A m \in insNet : m.of \in Tags /\ m.kind \in {"AB", "EN"}
           /\ \A x \in insTasks : x.tag = x.msg.of /\ x.tag \in Tags /\ x.msg.kind \in {"AB", "EN"}
<1>1. insRestarts = 0
  BY DEF CalmInv, CommandInv, CommandTypes
<1>2. \A x \in insTasks : x.tag = x.msg.of
  BY <1>1 DEF CalmInv, CommandInv, NumbersFit
<1> QED BY <1>1, <1>2 DEF CalmInv, CommandInv, CommandTypes, ObcpType, TaskType, MsgType

\* A fault does not go away.
LEMMA FaultsStay ==
    ASSUME CalmInv, [InsNext]_insVars, insFaults' = 0
    PROVE  insFaults = 0 /\ ~Fault
<1>1. insFaults \in Nat
  BY InsAssumption DEF CalmInv, CommandInv, CommandTypes
<1>2. ~Fault
  BY <1>1 DEF Fault
<1>3. insFaults' = insFaults
  BY <1>2 DEF InsNext, insVars, SendCmd, Sender, NewNumber, CallRpc, ObcpAck, ObcpEnd, Lose,
              Receiver, Lookup, Record, Finish, InsRestart
<1> QED BY <1>2, <1>3

\* send_cmd queues a command that nobody has asked for.
LEMMA SendCmdCalm ==
    ASSUME CalmInv, insFaults = 0, NEW t \in Tags, SendCmd(t), ~Fault
    PROVE  (OnlyAsked /\ SaidOnce /\ ErrorsTrue)'
<1>1. insSend[t] = "none" /\ insSend' = [insSend EXCEPT ![t] = "queued"]
      /\ UNCHANGED <<insDb, insTasks, obcp, insNet, obcpSaid>>
  BY DEF SendCmd
<1>2. \A u \in Tags : insSend'[u] = IF u = t THEN "queued" ELSE insSend[u]
  BY <1>1 DEF CalmInv, CommandInv, CommandTypes
<1>3. \A u \in Tags : (Asked(u)' <=> Asked(u)) /\ (insSend'[u] \in {"linked", "sent"} => insSend[u] \in {"linked", "sent"})
  BY <1>1, <1>2 DEF Asked
<1>4. \A u, f : Has(u, f)' <=> Has(u, f)
  BY <1>1 DEF Has
<1>5. OnlyAsked'
  BY <1>1, <1>3, <1>4, CalmFacts DEF OnlyAsked
<1>6. SaidOnce'
  BY <1>1, <1>4, CalmFacts DEF SaidOnce, Unanswered
<1>7. ErrorsTrue'
  BY <1>1, CalmFacts DEF ErrorsTrue, Honest
<1> QED BY <1>5, <1>6, <1>7

\* cmd_send notes the time of the command, and no other.
LEMMA NewNumberCalm ==
    ASSUME CalmInv, insFaults = 0, NEW t \in Tags, NewNumber(t)
    PROVE  (OnlyAsked /\ SaidOnce /\ ErrorsTrue)'
<1>1. insTrans[insSeq] = NoTag /\ insSeq \in Seqs
  <2>1. insSeq \in Seqs /\ insSeq \in Nat
    BY DEF CalmInv, CommandInv, CommandTypes, Seqs
  <2> QED BY <2>1, CalmFacts DEF CalmInv, CommandInv, NumbersFit
<1>2. PICK r : r = insDb[t]
  OBVIOUS
<1>3. PICK d : d = [r EXCEPT !.seq = insSeq, !.fields = @ \cup {"cmd_time"}]
  OBVIOUS
<1>4. r \in DbType /\ d.result = r.result /\ d.fields = r.fields \cup {"cmd_time"}
  <2>1. r \in DbType
    BY <1>2 DEF CalmInv, CommandInv, CommandTypes
  <2> QED BY <1>3, <2>1 DEF DbType
<1>5. insDb' = [insDb EXCEPT ![t] = d] /\ insSend[t] = "queued" /\ insSend' = [insSend EXCEPT ![t] = "linked"]
      /\ UNCHANGED <<insTasks, obcp, insNet, obcpSaid>>
  BY <1>1, <1>2, <1>3 DEF NewNumber
<1>6. \A u \in Tags : insSend'[u] = (IF u = t THEN "linked" ELSE insSend[u])
                      /\ insDb'[u] = (IF u = t THEN d ELSE insDb[u])
  BY <1>5 DEF CalmInv, CommandInv, CommandTypes
<1>7. \A u \in Tags : /\ Asked(u)' <=> Asked(u)
                      /\ \A f : f # "cmd_time" => (Has(u, f)' <=> Has(u, f))
                      /\ insSend'[u] \in {"linked", "sent"} => Has(u, "cmd_time")' \/ insSend[u] \in {"linked", "sent"}
                      /\ Has(u, "cmd_time") => Has(u, "cmd_time")'
                      /\ insDb'[u].result = insDb[u].result
  BY <1>2, <1>4, <1>5, <1>6 DEF Asked, Has
<1>8. OnlyAsked'
  BY <1>5, <1>7, CalmFacts DEF OnlyAsked
<1>9. \A kind : TimeOf(kind) # "cmd_time"
  BY DEF TimeOf
<1>10. SaidOnce'
  BY <1>5, <1>7, <1>9, CalmFacts DEF SaidOnce, Unanswered
<1>11. ErrorsTrue'
  BY <1>5, <1>7, CalmFacts DEF ErrorsTrue, Honest
<1> QED BY <1>8, <1>10, <1>11

\* The call hands the command to the instrument once; nothing has been said
\* of it yet.
LEMMA CallRpcCalm ==
    ASSUME CalmInv, insFaults = 0, NEW t \in Tags, CallRpc(t), ~Fault
    PROVE  (OnlyAsked /\ SaidOnce /\ ErrorsTrue)'
<1>1. PICK y : y = [seq |-> insDb[t].seq, of |-> t, copy |-> 1, at |-> "got"]
  OBVIOUS
<1>2. insSend[t] = "linked" /\ insSend' = [insSend EXCEPT ![t] = "sent"] /\ insDb' = insDb
      /\ UNCHANGED <<insTasks, insNet, obcpSaid>>
  BY DEF CallRpc
<1>3. obcp' = obcp \cup {y} /\ y.of = t
  <2>1. PICK n : n = insDb[t].seq
    OBVIOUS
  <2>2. obcp' = obcp \cup {[seq |-> n, of |-> t, copy |-> k, at |-> "got"] : k \in 1..1}
    BY <2>1 DEF CallRpc
  <2>3. 1..1 = {1}
    OBVIOUS
  <2>4. \A z : z \in {[seq |-> n, of |-> t, copy |-> k, at |-> "got"] : k \in 1..1} <=> z = y
    BY <1>1, <2>1, <2>3
  <2>5. {[seq |-> n, of |-> t, copy |-> k, at |-> "got"] : k \in 1..1} = {y}
    BY <2>4
  <2> QED BY <1>1, <2>2, <2>5
<1>4. \A u \in Tags : Asked(u)' <=> (u = t \/ Asked(u))
  BY <1>2 DEF Asked, CalmInv, CommandInv, CommandTypes
<1>5. \A u \in Tags : insSend'[u] \in {"linked", "sent"} => insSend[u] \in {"linked", "sent"}
  BY <1>2 DEF CalmInv, CommandInv, CommandTypes
<1>6. \A u, f : Has(u, f)' <=> Has(u, f)
  BY <1>2 DEF Has
<1>7. OnlyAsked'
  BY <1>2, <1>3, <1>4, <1>5, <1>6, CalmFacts DEF OnlyAsked
<1>8. ~Asked(t)
  BY <1>2 DEF Asked
<1>9. Unanswered(t, "AB") /\ Unanswered(t, "EN")
  BY <1>8, CalmFacts DEF OnlyAsked, Unanswered, OfKind, TimeOf
<1>10. \A u, kind : Unanswered(u, kind)' <=> Unanswered(u, kind)
  BY <1>2, <1>6 DEF Unanswered
<1>11. \A x \in obcp : x.of # t
  BY <1>8, CalmFacts DEF OnlyAsked
<1>12. SaidOnce'
  <2>1. \A x, z \in obcp' : x.of = z.of => x = z
    BY <1>3, <1>11, CalmFacts DEF SaidOnce
  <2>2. \A x \in obcp' : Unanswered(x.of, "EN")' /\ (x.at = "got" => Unanswered(x.of, "AB")')
    BY <1>3, <1>9, <1>10, CalmFacts DEF SaidOnce
  <2> QED BY <1>2, <1>6, <2>1, <2>2, CalmFacts DEF SaidOnce
<1>13. ErrorsTrue'
  BY <1>2, CalmFacts DEF ErrorsTrue, Honest
<1> QED BY <1>7, <1>12, <1>13

\* The instrument's AB is the first of its command; a refusal is known to it.
LEMMA ObcpAckCalm ==
    ASSUME CalmInv, insFaults = 0, NEW x \in obcp, ObcpAck(x)
    PROVE  (OnlyAsked /\ SaidOnce /\ ErrorsTrue)'
<1>1. PICK res \in {"ok", "error"} :
          /\ insNet' = insNet \cup {Answer(x, "AB", res)}
          /\ obcp' = (obcp \ {x}) \cup (IF res = "ok" THEN {[x EXCEPT !.at = "running"]} ELSE {})
          /\ obcpSaid' = IF res = "ok" THEN obcpSaid ELSE Said(x.of, "error")
  BY DEF ObcpAck
<1>2. PICK m : m = Answer(x, "AB", res)
  OBVIOUS
<1>3. PICK y : y = [x EXCEPT !.at = "running"]
  OBVIOUS
<1>4. m.of = x.of /\ m.kind = "AB" /\ m.res = res
  BY <1>2 DEF Answer
<1>5. y.of = x.of /\ y.at = "running" /\ x.at = "got" /\ x.of \in Tags
  BY <1>3, CalmFacts DEF ObcpAck, CalmInv, CommandInv, CommandTypes, ObcpType
<1>6. UNCHANGED <<insDb, insSend, insTasks>> /\ insNet' = insNet \cup {m} /\ obcp' \subseteq (obcp \ {x}) \cup {y}
  BY <1>1, <1>2, <1>3 DEF ObcpAck
<1>7. /\ \A u, f : Has(u, f)' <=> Has(u, f)
      /\ \A u : Asked(u)' <=> Asked(u)
  BY <1>6 DEF Has, Asked
<1>8. OnlyAsked'
  BY <1>4, <1>5, <1>6, <1>7, CalmFacts DEF OnlyAsked
<1>9. SaidOnce'
  <2>1. Unanswered(x.of, "AB") /\ Unanswered(x.of, "EN")
    BY <1>5, CalmFacts DEF SaidOnce
  <2>2. \A v, z \in obcp' : v.of = z.of => v = z
    BY <1>5, <1>6, CalmFacts DEF SaidOnce
  <2>3. \A v \in obcp' : Unanswered(v.of, "EN")' /\ (v.at = "got" => Unanswered(v.of, "AB")')
    <3>1. \A u : Unanswered(u, "EN") => Unanswered(u, "EN")'
      BY <1>4, <1>6, <1>7 DEF Unanswered, OfKind
    <3>2. \A u : Unanswered(u, "AB") /\ u # x.of => Unanswered(u, "AB")'
      BY <1>4, <1>6, <1>7 DEF Unanswered, OfKind
    <3>3. \A v \in obcp' : v = y \/ (v \in obcp /\ v.of # x.of)
      BY <1>6, CalmFacts DEF SaidOnce
    <3> QED BY <1>5, <2>1, <3>1, <3>2, <3>3, CalmFacts DEF SaidOnce
  <2>4. \A k \in insNet' : ~Has(k.of, TimeOf(k.kind))'
    BY <1>4, <1>6, <1>7, <2>1, CalmFacts DEF SaidOnce, Unanswered
  <2>5. \A j, k \in insNet' : OfKind(k, j.of, j.kind) => k = j
    BY <1>4, <1>6, <2>1, CalmFacts DEF SaidOnce, Unanswered, OfKind
  <2>6. \A k \in insNet' : \A z \in insTasks' : ~OfKind(z.msg, k.of, k.kind)
    BY <1>4, <1>6, <2>1, CalmFacts DEF SaidOnce, Unanswered
  <2> QED BY <1>6, <1>7, <2>2, <2>3, <2>4, <2>5, <2>6, CalmFacts DEF SaidOnce
<1>10. ErrorsTrue'
  <2>1. \A t \in Tags : obcpSaid[t] \subseteq obcpSaid'[t]
    BY <1>1, <1>5 DEF Said, CalmInv, CommandInv, CommandTypes
  <2>2. res = "error" => "error" \in obcpSaid'[x.of]
    BY <1>1, <1>5 DEF Said, CalmInv, CommandInv, CommandTypes
  <2> QED BY <1>4, <1>6, <2>1, <2>2, CalmFacts DEF ErrorsTrue, Honest
<1> QED BY <1>8, <1>9, <1>10

\* So is its EN.
LEMMA ObcpEndCalm ==
    ASSUME CalmInv, insFaults = 0, NEW x \in obcp, ObcpEnd(x)
    PROVE  (OnlyAsked /\ SaidOnce /\ ErrorsTrue)'
<1>1. PICK res \in {"ok", "error"} :
          insNet' = insNet \cup {Answer(x, "EN", res)} /\ obcpSaid' = Said(x.of, res)
  BY DEF ObcpEnd
<1>2. PICK m : m = Answer(x, "EN", res)
  OBVIOUS
<1>3. m.of = x.of /\ m.kind = "EN" /\ m.res = res /\ x.of \in Tags
  BY <1>2, CalmFacts DEF Answer
<1>4. UNCHANGED <<insDb, insSend, insTasks>> /\ insNet' = insNet \cup {m} /\ obcp' = obcp \ {x}
  BY <1>1, <1>2 DEF ObcpEnd
<1>5. /\ \A u, f : Has(u, f)' <=> Has(u, f)
      /\ \A u : Asked(u)' <=> Asked(u)
  BY <1>4 DEF Has, Asked
<1>6. OnlyAsked'
  BY <1>3, <1>4, <1>5, CalmFacts DEF OnlyAsked
<1>7. SaidOnce'
  <2>1. Unanswered(x.of, "EN")
    BY CalmFacts DEF SaidOnce
  <2>2. \A v \in obcp' : Unanswered(v.of, "EN")' /\ (v.at = "got" => Unanswered(v.of, "AB")')
    <3>1. \A u, kind : Unanswered(u, kind) /\ u # x.of => Unanswered(u, kind)'
      BY <1>3, <1>4, <1>5 DEF Unanswered, OfKind
    <3>2. \A v \in obcp' : v \in obcp /\ v.of # x.of
      BY <1>4, CalmFacts DEF SaidOnce
    <3> QED BY <3>1, <3>2, CalmFacts DEF SaidOnce
  <2>3. \A k \in insNet' : ~Has(k.of, TimeOf(k.kind))'
    BY <1>3, <1>4, <1>5, <2>1, CalmFacts DEF SaidOnce, Unanswered
  <2>4. \A j, k \in insNet' : OfKind(k, j.of, j.kind) => k = j
    BY <1>3, <1>4, <2>1, CalmFacts DEF SaidOnce, Unanswered, OfKind
  <2>5. \A k \in insNet' : \A z \in insTasks' : ~OfKind(z.msg, k.of, k.kind)
    BY <1>3, <1>4, <2>1, CalmFacts DEF SaidOnce, Unanswered
  <2> QED BY <1>4, <1>5, <2>2, <2>3, <2>4, <2>5, CalmFacts DEF SaidOnce
<1>8. ErrorsTrue'
  <2>1. \A t \in Tags : obcpSaid[t] \subseteq obcpSaid'[t]
    BY <1>1, <1>3 DEF Said, CalmInv, CommandInv, CommandTypes
  <2>2. res \in obcpSaid'[x.of]
    BY <1>1, <1>3 DEF Said, CalmInv, CommandInv, CommandTypes
  <2> QED BY <1>3, <1>4, <2>1, <2>2, CalmFacts DEF ErrorsTrue, Honest
<1> QED BY <1>6, <1>7, <1>8

\* cmd_recv finds no answer of that kind in the record.
LEMMA LookupCalm ==
    ASSUME CalmInv, insFaults = 0, NEW m \in insNet, Lookup(m)
    PROVE  (OnlyAsked /\ SaidOnce /\ ErrorsTrue)'
<1>1. insTrans[m.seq] = m.of /\ m.of \in Tags /\ m.of # NoTag
  BY CalmFacts, InsAssumption DEF CalmInv, CommandInv, NumbersFit
<1>2. ~Has(m.of, TimeOf(m.kind))
  BY CalmFacts DEF SaidOnce
<1>3. PICK k : k = [msg |-> m, tag |-> m.of, at |-> "record"]
  OBVIOUS
<1>4. k.msg = m /\ k.at = "record"
  BY <1>3
<1>5. insTasks' = insTasks \cup {k} /\ insNet' = insNet \ {m}
      /\ UNCHANGED <<insDb, insSend, obcp, obcpSaid>>
  BY <1>1, <1>2, <1>3 DEF Lookup, Has
<1>6. /\ \A u, f : Has(u, f)' <=> Has(u, f)
      /\ \A u : Asked(u)' <=> Asked(u)
  BY <1>5 DEF Has, Asked
<1>7. OnlyAsked'
  BY <1>4, <1>5, <1>6, CalmFacts DEF OnlyAsked
<1>8. SaidOnce'
  <2>1. \A u, kind : Unanswered(u, kind) => Unanswered(u, kind)'
    BY <1>4, <1>5, <1>6 DEF Unanswered
  <2>2. \A v \in obcp' : Unanswered(v.of, "EN")' /\ (v.at = "got" => Unanswered(v.of, "AB")')
    BY <1>5, <2>1, CalmFacts DEF SaidOnce
  <2>3. \A j \in insNet' : \A z \in insTasks' : ~OfKind(z.msg, j.of, j.kind)
    <3>1. \A j \in insNet' : j \in insNet /\ ~OfKind(m, j.of, j.kind)
      BY <1>5, CalmFacts DEF SaidOnce
    <3> QED BY <1>4, <1>5, <3>1, CalmFacts DEF SaidOnce
  <2>4. \A y, z \in insTasks' : OfKind(y.msg, z.msg.of, z.msg.kind) => y = z
    <3>1. \A z \in insTasks : ~OfKind(z.msg, m.of, m.kind) /\ ~OfKind(m, z.msg.of, z.msg.kind)
      BY CalmFacts DEF SaidOnce, OfKind
    <3> QED BY <1>4, <1>5, <3>1, CalmFacts DEF SaidOnce
  <2>5. \A z \in insTasks' : z.at = "record" => ~Has(z.msg.of, TimeOf(z.msg.kind))'
    BY <1>2, <1>4, <1>5, <1>6, CalmFacts DEF SaidOnce
  <2> QED BY <1>5, <1>6, <2>2, <2>3, <2>4, <2>5, CalmFacts DEF SaidOnce
<1>9. ErrorsTrue'
  BY <1>4, <1>5, CalmFacts DEF ErrorsTrue, Honest
<1> QED BY <1>7, <1>8, <1>9

\* validate_ack and validate_end: the command has been sent, so only an answer
\* that reports an error makes it fail.
LEMMA RecordCalm ==
    ASSUME CalmInv, insFaults = 0, NEW x \in insTasks, Record(x)
    PROVE  (OnlyAsked /\ SaidOnce /\ ErrorsTrue)'
<1>1. x.tag = x.msg.of /\ x.tag \in Tags /\ x.msg.kind \in {"AB", "EN"} /\ x.at = "record"
  BY CalmFacts DEF Record
<1>2. PICK r : r = insDb[x.tag]
  OBVIOUS
<1>3. PICK d : d = [r EXCEPT !.fields = @ \cup {TimeOf(x.msg.kind)}]
  OBVIOUS
<1>4. d.result = r.result /\ d.fields = r.fields \cup {TimeOf(x.msg.kind)}
  <2>1. r \in DbType
    BY <1>1, <1>2 DEF CalmInv, CommandInv, CommandTypes
  <2> QED BY <1>3, <2>1 DEF DbType
<1>5. insDb' = [insDb EXCEPT ![x.tag] = d] /\ UNCHANGED <<insSend, obcp, insNet, obcpSaid>>
  BY <1>2, <1>3 DEF Record
<1>6. \A u \in Tags : insDb'[u] = IF u = x.tag THEN d ELSE insDb[u]
  BY <1>5 DEF CalmInv, CommandInv, CommandTypes
<1>7. \A u \in Tags : /\ \A f : Has(u, f)' <=> (Has(u, f) \/ (u = x.tag /\ f = TimeOf(x.msg.kind)))
                      /\ insDb'[u].result = insDb[u].result
  BY <1>2, <1>4, <1>6 DEF Has
<1>8. \A u : Asked(u)' <=> Asked(u)
  BY <1>5 DEF Asked
<1>9. Asked(x.tag) /\ Has(x.tag, "cmd_time")
  BY <1>1, CalmFacts DEF OnlyAsked, Asked
<1>10. PICK a : /\ insTasks' = (insTasks \ {x}) \cup {[x EXCEPT !.at = a]} /\ a # "record"
                /\ a = "error" => x.msg.res = "error"
  <2>1. "cmd_time" \in insDb[x.tag].fields
    BY <1>9 DEF Has
  <2> QED BY <2>1 DEF Record
<1>11. PICK k : k = [x EXCEPT !.at = a]
  OBVIOUS
<1>12. k.msg = x.msg /\ k.at = a
  BY <1>11 DEF CalmInv, CommandInv, CommandTypes, TaskType
<1>13. insTasks' = (insTasks \ {x}) \cup {k}
  BY <1>10, <1>11
<1>14. \A kind \in {"AB", "EN"} : TimeOf(kind) = TimeOf(x.msg.kind) => kind = x.msg.kind
  BY <1>1 DEF TimeOf
<1>15. OnlyAsked'
  BY <1>1, <1>5, <1>7, <1>8, <1>9, <1>12, <1>13, CalmFacts DEF OnlyAsked
<1>16. SaidOnce'
  <2>1. \A u, kind : OfKind(x.msg, u, kind) <=> u = x.tag /\ kind = x.msg.kind
    BY <1>1 DEF OfKind
  <2>2. \A u \in Tags : \A kind \in {"AB", "EN"} : Unanswered(u, kind) => Unanswered(u, kind)'
    BY <1>5, <1>7, <1>12, <1>13, <1>14, <2>1 DEF Unanswered
  <2>3. \A v \in obcp' : Unanswered(v.of, "EN")' /\ (v.at = "got" => Unanswered(v.of, "AB")')
    BY <1>5, <2>2, CalmFacts DEF SaidOnce
  <2>4. \A m \in insNet' : ~Has(m.of, TimeOf(m.kind))'
    BY <1>5, <1>7, <1>14, <2>1, CalmFacts DEF SaidOnce
  <2>5. \A m \in insNet' : \A z \in insTasks' : ~OfKind(z.msg, m.of, m.kind)
    BY <1>5, <1>12, <1>13, CalmFacts DEF SaidOnce
  <2>6. \A y, z \in insTasks' : OfKind(y.msg, z.msg.of, z.msg.kind) => y = z
    BY <1>12, <1>13, <2>1, CalmFacts DEF SaidOnce, OfKind
  <2>7. \A z \in insTasks' : z.at = "record" => ~Has(z.msg.of, TimeOf(z.msg.kind))'
    <3>1. \A z \in insTasks' : z.at = "record" => z \in insTasks /\ z # x
      BY <1>10, <1>12, <1>13
    <3>2. \A z \in insTasks : z # x => ~(z.msg.of = x.tag /\ z.msg.kind = x.msg.kind)
      BY <1>1, CalmFacts DEF SaidOnce, OfKind
    <3> QED BY <1>7, <1>14, <3>1, <3>2, CalmFacts DEF SaidOnce
  <2> QED BY <1>5, <2>3, <2>4, <2>5, <2>6, <2>7, CalmFacts DEF SaidOnce
<1>17. ErrorsTrue'
  BY <1>1, <1>5, <1>7, <1>10, <1>12, <1>13, CalmFacts DEF ErrorsTrue, Honest
<1> QED BY <1>15, <1>16, <1>17

\* A command fails at the end of a task that has seen an error.
LEMMA FinishCalm ==
    ASSUME CalmInv, insFaults = 0, NEW x \in insTasks, Finish(x)
    PROVE  (OnlyAsked /\ SaidOnce /\ ErrorsTrue)'
<1>1. x.tag = x.msg.of /\ x.tag \in Tags
  BY CalmFacts
<1>2. \A t \in Tags : /\ insDb'[t].fields = insDb[t].fields
                      /\ insDb'[t].result = "error" =>
                             insDb[t].result = "error" \/ (t = x.tag /\ x.at = "error")
  <2>1. CASE x.at = "forget"
    BY <2>1 DEF Finish
  <2>2. CASE x.at \in {"complete", "error"}
    <3>1. PICK r : r = insDb[x.tag]
      OBVIOUS
    <3>2. PICK d : d = [r EXCEPT !.done = TRUE, !.result = IF x.at = "complete" THEN "ok" ELSE "error"]
      OBVIOUS
    <3>3. insDb' = [insDb EXCEPT ![x.tag] = [insDb[x.tag] EXCEPT !.done = TRUE,
                                    !.result = IF x.at = "complete" THEN "ok" ELSE "error"]]
      BY <1>1, <2>2 DEF Finish, Failed, CalmInv, CommandInv, CommandTypes
    <3>4. insDb' = [insDb EXCEPT ![x.tag] = d]
      BY <3>1, <3>2, <3>3
    <3>5. \A t \in Tags : insDb'[t] = IF t = x.tag THEN d ELSE insDb[t]
      BY <3>4 DEF CalmInv, CommandInv, CommandTypes
    <3>6. d.fields = r.fields /\ (d.result = "error" => x.at = "error")
      <4>1. r \in DbType
        BY <1>1, <3>1 DEF CalmInv, CommandInv, CommandTypes
      <4> QED BY <2>2, <3>2, <4>1 DEF DbType
    <3> QED BY <3>1, <3>5, <3>6
  <2> QED BY <2>1, <2>2 DEF Finish
<1>3. UNCHANGED <<insSend, obcp, insNet, obcpSaid>> /\ insTasks' = insTasks \ {x}
  BY DEF Finish
<1>4. /\ \A u \in Tags : \A f : Has(u, f)' <=> Has(u, f)
      /\ \A u : Asked(u)' <=> Asked(u)
  BY <1>2, <1>3 DEF Has, Asked
<1>5. OnlyAsked'
  BY <1>3, <1>4, CalmFacts DEF OnlyAsked
<1>6. SaidOnce'
  <2>1. \A u \in Tags : \A kind : Unanswered(u, kind) => Unanswered(u, kind)'
    BY <1>3, <1>4 DEF Unanswered
  <2> QED BY <1>3, <1>4, <2>1, CalmFacts DEF SaidOnce
<1>7. ErrorsTrue'
  BY <1>1, <1>2, <1>3, CalmFacts DEF ErrorsTrue, Honest
<1> QED BY <1>5, <1>6, <1>7

\* Every step keeps that, as long as there is no fault.
LEMMA CalmStep == CalmInv /\ [InsNext]_insVars => CalmInv'
<1> SUFFICES ASSUME CalmInv, [InsNext]_insVars PROVE CalmInv'
  OBVIOUS
<1>1. CommandInv'
  BY CommandStep DEF CalmInv
<1>2. ASSUME insFaults' = 0 PROVE (OnlyAsked /\ SaidOnce /\ ErrorsTrue)'
  <2>1. insFaults = 0 /\ ~Fault
    BY <1>2, FaultsStay
  <2>2. ASSUME NEW t \in Tags, SendCmd(t) \/ Sender(t) PROVE (OnlyAsked /\ SaidOnce /\ ErrorsTrue)'
    BY <2>1, <2>2, SendCmdCalm, NewNumberCalm, CallRpcCalm DEF Sender
  <2>3. ASSUME NEW x \in obcp, ObcpAck(x) \/ ObcpEnd(x) PROVE (OnlyAsked /\ SaidOnce /\ ErrorsTrue)'
    BY <2>1, <2>3, ObcpAckCalm, ObcpEndCalm
  <2>4. CASE Receiver
    BY <2>1, <2>4, LookupCalm, RecordCalm, FinishCalm DEF Receiver
  <2>5. CASE UNCHANGED insVars
    BY <2>1, <2>5, CalmFacts DEF insVars, OnlyAsked, SaidOnce, ErrorsTrue, Unanswered, Has, Asked, Honest
  <2> QED BY <2>1, <2>2, <2>3, <2>4, <2>5 DEF InsNext, Lose, InsRestart
<1> QED BY <1>1, <1>2 DEF CalmInv

\* Nothing has been said at the beginning.
LEMMA CalmInit == InsInit => CalmInv
<1> SUFFICES ASSUME InsInit PROVE CalmInv
  OBVIOUS
<1>1. EmptyRecord.fields = {} /\ EmptyRecord.result = "none"
  BY DEF EmptyRecord
<1>2. OnlyAsked
  BY <1>1 DEF InsInit, OnlyAsked, Has, Asked
<1>3. SaidOnce /\ ErrorsTrue
  BY <1>1 DEF InsInit, SaidOnce, ErrorsTrue
<1> QED BY <1>2, <1>3, CommandInit DEF CalmInv

\* What the invariant says of the errors.
LEMMA CalmTells == CalmInv => NoFalseFailure
BY DEF CalmInv, ErrorsTrue, NoFalseFailure

\* With nothing repeated, lost or refused a command never fails, in whatever
\* order the pool's tasks process the AB and the EN of however many commands
\* (cmd_send, cmd_recv, validate_end).
THEOREM NothingFailsFalsely == InsSpec => []NoFalseFailure
BY CalmTells, CalmInit, CalmStep, PTL DEF InsSpec
-----------------------------------------------------------------------------
(* Compound tasks.                                                          *)

In(x, s) == \E j \in 1..Len(s) : s[j] = x
WellEnded(x) == Ended(x) /\ ~Raised(x)

\* A task waits in the queue once, and nothing that has ended does.
SetBasics ==
    /\ setQueue \in Seq(SetTasks) /\ setStage \in [SetTasks -> {"new", "queued", "running", "done"}]
    /\ setResult \in [SetTasks -> ResultType \cup {"none"}]
    /\ setState \in [Compound -> StateType] /\ adding \subseteq AndSets \X Extras
    /\ \A k \in 1..Len(setQueue) : setStage[setQueue[k]] = "queued"
    /\ \A j, k \in 1..Len(setQueue) : setQueue[j] = setQueue[k] => j = k
    /\ \A u \in SetTasks : Ended(u) => setResult[u] # "none"

\* A child a concurrent set has started is still in its list, or its result is
\* among those that the end of the set looks at.
Accounted(t, x) == Ended(x) /\ setResult[x] \in setState[t].results
AndInv(t) ==
    /\ setState[t].next \in 1..(Len(Kids[t]) + 1) /\ setState[t].i >= 1 /\ "timeout" \notin setState[t].results
    /\ setState[t].at \in {"count", "poll", "scan"} => setState[t].next = Len(Kids[t]) + 1
    /\ \A k \in 1..Len(Kids[t]) :
          k < setState[t].next => In(Kids[t][k], setState[t].taskset) \/ Accounted(t, Kids[t][k])
    /\ setState[t].at = "scan" => \A k \in 1..Len(Kids[t]) : Accounted(t, Kids[t][k])
    /\ Ended(t) => \A k \in 1..Len(Kids[t]) : Ended(Kids[t][k]) /\ (~Raised(t) => ~Raised(Kids[t][k]))

\* The children of a sequence before the current one have ended well, those
\* after it are new.
SeqInv(t) ==
    /\ setState[t].at \in {"start", "wait"} /\ setState[t].next \in 1..(Len(Kids[t]) + 1)
    /\ setState[t].at = "wait" => setState[t].next > 1
    /\ \A k \in 1..Len(Kids[t]) :
          /\ k + 1 < setState[t].next \/ (k + 1 = setState[t].next /\ setState[t].at = "start") => WellEnded(Kids[t][k])
          /\ k >= setState[t].next => setStage[Kids[t][k]] = "new"
    /\ Ended(t) /\ ~Raised(t) => \A k \in 1..Len(Kids[t]) : WellEnded(Kids[t][k])

SetsInv == SetBasics /\ (\A t \in AndSets : AndInv(t)) /\ (\A t \in SeqSets : SeqInv(t))

\* What has ended stays so, with its result.
EndsKept == \A u \in SetTasks : Ended(u) => Ended(u)' /\ setResult'[u] = setResult[u]

\* The children of a set are tasks.
LEMMA KidsAreTasks ==
    ASSUME NEW t \in Compound
    PROVE  /\ Kids[t] \in Seq(SetTasks) /\ Len(Kids[t]) \in Nat /\ DOMAIN Kids[t] = 1..Len(Kids[t])
           /\ \A k \in 1..Len(Kids[t]) : Kids[t][k] \in SetTasks
<1>1. Kids[t] \in Seq(SetTasks)
  BY SetsAssumption
<1> QED BY <1>1

\* Taking an element out of a list leaves the others in it.
LEMMA RemoveKeepsOthers ==
    ASSUME NEW S, NEW s \in Seq(S), NEW i \in 1..Len(s)
    PROVE  RemoveAt(s, i) \in Seq(S) /\ \A x : In(x, s) /\ x # s[i] => In(x, RemoveAt(s, i))
<1> DEFINE front == SubSeq(s, 1, i - 1)
           back == SubSeq(s, i + 1, Len(s))
<1>1. front \in Seq(S) /\ Len(front) = i - 1 /\ \A j \in 1..(i - 1) : front[j] = s[j]
  OBVIOUS
<1>2. back \in Seq(S) /\ Len(back) = Len(s) - i /\ \A j \in 1..(Len(s) - i) : back[j] = s[i + j]
  OBVIOUS
<1>3. RemoveAt(s, i) = front \o back
  BY DEF RemoveAt
<1> HIDE DEF front, back
<1>4. /\ front \o back \in Seq(S) /\ Len(front \o back) = Len(s) - 1
      /\ \A j \in 1..(i - 1) : (front \o back)[j] = s[j]
      /\ \A j \in i..(Len(s) - 1) : (front \o back)[j] = s[j + 1]
  <2>1. front \o back \in Seq(S) /\ Len(front \o back) = Len(s) - 1
    BY <1>1, <1>2
  <2>2. \A j \in 1..(i - 1) : (front \o back)[j] = s[j]
    BY <1>1, <1>2
  <2>3. ASSUME NEW j \in i..(Len(s) - 1) PROVE (front \o back)[j] = s[j + 1]
    <3>1. (front \o back)[j] = back[j - (i - 1)] /\ j - (i - 1) \in 1..(Len(s) - i)
      BY <1>1, <1>2
    <3>2. i + (j - (i - 1)) = j + 1
      OBVIOUS
    <3> QED BY <1>2, <3>1, <3>2
  <2> QED BY <2>1, <2>2, <2>3
<1>5. ASSUME NEW x, In(x, s), x # s[i] PROVE In(x, front \o back)
  <2>1. PICK j \in 1..Len(s) : s[j] = x /\ j # i
    BY <1>5 DEF In
  <2>2. CASE j < i
    <3>1. j \in 1..(i - 1) /\ j \in 1..Len(front \o back)
      BY <1>4, <2>1, <2>2
    <3> QED BY <1>4, <2>1, <3>1 DEF In
  <2>3. CASE j > i
    <3>1. j - 1 \in i..(Len(s) - 1) /\ j - 1 \in 1..Len(front \o back) /\ j - 1 + 1 = j
      BY <1>4, <2>1, <2>3
    <3>2. (front \o back)[j - 1] = x
      BY <1>4, <2>1, <3>1
    <3> QED BY <3>1, <3>2 DEF In
  <2> QED BY <2>1, <2>2, <2>3
<1> QED BY <1>3, <1>4, <1>5

\* Starting a task puts it at the end of the queue.
LEMMA StartBasics ==
    ASSUME SetBasics, NEW x \in SetTasks, InitAndStart(x), UNCHANGED setResult, adding' \subseteq AndSets \X Extras,
           setState' \in [Compound -> StateType]
    PROVE  /\ SetBasics' /\ EndsKept
           /\ \A u \in SetTasks : (Ended(u)' => Ended(u)) /\ (u # x => setStage'[u] = setStage[u])
<1>1. setStage' = [setStage EXCEPT ![x] = "queued"] /\ setQueue' = Append(setQueue, x) /\ setStage[x] = "new"
  BY DEF InitAndStart
<1>2. \A u \in SetTasks : setStage'[u] = IF u = x THEN "queued" ELSE setStage[u]
  BY <1>1 DEF SetBasics
<1>3. /\ setQueue' \in Seq(SetTasks) /\ Len(setQueue') = Len(setQueue) + 1 /\ setQueue'[Len(setQueue) + 1] = x
      /\ \A k \in 1..Len(setQueue) : setQueue'[k] = setQueue[k] /\ setQueue[k] \in SetTasks /\ setQueue[k] # x
  BY <1>1 DEF SetBasics
<1>4. \A k \in 1..Len(setQueue') : k \in 1..Len(setQueue) \/ k = Len(setQueue) + 1
  <2>1. Len(setQueue) \in Nat
    BY DEF SetBasics
  <2> QED BY <1>3, <2>1
<1>5. \A k \in 1..Len(setQueue') : setStage'[setQueue'[k]] = "queued"
  BY <1>2, <1>3, <1>4 DEF SetBasics
<1>6. \A j, k \in 1..Len(setQueue') : setQueue'[j] = setQueue'[k] => j = k
  BY <1>3, <1>4 DEF SetBasics
<1>7. SetBasics'
  BY <1>1, <1>2, <1>3, <1>5, <1>6 DEF SetBasics, Ended
<1> QED BY <1>1, <1>2, <1>7 DEF EndsKept, Ended

\* A task that ends was running, so it is not in the queue.
LEMMA DoneBasics ==
    ASSUME SetBasics, NEW x \in SetTasks, Running(x), NEW r \in ResultType, Done(x, r),
           UNCHANGED <<setQueue, setState, adding>>
    PROVE  /\ SetBasics' /\ EndsKept /\ setResult'[x] = r
           /\ \A u \in SetTasks : (Ended(u)' => Ended(u) \/ u = x) /\ (setStage[u] = "new" => setStage'[u] = "new")
<1>1. setStage' = [setStage EXCEPT ![x] = "done"] /\ setResult' = [setResult EXCEPT ![x] = r] /\ setStage[x] = "running"
  BY DEF Done, Running
<1>2. \A u \in SetTasks : /\ setStage'[u] = IF u = x THEN "done" ELSE setStage[u]
                          /\ setResult'[u] = IF u = x THEN r ELSE setResult[u]
  BY <1>1 DEF SetBasics
<1>3. \A k \in 1..Len(setQueue) : setQueue[k] \in SetTasks /\ setQueue[k] # x
  BY <1>1 DEF SetBasics
<1>4. SetBasics'
  BY <1>1, <1>2, <1>3 DEF SetBasics, Ended, ResultType
<1> QED BY <1>1, <1>2, <1>4 DEF EndsKept, Ended

\* A worker takes the first task of the queue.
LEMMA TakeBasics ==
    ASSUME SetBasics, Take
    PROVE  /\ SetBasics' /\ EndsKept
           /\ \A u \in SetTasks : (Ended(u)' => Ended(u)) /\ (setStage[u] = "new" => setStage'[u] = "new")
<1>1. PICK x : x = Head(setQueue)
  OBVIOUS
<1>2. setQueue # <<>> /\ setQueue' = Tail(setQueue) /\ setStage' = [setStage EXCEPT ![x] = "running"]
      /\ UNCHANGED <<setResult, setState, adding>>
  BY <1>1 DEF Take
<1>3. x = setQueue[1] /\ 1 \in 1..Len(setQueue) /\ x \in SetTasks /\ setStage[x] = "queued"
  <2>1. setQueue \in Seq(SetTasks)
    BY DEF SetBasics
  <2>2. x = setQueue[1] /\ 1 \in 1..Len(setQueue)
    BY <1>1, <1>2, <2>1
  <2> QED BY <2>1, <2>2 DEF SetBasics
<1>4. \A u \in SetTasks : setStage'[u] = IF u = x THEN "running" ELSE setStage[u]
  BY <1>2, <1>3 DEF SetBasics
<1>5. /\ setQueue' \in Seq(SetTasks)
      /\ \A k \in 1..Len(setQueue') : k + 1 \in 1..Len(setQueue) /\ setQueue'[k] = setQueue[k + 1] /\ k + 1 # 1
  BY <1>2 DEF SetBasics
<1>6. \A k \in 1..Len(setQueue') : setQueue'[k] \in SetTasks /\ setQueue'[k] # x /\ setStage[setQueue'[k]] = "queued"
  BY <1>3, <1>5 DEF SetBasics
<1>7. \A j, k \in 1..Len(setQueue') : setQueue'[j] = setQueue'[k] => j = k
  <2> SUFFICES ASSUME NEW j \in 1..Len(setQueue'), NEW k \in 1..Len(setQueue'), setQueue'[j] = setQueue'[k]
               PROVE  j = k
    OBVIOUS
  <2>1. j + 1 = k + 1
    BY <1>5 DEF SetBasics
  <2> QED BY <2>1
<1>8. SetBasics'
  BY <1>2, <1>4, <1>5, <1>6, <1>7 DEF SetBasics, Ended
<1> QED BY <1>2, <1>3, <1>4, <1>8 DEF EndsKept, Ended

\* A concurrent set that does nothing, or is given one more task, loses nobody.
LEMMA AndKept ==
    ASSUME SetBasics, NEW t \in AndSets, AndInv(t), EndsKept, Ended(t)' => Ended(t),
           setState'[t].at = setState[t].at, setState'[t].next = setState[t].next,
           setState'[t].i = setState[t].i, setState'[t].results = setState[t].results,
           \A x : In(x, setState[t].taskset) => In(x, setState'[t].taskset)
    PROVE  AndInv(t)'
<1>1. t \in SetTasks /\ t \in Compound
  BY SetsAssumption DEF Compound
<1>2. \A k \in 1..Len(Kids[t]) : Kids[t][k] \in SetTasks
  BY <1>1, KidsAreTasks
<1>3. \A x \in SetTasks : Accounted(t, x) => Accounted(t, x)'
  BY DEF EndsKept, Accounted
<1>4. \A x \in SetTasks : Ended(x) => Ended(x)' /\ (Raised(x)' <=> Raised(x))
  BY DEF EndsKept, Raised
<1>5. Ended(t)' => \A k \in 1..Len(Kids[t]) : Ended(Kids[t][k])' /\ (~Raised(t)' => ~Raised(Kids[t][k])')
  BY <1>1, <1>2, <1>4 DEF AndInv
<1> QED BY <1>2, <1>3, <1>5 DEF AndInv

\* So does a sequence, if none of its children is started.
LEMMA SeqKept ==
    ASSUME SetBasics, NEW t \in SeqSets, SeqInv(t), EndsKept, Ended(t)' => Ended(t),
           setState'[t] = setState[t],
           \A k \in 1..Len(Kids[t]) : setStage[Kids[t][k]] = "new" => setStage'[Kids[t][k]] = "new"
    PROVE  SeqInv(t)'
<1>1. t \in SetTasks /\ t \in Compound
  BY SetsAssumption DEF Compound
<1>2. \A k \in 1..Len(Kids[t]) : Kids[t][k] \in SetTasks
  BY <1>1, KidsAreTasks
<1>3. \A x \in SetTasks : WellEnded(x) => WellEnded(x)'
  BY DEF EndsKept, WellEnded, Raised
<1>4. Ended(t) => (Raised(t)' <=> Raised(t))
  BY <1>1 DEF EndsKept, Raised
<1> QED BY <1>2, <1>3, <1>4 DEF SeqInv

\* A step in which one task changes its state or ends.
LEMMA SetsKept ==
    ASSUME SetsInv, SetBasics', EndsKept, NEW t,
           \A u \in SetTasks : Ended(u)' => Ended(u) \/ u = t,
           \A u \in Compound : u # t => setState'[u] = setState[u],
           \A u \in SeqSets : u # t => \A k \in 1..Len(Kids[u]) :
               setStage[Kids[u][k]] = "new" => setStage'[Kids[u][k]] = "new",
           t \in AndSets => AndInv(t)', t \in SeqSets => SeqInv(t)'
    PROVE  SetsInv'
<1>1. ASSUME NEW u \in AndSets PROVE AndInv(u)'
  <2>1. CASE u # t
    <3>1. u \in Compound /\ u \in SetTasks
      BY SetsAssumption DEF Compound
    <3>2. setState'[u] = setState[u] /\ (Ended(u)' => Ended(u)) /\ AndInv(u) /\ SetBasics
      BY <2>1, <3>1 DEF SetsInv
    <3> QED BY <3>2, AndKept
  <2> QED BY <2>1
<1>2. ASSUME NEW u \in SeqSets PROVE SeqInv(u)'
  <2>1. CASE u # t
    <3>1. u \in Compound /\ u \in SetTasks
      BY SetsAssumption DEF Compound
    <3>2. setState'[u] = setState[u] /\ (Ended(u)' => Ended(u)) /\ SeqInv(u) /\ SetBasics
      BY <2>1, <3>1 DEF SetsInv
    <3> QED BY <2>1, <3>2, SeqKept
  <2> QED BY <2>1
<1> QED BY <1>1, <1>2 DEF SetsInv

\* A task that is no child of a sequence is started.
LEMMA StartInv ==
    ASSUME SetsInv, NEW x \in SetTasks, InitAndStart(x), UNCHANGED <<setResult, setState>>,
           adding' \subseteq AndSets \X Extras, \A u \in SeqSets : x \notin KidSet(u)
    PROVE  SetsInv'
<1>1. setState' \in [Compound -> StateType]
  BY DEF SetsInv, SetBasics
<1>2. /\ SetBasics' /\ EndsKept
      /\ \A u \in SetTasks : (Ended(u)' => Ended(u)) /\ (u # x => setStage'[u] = setStage[u])
  BY <1>1, StartBasics DEF SetsInv
<1>3. ASSUME NEW u \in SeqSets, NEW k \in 1..Len(Kids[u]) PROVE setStage'[Kids[u][k]] = setStage[Kids[u][k]]
  <2>1. u \in Compound
    BY DEF Compound
  <2>2. Kids[u][k] \in SetTasks /\ Kids[u][k] \in KidSet(u)
    BY <2>1, KidsAreTasks DEF KidSet
  <2> QED BY <1>2, <2>2
<1>4. PICK t : t \notin Compound
  BY NoSetContainsEverything
<1> QED BY <1>2, <1>3, <1>4, SetsKept DEF Compound

\* A task that is not compound ends.
LEMMA LeafEndsInv ==
    ASSUME SetsInv, NEW x \in SetTasks, x \notin Compound, Running(x), NEW r \in ResultType, Done(x, r),
           UNCHANGED <<setQueue, setState, adding>>
    PROVE  SetsInv'
<1>1. /\ SetBasics' /\ EndsKept
      /\ \A u \in SetTasks : (Ended(u)' => Ended(u) \/ u = x) /\ (setStage[u] = "new" => setStage'[u] = "new")
  BY DoneBasics DEF SetsInv
<1>2. \A u \in SeqSets : \A k \in 1..Len(Kids[u]) : Kids[u][k] \in SetTasks
  BY KidsAreTasks DEF Compound
<1> QED BY <1>1, <1>2, SetsKept DEF Compound

\* A worker takes a task.
LEMMA TakeInv == ASSUME SetsInv, Take PROVE SetsInv'
<1>1. /\ SetBasics' /\ EndsKept /\ setState' = setState
      /\ \A u \in SetTasks : (Ended(u)' => Ended(u)) /\ (setStage[u] = "new" => setStage'[u] = "new")
  BY TakeBasics DEF SetsInv, Take
<1>2. \A u \in SeqSets : \A k \in 1..Len(Kids[u]) : Kids[u][k] \in SetTasks
  BY KidsAreTasks DEF Compound
<1>3. PICK t : t \notin Compound
  BY NoSetContainsEverything
<1> QED BY <1>1, <1>2, <1>3, SetsKept DEF Compound

\* A child is started by its set only.
LEMMA OtherChildren ==
    ASSUME NEW t \in Compound, NEW j \in 1..Len(Kids[t]), NEW u \in Compound, NEW k \in 1..Len(Kids[u]),
           u # t \/ k # j
    PROVE  Kids[u][k] # Kids[t][j]
<1>1. DOMAIN Kids[t] = 1..Len(Kids[t]) /\ DOMAIN Kids[u] = 1..Len(Kids[u])
  BY KidsAreTasks
<1> QED BY <1>1, OneParent

\* execute of the concurrent set puts every child it starts into its list.
LEMMA AndStartInv == ASSUME SetsInv, NEW t \in AndSets, AndStart(t) PROVE SetsInv'
<1>1. t \in SetTasks /\ t \in Compound /\ t \notin SeqSets
  BY SetsAssumption DEF Compound
<1>2. PICK s : s = setState[t]
  OBVIOUS
<1>3. s \in StateType /\ s.at = "start" /\ s.next <= Len(Kids[t]) /\ Running(t)
  BY <1>1, <1>2 DEF AndStart, SetsInv, SetBasics
<1>4. PICK kid : kid = Kids[t][s.next]
  OBVIOUS
<1>5. PICK d : d = [s EXCEPT !.next = @ + 1, !.taskset = Append(@, kid)]
  OBVIOUS
<1>6. InitAndStart(kid) /\ setState' = [setState EXCEPT ![t] = d] /\ UNCHANGED <<setResult, adding>>
  BY <1>1, <1>2, <1>4, <1>5 DEF AndStart, SetsInv, SetBasics
<1>7. s.next \in Nat /\ s.next >= 1 /\ s.taskset \in Seq(SetTasks)
  BY <1>2, <1>3 DEF StateType, SetsInv, AndInv
<1>8. PICK list : list = Append(s.taskset, kid)
  OBVIOUS
<1>9. d.at = "start" /\ d.next = s.next + 1 /\ d.i = s.i /\ d.results = s.results /\ d.taskset = list
  BY <1>3, <1>5, <1>8 DEF StateType
<1>10. s.next \in 1..Len(Kids[t]) /\ kid \in SetTasks
  BY <1>1, <1>3, <1>4, <1>7, KidsAreTasks
<1>11. list \in Seq(SetTasks) /\ In(kid, list) /\ \A x : In(x, s.taskset) => In(x, list)
  <2>1. /\ list \in Seq(SetTasks) /\ Len(list) = Len(s.taskset) + 1 /\ list[Len(s.taskset) + 1] = kid
        /\ \A j \in 1..Len(s.taskset) : list[j] = s.taskset[j]
    BY <1>7, <1>8, <1>10
  <2>2. Len(s.taskset) \in Nat
    BY <1>7
  <2> QED BY <2>1, <2>2 DEF In
<1>12. d \in StateType
  <2>1. PICK n \in Nat : n = s.next + 1
    BY <1>7
  <2>2. d = [s EXCEPT !.next = n, !.taskset = list]
    BY <1>5, <1>8, <2>1
  <2> QED BY <1>3, <1>11, <2>1, <2>2 DEF StateType
<1>13. setState' \in [Compound -> StateType]
  BY <1>6, <1>12 DEF SetsInv, SetBasics
<1>14. /\ SetBasics' /\ EndsKept
      /\ \A u \in SetTasks : (Ended(u)' => Ended(u)) /\ (u # kid => setStage'[u] = setStage[u])
  BY <1>6, <1>10, <1>13, StartBasics DEF SetsInv, SetBasics
<1>15. \A u \in Compound : setState'[u] = IF u = t THEN d ELSE setState[u]
  BY <1>6 DEF SetsInv, SetBasics
<1>16. ASSUME NEW u \in SeqSets, NEW k \in 1..Len(Kids[u]) PROVE setStage'[Kids[u][k]] = setStage[Kids[u][k]]
  <2>1. u \in Compound /\ u # t
    BY <1>1 DEF Compound
  <2>2. Kids[u][k] # kid /\ Kids[u][k] \in SetTasks
    BY <1>1, <1>4, <1>10, <2>1, OtherChildren, KidsAreTasks
  <2> QED BY <1>14, <2>2
<1>17. AndInv(t)'
  <2>1. AndInv(t) /\ setState'[t] = d /\ ~Ended(t)'
    BY <1>1, <1>3, <1>14, <1>15 DEF SetsInv, Running, Ended
  <2>2. \A k \in 1..Len(Kids[t]) : k < d.next => k < s.next \/ k = s.next
    BY <1>7, <1>9
  <2>3. \A x \in SetTasks : Accounted(t, x) => Accounted(t, x)'
    BY <1>2, <1>9, <1>14, <2>1 DEF Accounted, EndsKept
  <2>4. \A k \in 1..Len(Kids[t]) : Kids[t][k] \in SetTasks
    BY <1>1, KidsAreTasks
  <2>5. \A k \in 1..Len(Kids[t]) : k < d.next => In(Kids[t][k], list) \/ Accounted(t, Kids[t][k])'
    BY <1>2, <1>4, <1>11, <2>1, <2>2, <2>3, <2>4 DEF AndInv
  <2>6. d.next \in 1..(Len(Kids[t]) + 1) /\ d.i >= 1 /\ "timeout" \notin d.results
    BY <1>2, <1>7, <1>9, <1>10, <2>1 DEF AndInv
  <2> QED BY <1>9, <2>1, <2>5, <2>6 DEF AndInv
<1> QED BY <1>1, <1>14, <1>15, <1>16, <1>17, SetsKept

\* What the steps of a concurrent set after the start have in common: nothing
\* but the state of the set changes.
LEMMA OwnState ==
    ASSUME SetsInv, NEW t \in AndSets, NEW d \in StateType, setState' = [setState EXCEPT ![t] = d],
           UNCHANGED <<setQueue, setStage, setResult>>, adding' \subseteq AndSets \X Extras,
           SetsInv /\ setState'[t] = d => AndInv(t)'
    PROVE  SetsInv'
<1>1. t \in Compound /\ t \notin SeqSets
  BY SetsAssumption DEF Compound
<1>2. \A u \in Compound : setState'[u] = IF u = t THEN d ELSE setState[u]
  BY DEF SetsInv, SetBasics
<1>3. SetBasics' /\ EndsKept
  BY DEF SetsInv, SetBasics, EndsKept, Ended
<1> QED BY <1>1, <1>2, <1>3, SetsKept DEF Ended

\* The number of tasks is read again: with none left every child is accounted.
LEMMA AndCountInv == ASSUME SetsInv, NEW t \in AndSets, AndCount(t) PROVE SetsInv'
<1>1. t \in SetTasks /\ t \in Compound
  BY SetsAssumption DEF Compound
<1>2. PICK s : s = setState[t]
  OBVIOUS
<1>3. s \in StateType /\ AndInv(t) /\ Running(t)
  BY <1>1, <1>2 DEF AndCount, SetsInv, SetBasics
<1>4. s.taskset \in Seq(SetTasks) /\ s.next \in Nat
  BY <1>3 DEF StateType
<1>5. PICK n \in Nat : n = Len(s.taskset)
  BY <1>4
<1>6. PICK at \in {"scan", "poll"} : at = IF n = 0 THEN "scan" ELSE "poll"
  OBVIOUS
<1>7. PICK d : d = [s EXCEPT !.n = n, !.i = 1, !.at = at]
  OBVIOUS
<1>8. d \in StateType /\ d.at = at /\ d.next = s.next /\ d.i = 1 /\ d.results = s.results /\ d.taskset = s.taskset
  BY <1>3, <1>7 DEF StateType
<1>9. setState' = [setState EXCEPT ![t].n = n, ![t].i = 1, ![t].at = at]
      /\ UNCHANGED <<setQueue, setStage, setResult, adding>>
  BY <1>2, <1>5, <1>6 DEF AndCount
<1>10. setState' = [setState EXCEPT ![t] = d]
  BY <1>1, <1>2, <1>7, <1>9 DEF SetsInv, SetBasics
<1>11. s.next = Len(Kids[t]) + 1
  <2>1. Len(Kids[t]) \in Nat
    BY <1>1, KidsAreTasks
  <2> QED BY <1>2, <1>3, <1>4, <2>1 DEF AndCount, AndInv
<1>12. at = "scan" => \A k \in 1..Len(Kids[t]) : Accounted(t, Kids[t][k])
  <2>1. at = "scan" => \A x : ~In(x, s.taskset)
    BY <1>4, <1>5, <1>6 DEF In
  <2>2. \A k \in 1..Len(Kids[t]) : k < s.next
    <3>1. Len(Kids[t]) \in Nat
      BY <1>1, KidsAreTasks
    <3> QED BY <1>11, <3>1
  <2> QED BY <1>2, <1>3, <2>1, <2>2 DEF AndInv
<1>13. ASSUME setState'[t] = d PROVE AndInv(t)'
  <2>1. \A x : (Accounted(t, x)' <=> Accounted(t, x)) /\ (Ended(x)' <=> Ended(x)) /\ (Raised(x)' <=> Raised(x))
    BY <1>2, <1>8, <1>9, <1>13 DEF Accounted, Ended, Raised
  <2>2. /\ setState'[t].next = setState[t].next /\ setState'[t].results = setState[t].results
        /\ setState'[t].taskset = setState[t].taskset /\ setState'[t].i = 1 /\ setState'[t].at = at
    BY <1>2, <1>8, <1>13
  <2>3. ~Ended(t)
    BY <1>3 DEF Running, Ended
  <2>4. at = "scan" => \A k \in 1..Len(Kids[t]) : Accounted(t, Kids[t][k])'
    BY <1>12, <2>1
  <2> QED BY <1>2, <1>3, <1>11, <2>1, <2>2, <2>3, <2>4 DEF AndInv
<1>14. UNCHANGED <<setQueue, setStage, setResult>> /\ adding' \subseteq AndSets \X Extras
  BY <1>9 DEF SetsInv, SetBasics
<1> QED BY <1>8, <1>10, <1>13, <1>14, OwnState

\* A child leaves the list with its result, whatever place the loop has reached
\* in the list that gets shorter.
LEMMA AndPollInv == ASSUME SetsInv, NEW t \in AndSets, AndPoll(t) PROVE SetsInv'
<1>1. t \in SetTasks /\ t \in Compound
  BY SetsAssumption DEF Compound
<1>2. PICK s : s = setState[t]
  OBVIOUS
<1>3. s \in StateType /\ AndInv(t) /\ Running(t) /\ s.at = "poll"
      /\ UNCHANGED <<setQueue, setStage, setResult, adding>>
  BY <1>1, <1>2 DEF AndPoll, SetsInv, SetBasics
<1>4. s.taskset \in Seq(SetTasks) /\ s.i \in Nat /\ s.i >= 1 /\ s.next = Len(Kids[t]) + 1
  BY <1>2, <1>3 DEF StateType, AndInv
<1>5. /\ \A x : (Ended(x)' <=> Ended(x)) /\ (Raised(x)' <=> Raised(x)) /\ setResult'[x] = setResult[x]
      /\ adding' \subseteq AndSets \X Extras
  BY <1>3 DEF Ended, Raised, SetsInv, SetBasics
<1>6. CASE setState' = [setState EXCEPT ![t].at = "count"]
  <2>1. PICK d : d = [s EXCEPT !.at = "count"]
    OBVIOUS
  <2>2. d \in StateType /\ d.at = "count" /\ d.next = s.next /\ d.i = s.i /\ d.results = s.results
        /\ d.taskset = s.taskset
    BY <1>3, <2>1 DEF StateType
  <2>3. setState' = [setState EXCEPT ![t] = d]
    BY <1>1, <1>2, <1>6, <2>1 DEF SetsInv, SetBasics
  <2>4. ASSUME setState'[t] = d PROVE AndInv(t)'
    <3>1. \A x : Accounted(t, x)' <=> Accounted(t, x)
      BY <1>2, <1>5, <2>2, <2>4 DEF Accounted
    <3> QED BY <1>2, <1>3, <1>4, <1>5, <2>2, <2>4, <3>1 DEF AndInv
  <2> QED BY <1>3, <1>5, <2>2, <2>3, <2>4, OwnState
<1>7. CASE setState' = [setState EXCEPT ![t].i = @ + 1]
  <2>1. PICK i \in Nat : i = s.i + 1 /\ i >= 1
    BY <1>4
  <2>2. PICK d : d = [s EXCEPT !.i = i]
    OBVIOUS
  <2>3. d \in StateType /\ d.at = s.at /\ d.next = s.next /\ d.i = i /\ d.results = s.results
        /\ d.taskset = s.taskset
    BY <1>3, <2>2 DEF StateType
  <2>4. setState' = [setState EXCEPT ![t] = d]
    BY <1>1, <1>2, <1>7, <2>1, <2>2 DEF SetsInv, SetBasics
  <2>5. ASSUME setState'[t] = d PROVE AndInv(t)'
    <3>1. \A x : Accounted(t, x)' <=> Accounted(t, x)
      BY <1>2, <1>5, <2>3, <2>5 DEF Accounted
    <3> QED BY <1>2, <1>3, <1>4, <1>5, <2>1, <2>3, <2>5, <3>1 DEF AndInv
  <2> QED BY <1>3, <1>5, <2>3, <2>4, <2>5, OwnState
<1>8. ASSUME NEW task, task = s.taskset[s.i], s.i <= Len(s.taskset), Ended(task), setResult[task] # "timeout",
             setState' = [setState EXCEPT ![t].i = @ + 1, ![t].taskset = RemoveAt(@, s.i),
                                          ![t].results = @ \cup {setResult[task]}]
      PROVE  SetsInv'
  <2>1. s.i \in 1..Len(s.taskset) /\ task \in SetTasks
    BY <1>4, <1>8
  <2>2. PICK list : list = RemoveAt(s.taskset, s.i)
    OBVIOUS
  <2>3. list \in Seq(SetTasks) /\ \A x : In(x, s.taskset) /\ x # task => In(x, list)
    BY <1>4, <1>8, <2>1, <2>2, RemoveKeepsOthers
  <2>4. PICK r \in ResultType : r = setResult[task] /\ r # "timeout"
    BY <1>8, <2>1 DEF SetsInv, SetBasics, ResultType
  <2>5. PICK results : results = s.results \cup {r}
    OBVIOUS
  <2>6. results \in SUBSET ResultType
    BY <1>3, <2>4, <2>5 DEF StateType
  <2>7. PICK i \in Nat : i = s.i + 1 /\ i >= 1
    BY <1>4
  <2>8. PICK d : d = [s EXCEPT !.i = i, !.taskset = list, !.results = results]
    OBVIOUS
  <2>9. d \in StateType /\ d.at = "poll" /\ d.next = s.next /\ d.i = i /\ d.results = results /\ d.taskset = list
    BY <1>3, <2>3, <2>6, <2>8 DEF StateType
  <2>10. setState' = [setState EXCEPT ![t].i = i, ![t].taskset = list, ![t].results = results]
    BY <1>1, <1>2, <1>8, <2>2, <2>4, <2>5, <2>7 DEF SetsInv, SetBasics
  <2>11. setState' = [setState EXCEPT ![t] = d]
    BY <1>1, <1>2, <2>8, <2>10 DEF SetsInv, SetBasics
  <2>12. ASSUME setState'[t] = d PROVE AndInv(t)'
    <3>1. \A x : Accounted(t, x) => Accounted(t, x)'
      BY <1>2, <1>5, <2>5, <2>9, <2>12 DEF Accounted
    <3>2. Accounted(t, task)'
      BY <1>5, <1>8, <2>4, <2>5, <2>9, <2>12 DEF Accounted
    <3>3. \A k \in 1..Len(Kids[t]) : k < d.next => In(Kids[t][k], list) \/ Accounted(t, Kids[t][k])'
      BY <1>2, <1>3, <2>3, <2>9, <3>1, <3>2 DEF AndInv
    <3>4. "timeout" \notin results
      BY <1>2, <1>3, <2>4, <2>5 DEF AndInv
    <3> QED BY <1>2, <1>3, <1>4, <1>5, <2>7, <2>9, <2>12, <3>3, <3>4 DEF AndInv
  <2> QED BY <1>3, <1>5, <2>9, <2>11, <2>12, OwnState
<1> QED
  <2>1. PICK task : task = s.taskset[s.i]
    OBVIOUS
  <2> QED BY <1>2, <1>6, <1>7, <1>8, <2>1 DEF AndPoll

\* The set raises the first exception among the results; they are those of its
\* children, and of tasks that were added.
LEMMA AndEndInv == ASSUME SetsInv, NEW t \in AndSets, AndEnd(t) PROVE SetsInv'
<1>1. t \in SetTasks /\ t \in Compound /\ t \notin SeqSets
  BY SetsAssumption DEF Compound
<1>2. PICK results : results = setState[t].results
  OBVIOUS
<1>3. results \subseteq ResultType /\ AndInv(t) /\ Running(t) /\ setState[t].at = "scan"
      /\ UNCHANGED <<setQueue, setState, adding>>
  BY <1>1, <1>2 DEF AndEnd, SetsInv, SetBasics, StateType
<1>4. PICK result : /\ result \in IF results = {} THEN {"error"} ELSE results
                    /\ "error" \in results => result = "error"
                    /\ Done(t, result)
  BY <1>2 DEF AndEnd
<1>5. result \in ResultType
  BY <1>3, <1>4 DEF ResultType
<1>6. /\ SetBasics' /\ EndsKept /\ setResult'[t] = result
      /\ \A u \in SetTasks : (Ended(u)' => Ended(u) \/ u = t) /\ (setStage[u] = "new" => setStage'[u] = "new")
  BY <1>1, <1>3, <1>4, <1>5, DoneBasics DEF SetsInv
<1>7. \A u \in SeqSets : \A k \in 1..Len(Kids[u]) : Kids[u][k] \in SetTasks
  BY KidsAreTasks DEF Compound
<1>8. \A k \in 1..Len(Kids[t]) : Kids[t][k] \in SetTasks /\ Accounted(t, Kids[t][k])
  BY <1>1, <1>3, KidsAreTasks DEF AndInv
<1>9. AndInv(t)'
  <2>1. \A k \in 1..Len(Kids[t]) : Accounted(t, Kids[t][k])' /\ Ended(Kids[t][k])'
    BY <1>3, <1>6, <1>8 DEF Accounted, EndsKept
  <2>2. ~Raised(t)' => \A k \in 1..Len(Kids[t]) : ~Raised(Kids[t][k])'
    <3> SUFFICES ASSUME ~Raised(t)', NEW k \in 1..Len(Kids[t]) PROVE ~Raised(Kids[t][k])'
      OBVIOUS
    <3>1. setResult'[Kids[t][k]] \in results
      BY <1>2, <1>3, <2>1 DEF Accounted
    <3>2. "error" \notin results
      BY <1>4, <1>6 DEF Raised
    <3>3. "timeout" \notin results
      BY <1>2, <1>3 DEF AndInv
    <3> QED BY <3>1, <3>2, <3>3 DEF Raised
  <2> QED BY <1>3, <2>1, <2>2 DEF AndInv
<1> QED BY <1>1, <1>3, <1>6, <1>7, <1>9, SetsKept DEF Compound

\* A task added to a running set joins its list.
LEMMA AddAppendInv == ASSUME SetsInv, NEW t \in Compound, NEW x \in Extras, AddAppend(t, x) PROVE SetsInv'
<1>1. t \in AndSets /\ x \in SetTasks /\ t \in SetTasks
  BY SetsAssumption DEF AddAppend, SetsInv, SetBasics, Compound
<1>2. PICK s : s = setState[t]
  OBVIOUS
<1>3. s \in StateType /\ AndInv(t) /\ UNCHANGED <<setQueue, setStage, setResult>>
      /\ adding' \subseteq AndSets \X Extras
  BY <1>1, <1>2 DEF AddAppend, SetsInv, SetBasics
<1>4. PICK list : list = Append(s.taskset, x)
  OBVIOUS
<1>5. list \in Seq(SetTasks) /\ \A y : In(y, s.taskset) => In(y, list)
  <2>1. s.taskset \in Seq(SetTasks) /\ Len(s.taskset) \in Nat
    BY <1>3 DEF StateType
  <2>2. /\ list \in Seq(SetTasks) /\ Len(list) = Len(s.taskset) + 1
        /\ \A j \in 1..Len(s.taskset) : list[j] = s.taskset[j]
    BY <1>1, <1>4, <2>1
  <2> QED BY <2>1, <2>2 DEF In
<1>6. PICK d : d = [s EXCEPT !.taskset = list]
  OBVIOUS
<1>7. d \in StateType /\ d.at = s.at /\ d.next = s.next /\ d.i = s.i /\ d.results = s.results /\ d.taskset = list
  BY <1>3, <1>5, <1>6 DEF StateType
<1>8. setState' = [setState EXCEPT ![t] = d]
  BY <1>1, <1>2, <1>4, <1>6 DEF AddAppend, SetsInv, SetBasics
<1>9. ASSUME setState'[t] = d PROVE AndInv(t)'
  <2>1. EndsKept /\ (Ended(t)' => Ended(t))
    BY <1>3 DEF EndsKept, Ended
  <2> QED BY <1>1, <1>2, <1>3, <1>5, <1>7, <1>9, <2>1, AndKept DEF SetsInv
<1> QED BY <1>1, <1>3, <1>7, <1>8, <1>9, OwnState

\* A sequence starts the next child when the one before it has ended well.
LEMMA SeqStepInv == ASSUME SetsInv, NEW t \in SeqSets, SeqStep(t) PROVE SetsInv'
<1>1. t \in SetTasks /\ t \in Compound /\ t \notin AndSets
  BY SetsAssumption DEF Compound
<1>2. PICK s : s = setState[t]
  OBVIOUS
<1>3. s \in StateType /\ SeqInv(t) /\ Running(t) /\ s.at = "start" /\ s.next <= Len(Kids[t])
  BY <1>1, <1>2 DEF SeqStep, SetsInv, SetBasics
<1>4. PICK kid : kid = Kids[t][s.next]
  OBVIOUS
<1>5. s.next \in 1..Len(Kids[t]) /\ s.next \in Nat /\ kid \in SetTasks /\ Len(Kids[t]) \in Nat
  <2>1. s.next \in 1..(Len(Kids[t]) + 1) /\ Len(Kids[t]) \in Nat
    BY <1>1, <1>2, <1>3, KidsAreTasks DEF SeqInv
  <2>2. s.next \in 1..Len(Kids[t])
    BY <1>3, <2>1
  <2> QED BY <1>1, <1>4, <2>1, <2>2, KidsAreTasks
<1>6. PICK n \in Nat : n = s.next + 1
  BY <1>5
<1>7. PICK d : d = [s EXCEPT !.next = n, !.at = "wait"]
  OBVIOUS
<1>8. d \in StateType /\ d.next = n /\ d.at = "wait"
  BY <1>3, <1>7 DEF StateType
<1>9. InitAndStart(kid) /\ setState' = [setState EXCEPT ![t].next = n, ![t].at = "wait"]
      /\ UNCHANGED <<setResult, adding>>
  BY <1>2, <1>4, <1>6 DEF SeqStep
<1>10. setState' = [setState EXCEPT ![t] = d]
  BY <1>1, <1>2, <1>7, <1>9 DEF SetsInv, SetBasics
<1>11. \A u \in Compound : setState'[u] = IF u = t THEN d ELSE setState[u]
  BY <1>10 DEF SetsInv, SetBasics
<1>12. setState' \in [Compound -> StateType]
  BY <1>8, <1>10 DEF SetsInv, SetBasics
<1>13. /\ SetBasics' /\ EndsKept
       /\ \A u \in SetTasks : (Ended(u)' => Ended(u)) /\ (u # kid => setStage'[u] = setStage[u])
  BY <1>5, <1>9, <1>12, StartBasics DEF SetsInv, SetBasics
<1>14. ASSUME NEW u \in SeqSets, NEW k \in 1..Len(Kids[u]), u # t \/ k # s.next
       PROVE  setStage'[Kids[u][k]] = setStage[Kids[u][k]]
  <2>1. u \in Compound
    BY DEF Compound
  <2>2. Kids[u][k] # kid /\ Kids[u][k] \in SetTasks
    BY <1>1, <1>4, <1>5, <1>14, <2>1, OtherChildren, KidsAreTasks
  <2> QED BY <1>13, <2>2
<1>15. SeqInv(t)'
  <2>1. setState'[t] = d /\ ~Ended(t)'
    BY <1>1, <1>3, <1>11, <1>13 DEF Running, Ended
  <2>2. ASSUME NEW k \in 1..Len(Kids[t]), k + 1 < n PROVE WellEnded(Kids[t][k])'
    <3>1. k + 1 < s.next \/ k + 1 = s.next
      BY <1>5, <1>6, <2>2
    <3>2. WellEnded(Kids[t][k]) /\ Kids[t][k] \in SetTasks
      BY <1>1, <1>2, <1>3, <3>1, KidsAreTasks DEF SeqInv
    <3> QED BY <1>13, <3>2 DEF WellEnded, EndsKept, Raised
  <2>3. ASSUME NEW k \in 1..Len(Kids[t]), k >= n PROVE setStage'[Kids[t][k]] = "new"
    <3>1. k >= s.next /\ k # s.next
      BY <1>5, <1>6, <2>3
    <3> QED BY <1>2, <1>3, <1>14, <3>1 DEF SeqInv
  <2>4. n \in 1..(Len(Kids[t]) + 1) /\ n > 1
    BY <1>5, <1>6
  <2> QED BY <1>8, <2>1, <2>2, <2>3, <2>4 DEF SeqInv
<1> QED BY <1>1, <1>11, <1>13, <1>14, <1>15, SetsKept

\* The child it has waited for has ended: the sequence goes on after a value,
\* and ends with what the child has raised or with the value of the last one.
LEMMA SeqStepEndsInv == ASSUME SetsInv, NEW t \in SeqSets, SeqStepEnds(t) PROVE SetsInv'
<1>1. t \in SetTasks /\ t \in Compound /\ t \notin AndSets
  BY SetsAssumption DEF Compound
<1>2. PICK s : s = setState[t]
  OBVIOUS
<1>3. s \in StateType /\ SeqInv(t) /\ Running(t) /\ s.at = "wait" /\ s.next > 1 /\ UNCHANGED <<setQueue, adding>>
      /\ ~Ended(t)
  BY <1>1, <1>2 DEF SeqStepEnds, SetsInv, SetBasics, SeqInv, Running, Ended
<1>4. PICK kid : kid = Kids[t][s.next - 1]
  OBVIOUS
<1>5. s.next - 1 \in 1..Len(Kids[t]) /\ s.next \in Nat /\ kid \in SetTasks /\ Ended(kid) /\ Len(Kids[t]) \in Nat
  <2>1. s.next \in 1..(Len(Kids[t]) + 1) /\ Len(Kids[t]) \in Nat
    BY <1>1, <1>2, <1>3, KidsAreTasks DEF SeqInv
  <2>2. s.next - 1 \in 1..Len(Kids[t])
    BY <1>3, <2>1
  <2> QED BY <1>1, <1>2, <1>4, <2>1, <2>2, KidsAreTasks DEF SeqStepEnds
<1>6. \A u \in SeqSets : \A k \in 1..Len(Kids[u]) : Kids[u][k] \in SetTasks
  BY KidsAreTasks DEF Compound
<1>7. CASE Raised(kid) \/ s.next > Len(Kids[t])
  <2>1. PICK r : r = setResult[kid]
    OBVIOUS
  <2>2. Done(t, r) /\ UNCHANGED setState
    BY <1>2, <1>4, <1>7, <2>1 DEF SeqStepEnds
  <2>3. r \in ResultType
    BY <1>5, <2>1 DEF SetsInv, SetBasics
  <2>4. /\ SetBasics' /\ EndsKept /\ setResult'[t] = r
        /\ \A u \in SetTasks : (Ended(u)' => Ended(u) \/ u = t) /\ (setStage[u] = "new" => setStage'[u] = "new")
    BY <1>1, <1>3, <2>2, <2>3, DoneBasics DEF SetsInv
  <2>5. \A x \in SetTasks : WellEnded(x) => WellEnded(x)'
    BY <2>4 DEF EndsKept, WellEnded, Raised
  <2>6. ~Raised(t)' => \A k \in 1..Len(Kids[t]) : WellEnded(Kids[t][k])
    <3> SUFFICES ASSUME ~Raised(t)', NEW k \in 1..Len(Kids[t]) PROVE WellEnded(Kids[t][k])
      OBVIOUS
    <3>1. ~Raised(kid)
      BY <2>1, <2>4 DEF Raised
    <3>2. k = s.next - 1 \/ k + 1 < s.next
      BY <1>5, <1>7, <3>1
    <3> QED BY <1>2, <1>3, <1>4, <1>5, <3>1, <3>2 DEF SeqInv, WellEnded
  <2>7. SeqInv(t)'
    BY <1>2, <1>3, <1>6, <2>2, <2>4, <2>5, <2>6 DEF SeqInv
  <2> QED BY <1>1, <1>6, <2>2, <2>4, <2>7, SetsKept
<1>8. CASE ~Raised(kid) /\ ~(s.next > Len(Kids[t]))
  <2>1. setState' = [setState EXCEPT ![t].at = "start"] /\ UNCHANGED <<setStage, setResult>>
    BY <1>2, <1>4, <1>8 DEF SeqStepEnds
  <2>2. PICK d : d = [s EXCEPT !.at = "start"]
    OBVIOUS
  <2>3. d \in StateType /\ d.at = "start" /\ d.next = s.next
    BY <1>3, <2>2 DEF StateType
  <2>4. setState' = [setState EXCEPT ![t] = d]
    BY <1>1, <1>2, <2>1, <2>2 DEF SetsInv, SetBasics
  <2>5. \A u \in Compound : setState'[u] = IF u = t THEN d ELSE setState[u]
    BY <2>4 DEF SetsInv, SetBasics
  <2>6. SetBasics' /\ EndsKept
    <3>1. SetBasics
      BY DEF SetsInv
    <3>2. setState' \in [Compound -> StateType]
      BY <2>3, <2>4, <3>1 DEF SetBasics
    <3> QED BY <1>3, <2>1, <3>1, <3>2 DEF SetBasics, EndsKept, Ended
  <2>7. SeqInv(t)'
    <3>1. \A x : (WellEnded(x)' <=> WellEnded(x)) /\ (Ended(x)' <=> Ended(x))
      BY <2>1 DEF WellEnded, Ended, Raised
    <3>2. ASSUME NEW k \in 1..Len(Kids[t]), k + 1 < s.next \/ k + 1 = s.next PROVE WellEnded(Kids[t][k])
      <4>1. k + 1 < s.next \/ k = s.next - 1
        BY <1>5, <3>2
      <4> QED BY <1>2, <1>3, <1>4, <1>5, <1>8, <4>1 DEF SeqInv, WellEnded
    <3>3. setState'[t] = d /\ setStage' = setStage /\ ~Ended(t)'
      BY <1>1, <1>3, <2>1, <2>5, <3>1
    <3> QED BY <1>2, <1>3, <2>3, <3>1, <3>2, <3>3 DEF SeqInv
  <2> QED BY <1>1, <2>1, <2>5, <2>6, <2>7, SetsKept DEF Ended
<1> QED BY <1>7, <1>8

\* A step of execute of a compound task.
LEMMA ExecutesInv == ASSUME SetsInv, NEW t \in Compound, Executes(t) PROVE SetsInv'
BY AndStartInv, AndCountInv, AndPollInv, AndEndInv, SeqStepInv, SeqStepEndsInv
   DEF Executes, AndStart, AndCount, AndPoll, AndEnd, SeqStep, SeqStepEnds

\* In the beginning nothing is started.
LEMMA SetsInit == SetInit => SetsInv
<1> SUFFICES ASSUME SetInit PROVE SetsInv
  OBVIOUS
<1>1. PICK s : s = [at |-> "start", next |-> 1, i |-> 1, n |-> 0, taskset |-> <<>>, results |-> {}]
  OBVIOUS
<1>2. /\ s.at = "start" /\ s.next = 1 /\ s.i = 1 /\ s.results = {} /\ s.taskset = <<>>
      /\ s \in StateType
  BY <1>1 DEF StateType
<1>3. setState = [t \in Compound |-> s]
  BY <1>1 DEF SetInit
<1>4. SetBasics
  <2>1. setQueue = <<>> /\ Len(setQueue) = 0 /\ setQueue \in Seq(SetTasks) /\ 1..Len(setQueue) = {}
    BY DEF SetInit
  <2>2. setState \in [Compound -> StateType] /\ adding \subseteq AndSets \X Extras
    BY <1>2, <1>3 DEF SetInit
  <2> QED BY <2>1, <2>2 DEF SetInit, SetBasics, Ended
<1>5. ASSUME NEW t \in Compound
      PROVE  setState[t] = s /\ ~Ended(t) /\ Len(Kids[t]) \in Nat /\ \A k \in 1..Len(Kids[t]) : setStage[Kids[t][k]] = "new"
  BY <1>3, KidsAreTasks, SetsAssumption DEF SetInit, Ended
<1>6. ASSUME NEW t \in AndSets PROVE AndInv(t)
  <2>1. t \in Compound
    BY DEF Compound
  <2>2. \A k \in 1..Len(Kids[t]) : ~(k < 1)
    BY <1>5, <2>1
  <2> QED BY <1>2, <1>5, <2>1, <2>2 DEF AndInv
<1>7. ASSUME NEW t \in SeqSets PROVE SeqInv(t)
  <2>1. t \in Compound
    BY DEF Compound
  <2>2. \A k \in 1..Len(Kids[t]) : ~(k + 1 < 1) /\ k + 1 # 1
    BY <1>5, <2>1
  <2> QED BY <1>2, <1>5, <2>1, <2>2 DEF SeqInv
<1> QED BY <1>4, <1>6, <1>7 DEF SetsInv

\* What a set has told of its children.
LEMMA SetsTell == SetsInv => SetsAreConclusive /\ SetTypeOK
<1> SUFFICES ASSUME SetsInv PROVE SetsAreConclusive /\ SetTypeOK
  OBVIOUS
<1>1. ASSUME NEW t \in Compound, NEW kid \in KidSet(t) PROVE \E k \in 1..Len(Kids[t]) : kid = Kids[t][k]
  BY <1>1, KidsAreTasks DEF KidSet
<1>2. ASSUME NEW t \in AndSets, Ended(t), NEW kid \in KidSet(t)
      PROVE  Ended(kid) /\ (~Raised(t) => ~Raised(kid))
  BY <1>1, <1>2 DEF Compound, SetsInv, AndInv
<1>3. ASSUME NEW t \in SeqSets, Ended(t), ~Raised(t), NEW kid \in KidSet(t) PROVE WellEnded(kid)
  BY <1>1, <1>3 DEF Compound, SetsInv, SeqInv
<1>4. ASSUME NEW t \in SeqSets, NEW k \in 2..Len(Kids[t]), setStage[Kids[t][k]] # "new"
      PROVE  WellEnded(Kids[t][k - 1])
  <2>1. t \in Compound
    BY DEF Compound
  <2>2. k \in 1..Len(Kids[t]) /\ k - 1 \in 1..Len(Kids[t]) /\ (k - 1) + 1 = k /\ setState[t].next \in Nat
    <3>1. Len(Kids[t]) \in Nat /\ setState[t].next \in 1..(Len(Kids[t]) + 1)
      BY <2>1, KidsAreTasks DEF SetsInv, SeqInv
    <3> QED BY <3>1
  <2>3. k < setState[t].next
    BY <1>4, <2>2 DEF SetsInv, SeqInv
  <2> QED BY <2>2, <2>3 DEF SetsInv, SeqInv
<1>5. SetTypeOK
  BY DEF SetTypeOK, SetsInv, SetBasics
<1>6. SetsAreConclusive
  <2>1. \A t \in Compound : Ended(t) /\ ~Raised(t) => \A kid \in KidSet(t) : Ended(kid) /\ ~Raised(kid)
    BY <1>2, <1>3 DEF WellEnded, Compound
  <2> QED BY <1>2, <1>4, <2>1 DEF SetsAreConclusive, WellEnded
<1> QED BY <1>5, <1>6

\* Every step of the tasks keeps the invariant.
LEMMA SetsStep == SetsInv /\ [SetNext]_setVars => SetsInv'
<1> SUFFICES ASSUME SetsInv, [SetNext]_setVars PROVE SetsInv'
  OBVIOUS
<1>1. ASSUME NEW x \in Roots \cup Extras PROVE x \in SetTasks /\ \A u \in SeqSets : x \notin KidSet(u)
  BY SetsAssumption, OneParent DEF Compound
<1>2. CASE Take
  BY <1>2, TakeInv
<1>3. ASSUME NEW t \in SetTasks, StartRoot(t) PROVE SetsInv'
  BY <1>1, <1>3, StartInv DEF StartRoot, SetsInv, SetBasics
<1>4. ASSUME NEW t \in SetTasks, LeafEnds(t) PROVE SetsInv'
  <2>1. PICK result \in LeafResults : Done(t, result)
    BY <1>4 DEF LeafEnds
  <2>2. result \in ResultType /\ t \notin Compound /\ Running(t) /\ UNCHANGED <<setQueue, setState, adding>>
    BY <1>4, SetsAssumption DEF LeafEnds, Leaf
  <2> QED BY <2>1, <2>2, LeafEndsInv
<1>5. ASSUME NEW t \in Compound, Executes(t) PROVE SetsInv'
  BY <1>5, ExecutesInv
<1>6. ASSUME NEW t \in Compound, NEW x \in Extras, AddStart(t, x) PROVE SetsInv'
  <2>1. adding' \subseteq AndSets \X Extras
    BY <1>6 DEF AddStart, SetsInv, SetBasics
  <2> QED BY <1>1, <1>6, <2>1, StartInv DEF AddStart
<1>7. ASSUME NEW t \in Compound, NEW x \in Extras, AddAppend(t, x) PROVE SetsInv'
  BY <1>7, AddAppendInv
<1>8. CASE UNCHANGED setVars
  <2>1. SetBasics' /\ EndsKept
    BY <1>8 DEF setVars, SetsInv, SetBasics, EndsKept, Ended
  <2>2. PICK t : t \notin Compound
    BY NoSetContainsEverything
  <2> QED BY <1>8, <2>1, <2>2, SetsKept DEF setVars, Compound, Ended
<1> QED BY <1>2, <1>3, <1>4, <1>5, <1>6, <1>7, <1>8 DEF SetNext

\* A concurrent set that has ended has seen the end of all its children, one
\* that ends without an exception has no child that raised one, and a sequence
\* starts a child only after those before it have ended well: for sets of any
\* size and depth, any number of workers and tasks added on the way (execute).
THEOREM SetsConclude == SetSpec => []SetsAreConclusive
BY SetsInit, SetsStep, SetsTell, PTL DEF SetSpec

\* The groups of a request are numbered from 1.
RecvTypes ==
    /\ recvAt \in [Runners -> {"ack", "group", "wait", "over"}]
    /\ recvGroup \in [Runners -> Nat \ {0}] /\ waited \in [Runners -> 0..1]

\* The number of the group is only counted up.
LEMMA RecvStaysTyped == RecvTypes /\ [FileNext]_fileVars => RecvTypes'
<1> SUFFICES ASSUME RecvTypes, [FileNext]_fileVars PROVE RecvTypes'
  OBVIOUS
<1>1. ASSUME NEW r \in Runners, NEW set, NEW result \in 0..1, Collect(r, set, result) PROVE RecvTypes'
  <2>1. recvGroup' = [recvGroup EXCEPT ![r] = recvGroup[r] + 1] /\ waited' = [waited EXCEPT ![r] = result]
        /\ recvAt' = [recvAt EXCEPT ![r] = "group"]
    BY <1>1 DEF Collect, Go
  <2> QED BY <2>1 DEF RecvTypes
<1>2. ASSUME NEW r \in Runners, Ask(r) \/ Ack(r) \/ StartGroup(r) \/ SendDe(r) PROVE RecvTypes'
  BY <1>2 DEF Ask, Ack, StartGroup, SendDe, Go, RecvTypes, recvVars
<1>3. ASSUME NEW r \in Runners, GroupEnds(r) \/ GroupTimeout(r) PROVE RecvTypes'
  BY <1>1, <1>3 DEF GroupEnds, GroupTimeout, Go, RecvTypes
<1>4. ASSUME NEW f \in Transfers, Saves(f) PROVE UNCHANGED recvVars
  BY <1>4 DEF Saves, Exists, Rename, Open, Copy, Chmod, Stat, AddTransfer, recvVars
<1> QED BY <1>2, <1>3, <1>4 DEF FileNext, Receives, Worker, SetStep, fileVars, recvVars, RecvTypes

\* The steps of the file reception start and end tasks as the pool allows.
LEMMA FilesKeepSets == SetsInv /\ RecvTypes /\ [FileNext]_fileVars => SetsInv'
<1> SUFFICES ASSUME SetsInv, RecvTypes, [FileNext]_fileVars PROVE SetsInv'
  OBVIOUS
<1>1. ASSUME UNCHANGED setVars PROVE SetsInv'
  BY <1>1, SetsStep
<1>2. ASSUME NEW x \in SetTasks, x \notin Compound, Running(x), NEW r \in ResultType, Done(x, r),
             UNCHANGED <<setQueue, setState, adding>>
      PROVE  SetsInv'
  BY <1>2, LeafEndsInv
<1>3. adding' = adding => adding' \subseteq AndSets \X Extras
  BY DEF SetsInv, SetBasics
<1>4. ASSUME NEW r \in Runners PROVE r \in SetTasks /\ r \notin Compound /\ \A u \in SeqSets : r \notin KidSet(u)
  BY SetsAssumption, RecvAssumption DEF Compound
<1>5. ASSUME NEW f \in Transfers PROVE f \in SetTasks /\ f \notin Compound
  BY RecvAssumption
<1>6. ASSUME NEW r \in Runners, Ask(r) PROVE SetsInv'
  BY <1>3, <1>4, <1>6, StartInv DEF Ask
<1>7. ASSUME NEW r \in Runners, Ack(r) PROVE SetsInv'
  BY <1>1, <1>2, <1>4, <1>7 DEF Ack, At, ResultType
<1>8. ASSUME NEW r \in Runners, StartGroup(r) PROVE SetsInv'
  <2>1. PICK x : x = Groups[r][recvGroup[r]]
    OBVIOUS
  <2>2. InitAndStart(x) /\ UNCHANGED <<setResult, setState, adding>> /\ recvGroup[r] <= Len(Groups[r])
    BY <1>8, <2>1 DEF StartGroup
  <2>3. recvGroup[r] \in DOMAIN Groups[r] /\ Groups[r] \in Seq(AndSets)
    BY <2>2, RecvAssumption DEF RecvTypes
  <2>4. x \in AndSets /\ x \in SetTasks
    BY <2>1, <2>3, SetsAssumption DEF Compound
  <2>5. \A u \in SeqSets : x \notin KidSet(u)
    BY <2>1, <2>3, RecvAssumption DEF Compound
  <2> QED BY <1>3, <2>2, <2>4, <2>5, StartInv
<1>9. ASSUME NEW r \in Runners, GroupEnds(r) \/ GroupTimeout(r) PROVE SetsInv'
  BY <1>1, <1>2, <1>4, <1>9 DEF GroupEnds, GroupTimeout, Collect, At, ResultType
<1>10. ASSUME NEW r \in Runners, SendDe(r) PROVE SetsInv'
  BY <1>2, <1>4, <1>10 DEF SendDe, At, ResultType
<1>11. ASSUME NEW f \in Transfers, Saves(f) PROVE SetsInv'
  BY <1>1, <1>2, <1>5, <1>11 DEF Saves, Exists, Rename, Open, Copy, Chmod, Stat, AddTransfer, Saving, ResultType
<1>12. CASE Worker
  BY <1>12, TakeInv DEF Worker
<1>13. ASSUME NEW t \in Compound, SetStep(t) PROVE SetsInv'
  BY <1>13, ExecutesInv DEF SetStep
<1>14. CASE UNCHANGED fileVars
  BY <1>1, <1>14 DEF fileVars
<1> QED BY <1>6, <1>7, <1>8, <1>9, <1>10, <1>11, <1>12, <1>13, <1>14 DEF FileNext, Receives

\* It is so when the sets are those of the file reception, too, where requests
\* start them and stop waiting for them (file_recv).
THEOREM SetsConcludeForFiles == FileSpec => []SetsAreConclusive
<1>1. FileInit => SetsInv /\ RecvTypes
  BY SetsInit DEF FileInit, RecvTypes
<1>2. SetsInv /\ RecvTypes /\ [FileNext]_fileVars => SetsInv' /\ RecvTypes'
  BY FilesKeepSets, RecvStaysTyped
<1> QED BY <1>1, <1>2, SetsTell, PTL DEF FileSpec
-----------------------------------------------------------------------------
(* Reception of files.                                                      *)

Stages == {"exists", "rename", "open", "copy", "check", "stat", "good", "failed", "over"}

\* Types; who copies has a file.
FileTypes ==
    /\ reply \in [Runners -> {"none", "ok", "error"}]
    /\ statuslist \in [Transfers -> 0..1] /\ resDict \in [Transfers -> 0..1]
    /\ saveAt \in [Transfers -> Stages] /\ onDisk \in [FrameIds -> Files \cup {NoFile}]
    /\ renamed \in [FrameIds -> SUBSET Files] /\ target \in [Transfers -> Files \cup {NoFile}]
    /\ fullSize \subseteq Files /\ readOnly \subseteq Files
    /\ \A f \in Transfers : saveAt[f] = "copy" => target[f] \in Files

\* A transfer before its open has no file; a file that is there was created by
\* the transfer it is named after, for that frame; transfers write to files of
\* their frame; when a file has been renamed there is nobody left to rename
\* another; while the old file has the name nobody has got further.
FilesFit ==
    /\ \A f \in Transfers : saveAt[f] \in {"exists", "rename", "open"} => target[f] = NoFile
    /\ \A d \in FrameIds : \A x \in Transfers :
          x \in renamed[d] \cup {onDisk[d]} => FrameId[x] = d /\ target[x] = x
    /\ \A f, x \in Transfers : target[f] = x => FrameId[x] = FrameId[f]
    /\ \A f, x \in Transfers : x \in renamed[FrameId[f]] => saveAt[f] \notin {"exists", "rename"}
    /\ \A f \in Transfers : onDisk[FrameId[f]] = OldFile => saveAt[f] \in {"exists", "rename"}

\* Who has copied to a file of its own has filled it, unless another transfer
\* has opened it since; who has done chmod will stat a read-only file or has
\* left a complete one.
StagesTrue ==
    /\ \A f \in Transfers : (saveAt[f] \in {"check", "stat"} /\ target[f] = f) =>
          f \in fullSize \/ \E g \in Transfers \ {f} : target[g] = f
    /\ \A f \in Transfers : saveAt[f] = "stat" => onDisk[FrameId[f]] \in readOnly \/ Complete(f)

\* Who has found its file good, and what has been reported, are right.
ReportsTrue ==
    /\ \A f \in Transfers : saveAt[f] = "good" \/ resDict[f] = 0 \/ statuslist[f] = 0 => Complete(f)
    /\ \A r \in Runners : reply[r] = "ok" => \A f \in FramesOf(r) : Complete(f)

FilesRight == FilesFit /\ StagesTrue /\ ReportsTrue
FileInv == FileTypes /\ (AskedTwiceAtMost => FilesRight)

\* The frames of a request are fetched by transfers.
LEMMA FramesAreTransfers == \A r \in Runners : FramesOf(r) \subseteq Transfers
BY RecvAssumption DEF FramesOf

\* The old file, no file and the files of transfers are different things.
LEMMA KindsOfFiles ==
    /\ NoFile \notin Files /\ OldFile \notin Transfers /\ OldFile # NoFile /\ NoFile \notin Transfers
    /\ \A f \in Transfers : FrameId[f] \in FrameIds /\ f \in Files
BY RecvAssumption DEF Files, FrameIds

\* A step of file_recv, of the pool or of a set touches no file.
LEMMA NoFileTouched ==
    ASSUME FileInv, UNCHANGED saveVars,
           resDict' \in [Transfers -> 0..1], statuslist' \in [Transfers -> 0..1],
           reply' \in [Runners -> {"none", "ok", "error"}],
           \A f \in Transfers : resDict'[f] = 0 => resDict[f] = 0,
           \A f \in Transfers : statuslist'[f] = 0 => statuslist[f] = 0 \/ resDict[f] = 0,
           \A r \in Runners : reply'[r] = "ok" =>
               reply[r] = "ok" \/ \A f \in FramesOf(r) : statuslist[f] = 0
    PROVE  FileInv'
<1>1. FileTypes'
  BY DEF FileInv, FileTypes, saveVars
<1>2. SUFFICES ASSUME AskedTwiceAtMost PROVE FilesRight'
  BY <1>1 DEF FileInv
<1>3. \A f \in Transfers : Complete(f) <=> Complete(f)'
  BY DEF Complete, saveVars
<1>4. FilesFit' /\ StagesTrue'
  BY <1>2, <1>3 DEF FileInv, FilesRight, FilesFit, StagesTrue, saveVars
<1>5. \A f \in Transfers : saveAt'[f] = "good" \/ resDict'[f] = 0 \/ statuslist'[f] = 0 => Complete(f)'
  BY <1>2, <1>3 DEF FileInv, FilesRight, ReportsTrue, saveVars
<1>6. ASSUME NEW r \in Runners, reply'[r] = "ok", NEW f \in FramesOf(r) PROVE Complete(f)'
  <2>1. f \in Transfers
    BY <1>6, FramesAreTransfers
  <2>2. Complete(f)
    BY <1>2, <1>6, <2>1 DEF FileInv, FilesRight, ReportsTrue
  <2> QED BY <1>3, <2>1, <2>2
<1>7. ReportsTrue'
  BY <1>5, <1>6 DEF ReportsTrue, Complete
<1> QED BY <1>4, <1>7 DEF FilesRight

\* Nothing has been received at the beginning.
LEMMA FilesInit == FileInit => FileInv
<1> SUFFICES ASSUME FileInit PROVE FileInv
  OBVIOUS
<1>1. onDisk \in [FrameIds -> {NoFile, OldFile}]
  BY DEF FileInit
<1>2. FileTypes
  BY <1>1 DEF FileInit, FileTypes, Stages, Files
<1>3. FilesFit
  BY <1>1, KindsOfFiles DEF FileInit, FilesFit
<1>4. StagesTrue /\ ReportsTrue
  BY DEF FileInit, StagesTrue, ReportsTrue
<1> QED BY <1>2, <1>3, <1>4 DEF FileInv, FilesRight

\* The statuses are taken from resDict.
LEMMA CollectInv == ASSUME FileInv, NEW r, NEW set, NEW result, Collect(r, set, result) PROVE FileInv'
<1>1. statuslist' = [f \in Transfers |-> IF f \in KidSet(set) THEN resDict[f] ELSE statuslist[f]]
      /\ UNCHANGED <<reply, resDict, saveVars>>
  BY DEF Collect
<1>2. statuslist' \in [Transfers -> 0..1]
  BY <1>1 DEF FileInv, FileTypes
<1>3. \A f \in Transfers : statuslist'[f] = 0 => statuslist[f] = 0 \/ resDict[f] = 0
  BY <1>1
<1> QED BY <1>1, <1>2, <1>3, NoFileTouched DEF FileInv, FileTypes

\* file_recv reports success only for statuses that are all 0.
LEMMA ReceivesInv ==
    ASSUME FileInv, NEW r \in Runners, Receives(r) \/ GroupTimeout(r) PROVE FileInv'
<1>1. CASE Ack(r)
  BY <1>1, NoFileTouched DEF Ack, FileInv, FileTypes
<1>2. CASE StartGroup(r)
  <2>1. PICK kids : resDict' = [f \in Transfers |-> IF f \in kids THEN 1 ELSE resDict[f]]
    BY <1>2 DEF StartGroup
  <2>2. resDict' \in [Transfers -> 0..1] /\ \A f \in Transfers : resDict'[f] = 0 => resDict[f] = 0
    BY <2>1 DEF FileInv, FileTypes
  <2> QED BY <1>2, <2>2, NoFileTouched DEF StartGroup, FileInv, FileTypes
<1>3. CASE GroupEnds(r)
  <2>1. CASE \E set, result : Collect(r, set, result)
    BY <2>1, CollectInv
  <2>2. CASE UNCHANGED <<statuslist, reply, resDict, saveVars>>
    BY <2>2, NoFileTouched DEF FileInv, FileTypes
  <2> QED BY <1>3, <2>1, <2>2 DEF GroupEnds
<1>4. CASE GroupTimeout(r)
  BY <1>4, CollectInv DEF GroupTimeout
<1>5. CASE SendDe(r)
  <2>1. UNCHANGED <<statuslist, resDict, saveVars>>
    BY <1>5 DEF SendDe
  <2>2. PICK res \in {"ok", "error"} : /\ reply' = [reply EXCEPT ![r] = res] \/ reply' = reply
                                       /\ res = "ok" => \A f \in FramesOf(r) : statuslist[f] = 0
    BY <1>5 DEF SendDe
  <2>3. reply' \in [Runners -> {"none", "ok", "error"}]
    BY <2>2 DEF FileInv, FileTypes
  <2>4. \A q \in Runners : reply'[q] = "ok" => reply[q] = "ok" \/ \A f \in FramesOf(q) : statuslist[f] = 0
    BY <2>2 DEF FileInv, FileTypes
  <2> QED BY <2>1, <2>3, <2>4, NoFileTouched DEF FileInv, FileTypes
<1> QED BY <1>1, <1>2, <1>3, <1>4, <1>5 DEF Receives

\* What a step of a transfer does to the files, by kinds.
Stage(f, a) == saveAt' = [saveAt EXCEPT ![f] = a]
OnlyStage(f, a) == Stage(f, a) /\ UNCHANGED <<onDisk, renamed, target, fullSize, readOnly>>
Renames(f) ==
    /\ saveAt[f] = "rename" /\ onDisk[FrameId[f]] # NoFile /\ Stage(f, "open")
    /\ onDisk' = [onDisk EXCEPT ![FrameId[f]] = NoFile]
    /\ \E gone : renamed' = [renamed EXCEPT ![FrameId[f]] = (@ \ {gone}) \cup {onDisk[FrameId[f]]}]
    /\ UNCHANGED <<target, fullSize, readOnly>>
Opens(f, file) ==
    /\ saveAt[f] = "open" /\ Stage(f, "copy")
    /\ file = IF onDisk[FrameId[f]] = NoFile THEN f ELSE onDisk[FrameId[f]]
    /\ file \notin readOnly /\ target' = [target EXCEPT ![f] = file]
    /\ onDisk' = [onDisk EXCEPT ![FrameId[f]] = file] /\ fullSize' = fullSize \ {file}
    /\ UNCHANGED <<renamed, readOnly>>
Fills(f) ==
    /\ saveAt[f] = "copy" /\ Stage(f, "check") /\ fullSize' = fullSize \cup {target[f]}
    /\ UNCHANGED <<onDisk, renamed, target, readOnly>>
Protects(f) ==
    /\ saveAt[f] = "check" /\ onDisk[FrameId[f]] # NoFile /\ Stage(f, "stat")
    /\ readOnly' = readOnly \cup {onDisk[FrameId[f]]}
    /\ UNCHANGED <<onDisk, renamed, target, fullSize>>

\* The steps that go on to another stage and leave the files alone.
GoesOn(f) ==
    \/ saveAt[f] = "exists" /\ OnlyStage(f, IF onDisk[FrameId[f]] = NoFile THEN "open" ELSE "rename")
    \/ saveAt[f] = "rename" /\ onDisk[FrameId[f]] = NoFile /\ OnlyStage(f, "over")
    \/ saveAt[f] \in {"open", "copy", "check", "stat"} /\ OnlyStage(f, "failed")
    \/ saveAt[f] = "stat" /\ onDisk[FrameId[f]] \in fullSize /\ OnlyStage(f, "good")
    \/ saveAt[f] \in {"good", "failed"} /\ OnlyStage(f, "over")

\* Every step of a transfer is of one of the kinds, and only the last reports.
LEMMA SavesKinds ==
    ASSUME NEW f \in Transfers, Saves(f)
    PROVE  /\ Renames(f) \/ (\E file : Opens(f, file)) \/ Fills(f) \/ Protects(f) \/ GoesOn(f)
           /\ UNCHANGED recvVars
           /\ \/ resDict' = resDict
              \/ \E b \in 0..1 : resDict' = [resDict EXCEPT ![f] = b] /\ (b = 0 => saveAt[f] = "good")
<1>1. CASE Exists(f)
  BY <1>1 DEF Exists, Saving, Goto, GoesOn, OnlyStage, Stage
<1>2. CASE Rename(f)
  BY <1>2 DEF Rename, Saving, Goto, GoesOn, OnlyStage, Stage, Renames, recvVars
<1>3. CASE Open(f)
  BY <1>3 DEF Open, Saving, Goto, GoesOn, OnlyStage, Stage, Opens
<1>4. CASE Copy(f)
  BY <1>4 DEF Copy, Saving, Goto, GoesOn, OnlyStage, Stage, Fills
<1>5. CASE Chmod(f)
  BY <1>5 DEF Chmod, Saving, Goto, GoesOn, OnlyStage, Stage, Protects
<1>6. CASE Stat(f)
  BY <1>6 DEF Stat, Saving, Goto, GoesOn, OnlyStage, Stage
<1>7. CASE AddTransfer(f)
  <2>1. GoesOn(f) /\ UNCHANGED recvVars
    BY <1>7 DEF AddTransfer, Saving, Goto, GoesOn, OnlyStage, Stage
  <2>2. resDict' = [resDict EXCEPT ![f] = IF saveAt[f] = "good" THEN 0 ELSE 1] \/ resDict' = resDict
    BY <1>7 DEF AddTransfer
  <2> QED BY <2>1, <2>2
<1> QED BY <1>1, <1>2, <1>3, <1>4, <1>5, <1>6, <1>7 DEF Saves

\* A step of a transfer keeps the types.
LEMMA SavesTypes == ASSUME FileTypes, NEW f \in Transfers, Saves(f) PROVE FileTypes'
<1>1. FrameId[f] \in FrameIds /\ f \in Files
  BY KindsOfFiles
<1>2. resDict' \in [Transfers -> 0..1] /\ UNCHANGED <<statuslist, reply>>
  BY SavesKinds DEF FileTypes, recvVars
<1>3. \A a \in Stages : Stage(f, a) => saveAt' \in [Transfers -> Stages]
  BY DEF Stage, FileTypes
<1>4. onDisk[FrameId[f]] \in Files \cup {NoFile}
  BY <1>1 DEF FileTypes
<1>5. CASE Renames(f)
  <2>1. saveAt' \in [Transfers -> Stages]
    BY <1>3, <1>5 DEF Renames, Stages
  <2>2. onDisk' \in [FrameIds -> Files \cup {NoFile}] /\ renamed' \in [FrameIds -> SUBSET Files]
    BY <1>1, <1>4, <1>5 DEF Renames, FileTypes
  <2>3. \A g \in Transfers : saveAt'[g] = "copy" => target'[g] \in Files
    BY <1>5 DEF Renames, Stage, FileTypes
  <2> QED BY <1>2, <1>5, <2>1, <2>2, <2>3 DEF Renames, FileTypes
<1>6. ASSUME NEW file, Opens(f, file) PROVE FileTypes'
  <2>1. saveAt' \in [Transfers -> Stages]
    BY <1>3, <1>6 DEF Opens, Stages
  <2>2. file \in Files
    BY <1>1, <1>4, <1>6 DEF Opens
  <2>3. onDisk' \in [FrameIds -> Files \cup {NoFile}] /\ target' \in [Transfers -> Files \cup {NoFile}]
    BY <1>6, <2>2 DEF Opens, FileTypes
  <2>4. \A g \in Transfers : saveAt'[g] = "copy" => target'[g] \in Files
    BY <1>6, <2>2 DEF Opens, Stage, FileTypes
  <2> QED BY <1>2, <1>6, <2>1, <2>3, <2>4 DEF Opens, FileTypes
<1>7. CASE Fills(f) \/ Protects(f)
  <2>1. saveAt' \in [Transfers -> Stages]
    BY <1>3, <1>7 DEF Fills, Protects, Stages
  <2>2. fullSize' \subseteq Files /\ readOnly' \subseteq Files
    BY <1>4, <1>7 DEF Fills, Protects, FileTypes
  <2>3. \A g \in Transfers : saveAt'[g] = "copy" => target'[g] \in Files
    BY <1>7 DEF Fills, Protects, Stage, FileTypes
  <2> QED BY <1>2, <1>7, <2>1, <2>2, <2>3 DEF Fills, Protects, FileTypes
<1>8. CASE GoesOn(f)
  <2>1. PICK a \in Stages \ {"copy"} : OnlyStage(f, a)
    BY <1>8 DEF GoesOn, Stages
  <2>2. saveAt' \in [Transfers -> Stages]
    BY <1>3, <2>1 DEF OnlyStage
  <2>3. \A g \in Transfers : saveAt'[g] = "copy" => target'[g] \in Files
    BY <2>1 DEF OnlyStage, Stage, FileTypes
  <2> QED BY <1>2, <2>1, <2>2, <2>3 DEF OnlyStage, FileTypes
<1> QED BY <1>5, <1>6, <1>7, <1>8, SavesKinds

\* A complete file stays there: it is read-only, and nobody renames another
\* over it.
LEMMA CompleteStays ==
    ASSUME FileTypes, FilesFit, NEW f \in Transfers, Saves(f), NEW g \in Transfers, Complete(g)
    PROVE  Complete(g)'
<1>1. FrameId[f] \in FrameIds /\ FrameId[g] \in FrameIds
  BY KindsOfFiles
<1>2. PICK x \in Transfers \cap fullSize \cap readOnly :
           FrameId[x] = FrameId[g] /\ x \in renamed[FrameId[g]] \cup {onDisk[FrameId[g]]}
  BY DEF Complete
<1>3. CASE Renames(f)
  <2>1. PICK gone : renamed' = [renamed EXCEPT ![FrameId[f]] = (@ \ {gone}) \cup {onDisk[FrameId[f]]}]
    BY <1>3 DEF Renames
  <2>2. CASE FrameId[g] # FrameId[f]
    <3>1. renamed'[FrameId[g]] = renamed[FrameId[g]] /\ onDisk'[FrameId[g]] = onDisk[FrameId[g]]
      BY <1>1, <1>3, <2>1, <2>2 DEF Renames, FileTypes
    <3> QED BY <1>2, <1>3, <3>1 DEF Complete, Renames
  <2>3. CASE FrameId[g] = FrameId[f]
    <3>1. x \notin renamed[FrameId[f]]
      BY <1>2, <1>3 DEF Renames, FilesFit
    <3>2. x \in renamed'[FrameId[g]]
      BY <1>1, <1>2, <2>1, <2>3, <3>1 DEF FileTypes
    <3> QED BY <1>2, <1>3, <3>2 DEF Complete, Renames
  <2> QED BY <2>2, <2>3
<1>4. ASSUME NEW file, Opens(f, file) PROVE Complete(g)'
  <2>1. x \in fullSize' \cap readOnly'
    BY <1>2, <1>4 DEF Opens
  <2>2. x \in renamed'[FrameId[g]] \cup {onDisk'[FrameId[g]]}
    <3>1. CASE x \in renamed[FrameId[g]]
      BY <1>4, <3>1 DEF Opens
    <3>2. CASE x = onDisk[FrameId[g]]
      BY <1>1, <1>2, <1>4, <3>2, KindsOfFiles DEF Opens, FileTypes
    <3> QED BY <1>2, <3>1, <3>2
  <2> QED BY <1>2, <2>1, <2>2 DEF Complete
<1>5. CASE Fills(f) \/ Protects(f)
  BY <1>2, <1>5 DEF Fills, Protects, Complete
<1>6. CASE GoesOn(f)
  <2>1. UNCHANGED <<onDisk, renamed, fullSize, readOnly>>
    BY <1>6 DEF GoesOn, OnlyStage
  <2> QED BY <1>2, <2>1 DEF Complete
<1> QED BY <1>3, <1>4, <1>5, <1>6, SavesKinds

\* A step of a transfer keeps the order among the transfers of a frame, of
\* which there are two at most.
LEMMA SavesFit ==
    ASSUME AskedTwiceAtMost, FileTypes, FilesFit, NEW f \in Transfers, Saves(f)
    PROVE  FilesFit'
<1>1. FrameId[f] \in FrameIds
  BY KindsOfFiles
<1>2. CASE Renames(f)
  <2>1. PICK gone : renamed' = [renamed EXCEPT ![FrameId[f]] = (@ \ {gone}) \cup {onDisk[FrameId[f]]}]
    BY <1>2 DEF Renames
  <2>2. /\ \A g \in Transfers : saveAt'[g] = IF g = f THEN "open" ELSE saveAt[g]
        /\ \A d \in FrameIds : onDisk'[d] = IF d = FrameId[f] THEN NoFile ELSE onDisk[d]
        /\ target' = target /\ saveAt[f] = "rename"
    BY <1>2 DEF Renames, Stage, FileTypes
  <2>3. \A d \in FrameIds : \A x \in Transfers : x \in renamed'[d] => x \in renamed[d] \cup {onDisk[d]}
    BY <1>1, <2>1 DEF FileTypes
  <2>4. \A d \in FrameIds : \A x \in Transfers :
           x \in renamed'[d] \cup {onDisk'[d]} => FrameId[x] = d /\ target'[x] = x
    BY <2>2, <2>3, KindsOfFiles DEF FilesFit
  <2>5. ASSUME NEW g \in Transfers, NEW x \in Transfers, x \in renamed'[FrameId[g]]
        PROVE  saveAt'[g] \notin {"exists", "rename"}
    <3>1. CASE x \in renamed[FrameId[g]]
      BY <2>2, <3>1 DEF FilesFit
    <3>2. CASE x \notin renamed[FrameId[g]]
      <4>1. FrameId[g] = FrameId[f] /\ x = onDisk[FrameId[f]]
        BY <1>1, <2>1, <2>5, <3>2, KindsOfFiles DEF FileTypes
      <4>2. FrameId[x] = FrameId[f] /\ target[x] = x
        BY <1>1, <4>1 DEF FilesFit
      <4>3. saveAt[x] \notin {"exists", "rename"} /\ x # f
        BY <2>2, <4>2, KindsOfFiles DEF FilesFit
      <4>4. g = f \/ g = x
        BY <4>1, <4>2, <4>3 DEF AskedTwiceAtMost
      <4> QED BY <2>2, <4>3, <4>4
    <3> QED BY <3>1, <3>2
  <2>6. \A g \in Transfers : onDisk'[FrameId[g]] = OldFile => saveAt'[g] \in {"exists", "rename"}
    BY <2>2, KindsOfFiles DEF FilesFit
  <2>7. \A g \in Transfers : saveAt'[g] \in {"exists", "rename", "open"} => target'[g] = NoFile
    BY <2>2 DEF FilesFit
  <2>8. \A g, x \in Transfers : target'[g] = x => FrameId[x] = FrameId[g]
    BY <2>2 DEF FilesFit
  <2> QED BY <2>4, <2>5, <2>6, <2>7, <2>8 DEF FilesFit
<1>3. ASSUME NEW file, Opens(f, file) PROVE FilesFit'
  <2>1. /\ \A g \in Transfers : saveAt'[g] = IF g = f THEN "copy" ELSE saveAt[g]
        /\ \A d \in FrameIds : onDisk'[d] = IF d = FrameId[f] THEN file ELSE onDisk[d]
        /\ \A g \in Transfers : target'[g] = IF g = f THEN file ELSE target[g]
        /\ renamed' = renamed /\ saveAt[f] = "open" /\ target[f] = NoFile
    BY <1>3 DEF Opens, Stage, FileTypes, FilesFit
  <2>2. onDisk[FrameId[f]] # OldFile
    BY <2>1 DEF FilesFit
  <2>3. file \in Transfers /\ FrameId[file] = FrameId[f] /\ (file # f => target[file] = file)
    <3>1. CASE onDisk[FrameId[f]] = NoFile
      BY <1>3, <3>1 DEF Opens
    <3>2. CASE onDisk[FrameId[f]] # NoFile
      <4>1. file = onDisk[FrameId[f]] /\ file \in Transfers
        BY <1>1, <1>3, <2>2, <3>2 DEF Opens, FileTypes, Files
      <4> QED BY <1>1, <4>1 DEF FilesFit
    <3> QED BY <3>1, <3>2
  <2>4. ASSUME NEW d \in FrameIds, NEW x \in Transfers, x \in renamed'[d] \cup {onDisk'[d]}
        PROVE  FrameId[x] = d /\ target'[x] = x
    <3>1. CASE x = f
      <4>1. x \notin renamed[d] \cup {onDisk[d]}
        BY <2>1, <3>1, KindsOfFiles DEF FilesFit
      <4>2. d = FrameId[f] /\ file = f
        BY <2>1, <2>4, <3>1, <4>1
      <4> QED BY <2>1, <3>1, <4>2
    <3>2. CASE x # f
      BY <2>1, <2>3, <2>4, <3>2 DEF FilesFit
    <3> QED BY <3>1, <3>2
  <2>5. \A g, x \in Transfers : target'[g] = x => FrameId[x] = FrameId[g]
    BY <2>1, <2>3 DEF FilesFit
  <2>6. \A g, x \in Transfers : x \in renamed'[FrameId[g]] => saveAt'[g] \notin {"exists", "rename"}
    BY <2>1 DEF FilesFit
  <2>7. \A g \in Transfers : onDisk'[FrameId[g]] = OldFile => saveAt'[g] \in {"exists", "rename"}
    BY <2>1, <2>2, <2>3, KindsOfFiles DEF FilesFit
  <2>8. \A g \in Transfers : saveAt'[g] \in {"exists", "rename", "open"} => target'[g] = NoFile
    BY <2>1 DEF FilesFit
  <2> QED BY <2>4, <2>5, <2>6, <2>7, <2>8 DEF FilesFit
<1>4. CASE Fills(f) \/ Protects(f) \/ GoesOn(f)
  <2>1. /\ UNCHANGED <<onDisk, renamed, target>>
        /\ \A g \in Transfers : g # f => saveAt'[g] = saveAt[g]
    BY <1>4 DEF Fills, Protects, GoesOn, OnlyStage, Stage, FileTypes
  <2>2. saveAt'[f] \in {"exists", "rename"} => saveAt[f] = "exists"
    BY <1>4 DEF Fills, Protects, GoesOn, OnlyStage, Stage, FileTypes
  <2>3. saveAt'[f] = "open" => saveAt[f] = "exists"
    BY <1>4 DEF Fills, Protects, GoesOn, OnlyStage, Stage, FileTypes
  <2>4. onDisk[FrameId[f]] = OldFile => saveAt'[f] \in {"exists", "rename"}
    <3> SUFFICES ASSUME onDisk[FrameId[f]] = OldFile PROVE saveAt'[f] = "rename"
      OBVIOUS
    <3>1. saveAt[f] \in {"exists", "rename"} /\ onDisk[FrameId[f]] # NoFile
      BY KindsOfFiles DEF FilesFit
    <3> QED BY <1>4, <3>1 DEF Fills, Protects, GoesOn, OnlyStage, Stage, FileTypes
  <2> QED BY <2>1, <2>2, <2>3, <2>4 DEF FilesFit
<1> QED BY <1>2, <1>3, <1>4, SavesKinds

\* What a transfer has found out stays true.
LEMMA SavesStages ==
    ASSUME AskedTwiceAtMost, FileTypes, FilesFit, StagesTrue, NEW f \in Transfers, Saves(f)
    PROVE  StagesTrue'
<1>1. FrameId[f] \in FrameIds
  BY KindsOfFiles
<1>2. \A g \in Transfers : Complete(g) => Complete(g)'
  BY CompleteStays
<1>3. CASE Renames(f)
  <2>1. /\ \A g \in Transfers : saveAt'[g] = IF g = f THEN "open" ELSE saveAt[g]
        /\ \A d \in FrameIds : onDisk'[d] = IF d = FrameId[f] THEN NoFile ELSE onDisk[d]
        /\ UNCHANGED <<target, fullSize, readOnly>> /\ saveAt[f] = "rename" /\ target[f] = NoFile
    BY <1>3 DEF Renames, Stage, FileTypes, FilesFit
  <2>2. PICK gone : renamed' = [renamed EXCEPT ![FrameId[f]] = (@ \ {gone}) \cup {onDisk[FrameId[f]]}]
    BY <1>3 DEF Renames
  <2>3. ASSUME NEW g \in Transfers, saveAt'[g] = "stat" PROVE onDisk'[FrameId[g]] \in readOnly' \/ Complete(g)'
    <3>1. saveAt[g] = "stat" /\ g # f /\ (onDisk[FrameId[g]] \in readOnly \/ Complete(g))
      BY <2>1, <2>3 DEF StagesTrue
    <3>2. CASE Complete(g)
      BY <1>2, <3>2
    <3>3. CASE FrameId[g] # FrameId[f]
      BY <1>2, <2>1, <3>1, <3>3, KindsOfFiles
    <3>4. CASE FrameId[g] = FrameId[f] /\ onDisk[FrameId[g]] \in readOnly
      <4>1. PICK x : x = onDisk[FrameId[f]]
        OBVIOUS
      <4>2. x \in Transfers
        BY <1>1, <1>3, <3>1, <3>4, <4>1 DEF Renames, FileTypes, FilesFit, Files
      <4>3. FrameId[x] = FrameId[f] /\ target[x] = x
        BY <1>1, <4>1, <4>2 DEF FilesFit
      <4>4. x # f
        BY <2>1, <4>2, <4>3, KindsOfFiles
      <4>5. x = g
        BY <3>1, <3>4, <4>2, <4>3, <4>4 DEF AskedTwiceAtMost
      <4>6. ~\E h \in Transfers \ {x} : target[h] = x
        <5> SUFFICES ASSUME NEW h \in Transfers \ {x}, target[h] = x PROVE FALSE
          OBVIOUS
        <5>1. FrameId[x] = FrameId[h]
          BY <4>2 DEF FilesFit
        <5>2. h = f
          BY <4>2, <4>3, <4>4, <5>1 DEF AskedTwiceAtMost
        <5> QED BY <2>1, <4>2, <5>2, KindsOfFiles
      <4>7. x \in fullSize
        BY <3>1, <4>3, <4>5, <4>6 DEF StagesTrue
      <4>8. x \in renamed'[FrameId[f]]
        BY <1>1, <2>2, <4>1 DEF FileTypes
      <4>9. x \in Transfers \cap fullSize' \cap readOnly' /\ x \in renamed'[FrameId[g]] /\ FrameId[x] = FrameId[g]
        BY <2>1, <3>4, <4>1, <4>2, <4>5, <4>7, <4>8
      <4> QED BY <4>9 DEF Complete
    <3> QED BY <3>1, <3>2, <3>3, <3>4
  <2>4. \A g \in Transfers : (saveAt'[g] \in {"check", "stat"} /\ target'[g] = g) =>
           g \in fullSize' \/ \E h \in Transfers \ {g} : target'[h] = g
    BY <2>1 DEF StagesTrue
  <2> QED BY <2>3, <2>4 DEF StagesTrue, Complete
<1>4. ASSUME NEW file, Opens(f, file) PROVE StagesTrue'
  <2>1. /\ \A g \in Transfers : saveAt'[g] = IF g = f THEN "copy" ELSE saveAt[g]
        /\ \A d \in FrameIds : onDisk'[d] = IF d = FrameId[f] THEN file ELSE onDisk[d]
        /\ \A g \in Transfers : target'[g] = IF g = f THEN file ELSE target[g]
        /\ fullSize' = fullSize \ {file} /\ readOnly' = readOnly /\ target[f] = NoFile
    BY <1>4 DEF Opens, Stage, FileTypes, FilesFit
  <2>2. ASSUME NEW g \in Transfers, saveAt'[g] \in {"check", "stat"}, target'[g] = g
        PROVE  g \in fullSize' \/ \E h \in Transfers \ {g} : target'[h] = g
    <3>1. g # f /\ saveAt[g] \in {"check", "stat"} /\ target[g] = g
      BY <2>1, <2>2
    <3>2. CASE g = file
      BY <2>1, <3>1, <3>2
    <3>3. CASE g # file /\ g \in fullSize
      BY <2>1, <3>3
    <3>4. CASE \E h \in Transfers \ {g} : target[h] = g
      <4>1. PICK h \in Transfers \ {g} : target[h] = g
        BY <3>4
      <4>2. h # f
        BY <2>1, <4>1, KindsOfFiles
      <4> QED BY <2>1, <4>1, <4>2
    <3> QED BY <3>1, <3>2, <3>3, <3>4 DEF StagesTrue
  <2>3. ASSUME NEW g \in Transfers, saveAt'[g] = "stat" PROVE onDisk'[FrameId[g]] \in readOnly' \/ Complete(g)'
    <3>1. saveAt[g] = "stat" /\ (onDisk[FrameId[g]] \in readOnly \/ Complete(g))
      BY <2>1, <2>3 DEF StagesTrue
    <3>2. CASE Complete(g)
      BY <1>2, <3>2
    <3>3. CASE onDisk[FrameId[g]] \in readOnly
      <4>1. onDisk[FrameId[g]] # NoFile
        BY <3>3, KindsOfFiles DEF FileTypes
      <4>2. FrameId[g] # FrameId[f]
        BY <1>4, <3>3, <4>1 DEF Opens
      <4>3. onDisk'[FrameId[g]] = onDisk[FrameId[g]]
        BY <2>1, <4>2, KindsOfFiles
      <4> QED BY <2>1, <3>3, <4>3
    <3> QED BY <3>1, <3>2, <3>3
  <2> QED BY <2>2, <2>3 DEF StagesTrue, Complete
<1>5. CASE Fills(f)
  <2>1. /\ \A g \in Transfers : saveAt'[g] = IF g = f THEN "check" ELSE saveAt[g]
        /\ UNCHANGED <<onDisk, target, readOnly>> /\ fullSize' = fullSize \cup {target[f]}
    BY <1>5 DEF Fills, Stage, FileTypes
  <2>2. \A g \in Transfers : (saveAt'[g] \in {"check", "stat"} /\ target'[g] = g) =>
           g \in fullSize' \/ \E h \in Transfers \ {g} : target'[h] = g
    BY <2>1 DEF StagesTrue
  <2>3. \A g \in Transfers : saveAt'[g] = "stat" => onDisk'[FrameId[g]] \in readOnly' \/ Complete(g)'
    BY <1>2, <2>1 DEF StagesTrue
  <2> QED BY <2>2, <2>3 DEF StagesTrue, Complete
<1>6. CASE Protects(f)
  <2>1. /\ \A g \in Transfers : saveAt'[g] = IF g = f THEN "stat" ELSE saveAt[g]
        /\ UNCHANGED <<onDisk, target, fullSize>> /\ readOnly' = readOnly \cup {onDisk[FrameId[f]]}
        /\ saveAt[f] = "check"
    BY <1>6 DEF Protects, Stage, FileTypes
  <2>2. \A g \in Transfers : (saveAt'[g] \in {"check", "stat"} /\ target'[g] = g) =>
           g \in fullSize' \/ \E h \in Transfers \ {g} : target'[h] = g
    BY <2>1 DEF StagesTrue
  <2>3. \A g \in Transfers : saveAt'[g] = "stat" => onDisk'[FrameId[g]] \in readOnly' \/ Complete(g)'
    BY <1>2, <2>1 DEF StagesTrue
  <2> QED BY <2>2, <2>3 DEF StagesTrue, Complete
<1>7. CASE GoesOn(f)
  <2>1. /\ \A g \in Transfers : saveAt'[g] \in {"check", "stat"} => saveAt'[g] = saveAt[g]
        /\ UNCHANGED <<onDisk, target, fullSize, readOnly>>
    BY <1>7 DEF GoesOn, OnlyStage, Stage, FileTypes
  <2>2. \A g \in Transfers : (saveAt'[g] \in {"check", "stat"} /\ target'[g] = g) =>
           g \in fullSize' \/ \E h \in Transfers \ {g} : target'[h] = g
    BY <2>1 DEF StagesTrue
  <2>3. \A g \in Transfers : saveAt'[g] = "stat" => onDisk'[FrameId[g]] \in readOnly' \/ Complete(g)'
    BY <1>2, <2>1 DEF StagesTrue
  <2> QED BY <2>2, <2>3 DEF StagesTrue, Complete
<1> QED BY <1>3, <1>4, <1>5, <1>6, <1>7, SavesKinds

\* A transfer finds its file good only if a complete one is there.
LEMMA SavesReports ==
    ASSUME FileTypes, FilesRight, NEW f \in Transfers, Saves(f)
    PROVE  ReportsTrue'
<1>1. \A g \in Transfers : Complete(g) => Complete(g)'
  BY CompleteStays DEF FilesRight
<1>2. ASSUME NEW g \in Transfers, saveAt'[g] = "good" PROVE Complete(g)'
  <2>1. CASE saveAt[g] = "good"
    BY <1>1, <2>1 DEF FilesRight, ReportsTrue
  <2>2. CASE saveAt[g] # "good"
    <3>1. g = f /\ saveAt[f] = "stat" /\ onDisk[FrameId[f]] \in fullSize
      BY <1>2, <2>2, SavesKinds DEF Renames, Opens, Fills, Protects, GoesOn, OnlyStage, Stage, FileTypes
    <3>2. CASE Complete(f)
      BY <1>1, <3>1, <3>2
    <3>3. CASE onDisk[FrameId[f]] \in readOnly
      <4>1. PICK x : x = onDisk[FrameId[f]]
        OBVIOUS
      <4>2. x \in Transfers
        BY <3>1, <4>1 DEF FileTypes, FilesRight, FilesFit, Files
      <4>3. FrameId[x] = FrameId[f]
        BY <4>1, <4>2, KindsOfFiles DEF FilesRight, FilesFit
      <4>4. Complete(f)
        BY <3>1, <3>3, <4>1, <4>2, <4>3 DEF Complete
      <4> QED BY <1>1, <3>1, <4>4
    <3> QED BY <3>1, <3>2, <3>3 DEF FilesRight, StagesTrue
  <2> QED BY <2>1, <2>2
<1>3. UNCHANGED <<statuslist, reply>>
  BY SavesKinds DEF recvVars
<1>4. \A g \in Transfers : resDict'[g] = 0 => resDict[g] = 0 \/ saveAt[g] = "good"
  BY SavesKinds DEF FileTypes
<1>5. \A g \in Transfers : saveAt'[g] = "good" \/ resDict'[g] = 0 \/ statuslist'[g] = 0 => Complete(g)'
  BY <1>1, <1>2, <1>3, <1>4 DEF FilesRight, ReportsTrue
<1>6. \A r \in Runners : reply'[r] = "ok" => \A g \in FramesOf(r) : Complete(g)'
  BY <1>1, <1>3, FramesAreTransfers DEF FilesRight, ReportsTrue
<1> QED BY <1>5, <1>6 DEF ReportsTrue, Complete

\* A step of a transfer keeps the invariant.
LEMMA SavesInv == ASSUME FileInv, NEW f \in Transfers, Saves(f) PROVE FileInv'
<1>1. FileTypes'
  BY SavesTypes DEF FileInv
<1>2. ASSUME AskedTwiceAtMost PROVE FilesRight'
  <2>1. FileTypes /\ FilesRight /\ FilesFit /\ StagesTrue
    BY <1>2 DEF FileInv, FilesRight
  <2> QED BY <1>2, <2>1, SavesFit, SavesStages, SavesReports DEF FilesRight
<1> QED BY <1>1, <1>2 DEF FileInv

\* Every step keeps the invariant.
LEMMA FilesStep == FileInv /\ [FileNext]_fileVars => FileInv'
<1> SUFFICES ASSUME FileInv, [FileNext]_fileVars PROVE FileInv'
  OBVIOUS
<1>1. CASE UNCHANGED <<recvVars, saveVars, resDict>>
  BY <1>1, NoFileTouched DEF FileInv, FileTypes, recvVars
<1>2. ASSUME NEW r \in Runners, Ask(r) \/ Receives(r) \/ GroupTimeout(r) PROVE FileInv'
  BY <1>1, <1>2, ReceivesInv DEF Ask
<1>3. CASE Worker \/ \E t \in Compound : SetStep(t)
  BY <1>1, <1>3 DEF Worker, SetStep
<1>4. CASE UNCHANGED fileVars
  BY <1>1, <1>4 DEF fileVars
<1> QED BY <1>2, <1>3, <1>4, SavesInv DEF FileNext

\* What the invariant says of the requests that have been answered.
LEMMA FilesReceived == FileInv => ReceivedIsOnDisk
BY DEF FileInv, FilesRight, ReportsTrue, ReceivedIsOnDisk

\* A request answered with result 0 has left a complete file of each of its
\* frames, under its name or renamed, for every number of requests, frames,
\* sets and files from before, as long as no frame is asked for more than twice
\* (file_recv, save_fits, check_rename).
THEOREM ReceivedFilesAreThere == FileSpec => []ReceivedIsOnDisk
BY FilesReceived, FilesInit, FilesStep, PTL DEF FileSpec

\* What the invariants of the sets and of the files say of the types.
LEMMA FilesTell == FileInv /\ SetsInv /\ RecvTypes => FileTypeOK
<1> SUFFICES ASSUME FileInv, SetsInv, RecvTypes PROVE FileTypeOK
  OBVIOUS
<1>1. SetTypeOK
  BY SetsTell
<1>2. recvGroup \in [Runners -> Nat]
  BY DEF RecvTypes
<1> QED BY <1>1, <1>2 DEF FileTypeOK, FileInv, FileTypes, RecvTypes, Stages

\* Every state of the file reception is well typed.
THEOREM FilesTypeCorrect == FileSpec => []FileTypeOK
<1>1. FileInit => FileInv /\ SetsInv /\ RecvTypes
  BY FilesInit, SetsInit DEF FileInit, RecvTypes
<1>2. (FileInv /\ SetsInv /\ RecvTypes) /\ [FileNext]_fileVars => (FileInv /\ SetsInv /\ RecvTypes)'
  BY FilesStep, FilesKeepSets, RecvStaysTyped
<1> QED BY <1>1, <1>2, FilesTell, PTL DEF FileSpec
=============================================================================
