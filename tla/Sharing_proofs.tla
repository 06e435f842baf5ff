----------------------------- MODULE Sharing_proofs -----------------------------
(***************************************************************************)
(* What processes share: the values that pubsubs tell each other and the   *)
(* images in shared memory.  Updates never go round, for every network of  *)
(* pubsubs, every number of updates, crashes and lost answers: the list of *)
(* names an update carries has each pubsub at most once, since a pubsub    *)
(* adds its name only if it is not there and accepts no update that bears  *)
(* it.  The counter of an image is never ahead of its data, for any number *)
(* of writers, readers, pixels and calls of set_data.                      *)
(***************************************************************************)
EXTENDS PubSub, ScexaoShm, FiniteSetTheorems, TLAPS

TaskFields == {"kind", "at", "to", "names", "chans", "id"}

\* What is known of each task, wherever the update has been.
Fits(t) ==
    /\ DOMAIN t = TaskFields
    /\ t.at \in Nodes /\ t.to \in Nodes /\ t.names \in Seq(Nodes)
    /\ IsInjective(t.names)
    /\ t.kind = "update" /\ Len(t.names) > 1 => t.at \notin Range(t.names)

\* Subscribers are pubsubs, those of every channel and those under way.
SubTypes ==
    /\ net \in NetType
    /\ explicit \in [Nodes -> [Channels -> SUBSET Nodes]]
    /\ computed \in [Nodes -> [Channels -> SUBSET Nodes]]
    /\ requests \subseteq [from : Nodes, to : Nodes, waiting : BOOLEAN]

NamesInv == SubTypes /\ \A t \in TaskSet : Fits(t)

-----------------------------------------------------------------------------
(* Bags of tasks.                                                           *)

\* What is left and what is new after a task has ended.
LEMMA BagDomains ==
    /\ \A B, C : BagToSet(B (-) C) \subseteq BagToSet(B)
    /\ \A B, C : BagToSet(B (+) C) = BagToSet(B) \cup BagToSet(C)
    /\ \A S : BagToSet(SetToBag(S)) = S
    /\ BagToSet(EmptyBag) = {}
  BY DEF BagToSet, SetToBag, EmptyBag, (+), (-)

LEMMA IntoTasks ==
    ASSUME NEW t, NEW S, tasks' = (tasks (-) SetToBag({t})) (+) SetToBag(S)
    PROVE  TaskSet' \subseteq TaskSet \cup S
  <1>1. BagToSet(tasks') = BagToSet(tasks (-) SetToBag({t})) \cup BagToSet(SetToBag(S))
    BY BagDomains
  <1>2. BagToSet(SetToBag(S)) = S /\ BagToSet(tasks (-) SetToBag({t})) \subseteq BagToSet(tasks)
    BY BagDomains
  <1> QED BY <1>1, <1>2 DEF TaskSet

LEMMA AddedTasks == ASSUME NEW S, tasks' = tasks (+) SetToBag(S) PROVE TaskSet' = TaskSet \cup S
  <1>1. BagToSet(tasks') = BagToSet(tasks) \cup BagToSet(SetToBag(S))
    BY BagDomains
  <1>2. BagToSet(SetToBag(S)) = S
    BY BagDomains
  <1> QED BY <1>1, <1>2 DEF TaskSet

LEMMA EndsTasks == ASSUME NEW t, Ends(t) PROVE TaskSet' \subseteq TaskSet
  BY BagDomains DEF Ends, TaskSet

LEMMA BecomesTasks == ASSUME NEW t, NEW u, Becomes(t, u) PROVE TaskSet' \subseteq TaskSet \cup {u}
  BY IntoTasks DEF Becomes
-----------------------------------------------------------------------------
(* Subscribers.                                                             *)

\* compute_subscribers adds no one who has not subscribed.
LEMMA ResubscribeTypes ==
    ASSUME SubTypes, NEW n \in Nodes, NEW ex \in [Channels -> SUBSET Nodes], Resubscribe(n, ex)
    PROVE  /\ explicit' \in [Nodes -> [Channels -> SUBSET Nodes]]
           /\ computed' \in [Nodes -> [Channels -> SUBSET Nodes]]
  <1>1. \A c \in Channels :
          (ex[c] \cup UNION {ex[a] : a \in {a \in Channels : c \in Constituents(n, a)}}) \ {n} \subseteq Nodes
    OBVIOUS
  <1>2. ComputeSubscribers(n, ex) \in [Channels -> SUBSET Nodes]
    BY <1>1 DEF ComputeSubscribers
  <1> HIDE DEF ComputeSubscribers
  <1> QED BY <1>2 DEF Resubscribe, SubTypes

LEMMA UnsubscribeTypes ==
    ASSUME SubTypes, NEW n \in Nodes, NEW m, Unsubscribe(n, m)
    PROVE  /\ explicit' \in [Nodes -> [Channels -> SUBSET Nodes]]
           /\ computed' \in [Nodes -> [Channels -> SUBSET Nodes]]
  <1>1. [c \in Channels |-> explicit[n][c] \ {m}] \in [Channels -> SUBSET Nodes]
    BY DEF SubTypes
  <1> QED BY <1>1, ResubscribeTypes DEF Unsubscribe

LEMMA SubscribeTypes ==
    ASSUME SubTypes, NEW n \in Nodes, NEW m \in Nodes, NEW chans, NEW unsub, Subscribe(n, m, chans, unsub)
    PROVE  /\ explicit' \in [Nodes -> [Channels -> SUBSET Nodes]]
           /\ computed' \in [Nodes -> [Channels -> SUBSET Nodes]]
           /\ tasks' = tasks
  <1> DEFINE ex == [c \in Channels |-> explicit[n][c] \cup (IF c \in chans THEN {m} ELSE {})]
  <1>1. ex \in [Channels -> SUBSET Nodes]
    BY DEF SubTypes
  <1>2. Resubscribe(n, ex) /\ tasks' = tasks
    BY DEF Subscribe
  <1> HIDE DEF ex
  <1> QED BY <1>1, <1>2, ResubscribeTypes
-----------------------------------------------------------------------------
(* Tasks.                                                                   *)

\* A task keeps its update when it goes on to its next stage.
LEMMA NextStageFits ==
    ASSUME NEW t, Fits(t), NEW k \in {"queued", "calling", "failed", "removing"}
    PROVE  /\ Fits([t EXCEPT !.kind = k])
           /\ \A i : Fits([t EXCEPT !.kind = k, !.id = i])
  BY DEF Fits, TaskFields

LEMMA BecomesFits ==
    ASSUME NamesInv, NEW t \in TaskSet, NEW k \in {"queued", "calling", "failed", "removing"}, NEW i,
           Becomes(t, [t EXCEPT !.kind = k]) \/ Becomes(t, [t EXCEPT !.kind = k, !.id = i])
    PROVE  \A u \in TaskSet' : Fits(u)
  <1>1. Fits([t EXCEPT !.kind = k]) /\ Fits([t EXCEPT !.kind = k, !.id = i])
    BY NextStageFits DEF NamesInv
  <1>2. PICK u : Becomes(t, u) /\ Fits(u)
    BY <1>1
  <1> QED BY <1>2, BecomesTasks DEF NamesInv

\* A pubsub that adds its name adds it once.
LEMMA AddName ==
    ASSUME NEW names \in Seq(Nodes), IsInjective(names), NEW n \in Nodes, n \notin Range(names)
    PROVE  Append(names, n) \in Seq(Nodes) /\ IsInjective(Append(names, n))
  BY DEF IsInjective, Range

\* What remote_update makes of an update.
LEMMA ReceivedFits ==
    ASSUME NEW t, Fits(t), NEW u \in BagToSet(Received(t))
    PROVE  Fits(u)
  <1>1. t.to \notin Range(t.names) /\ u = Update(t.to, t.names, t.chans)
    BY BagDomains DEF Received
  <1> QED BY <1>1 DEF Fits, TaskFields, Update

\* _subscriber_update: each of the new tasks carries the longer list.
LEMMA DistributeFits ==
    ASSUME NamesInv, NEW t \in TaskSet, Distribute(t)
    PROVE  \A u \in TaskSet' : Fits(u)
  <1> DEFINE names == IF t.at \in Range(t.names) THEN t.names ELSE Append(t.names, t.at)
             subscribers == UNION {computed[t.at][c] : c \in t.chans \cap net.known[t.at]}
             told == {m \in subscribers : ~IsOriginator(m, t)}
             Told(m) == [t EXCEPT !.kind = "queued", !.to = m, !.names = names,
                                  !.chans = AllChannels(t.at, t.chans)]
             new == {Told(m) : m \in told}
  <1>1. tasks' = (tasks (-) SetToBag({t})) (+) SetToBag(new)
    BY DEF Distribute
  <1>2. TaskSet' \subseteq TaskSet \cup new
    <2> HIDE DEF new
    <2> QED BY <1>1, IntoTasks
  <1>3. Fits(t)
    BY DEF NamesInv
  <1>4. names \in Seq(Nodes) /\ IsInjective(names)
    BY <1>3, AddName DEF Fits
  <1>5. subscribers \subseteq Nodes
    <2>1. t.at \in Nodes /\ net.known[t.at] \subseteq Channels
      BY <1>3 DEF Fits, NamesInv, SubTypes, NetType
    <2>2. \A c \in Channels : computed[t.at][c] \subseteq Nodes
      BY <2>1 DEF NamesInv, SubTypes
    <2> QED BY <2>1, <2>2
  <1>6. ASSUME NEW m \in told PROVE Fits(Told(m))
    <2>1. m \in Nodes
      BY <1>5
    <2> HIDE DEF names, told
    <2>2. DOMAIN Told(m) = TaskFields /\ Told(m).kind = "queued" /\ Told(m).at = t.at
          /\ Told(m).to = m /\ Told(m).names = names
      BY <1>3 DEF Fits, TaskFields
    <2> QED BY <1>3, <1>4, <2>1, <2>2 DEF Fits
  <1>7. \A u \in new : Fits(u)
    <2> HIDE DEF told, Told
    <2> QED BY <1>6
  <1> HIDE DEF new
  <1> QED BY <1>2, <1>7 DEF NamesInv

\* Every step of a task.
LEMMA CarriesFits ==
    ASSUME NamesInv, NEW n \in Nodes, Carries(n)
    PROVE  NamesInv'
  <1>1. PICK t \in TaskSet :
          \/ Distribute(t) \/ TakePartner(t) \/ Delivered(t) \/ AnswerLost(t) \/ Unreachable(t)
          \/ FirstFailure(t) \/ LaterFailure(t) \/ RemoveSubscriber(t) \/ DropPartner(t)
    BY DEF Carries
  <1>2. Fits(t)
    BY DEF NamesInv
  <1>3. CASE Distribute(t)
    BY <1>3, DistributeFits DEF Distribute, NamesInv, SubTypes
  <1>4. CASE TakePartner(t)
    <2>1. Ends(t) \/ Becomes(t, [t EXCEPT !.kind = "calling", !.id = partner[t.at][t.to]])
      BY <1>4 DEF TakePartner
    <2>2. \A u \in TaskSet' : Fits(u)
      BY <2>1, EndsTasks, BecomesFits DEF NamesInv
    <2> QED BY <1>4, <2>2 DEF TakePartner, NamesInv, SubTypes
  <1>5. CASE Delivered(t)
    <2>1. TaskSet' \subseteq TaskSet \cup BagToSet(Received(t))
      BY <1>5, BagDomains DEF Delivered, TaskSet
    <2> QED BY <1>2, <1>5, <2>1, ReceivedFits DEF Delivered, NamesInv, SubTypes
  <1>6. CASE AnswerLost(t)
    <2>1. TaskSet' \subseteq TaskSet \cup {[t EXCEPT !.kind = "failed"]} \cup BagToSet(Received(t))
      BY <1>6, BagDomains DEF AnswerLost, TaskSet
    <2>2. Fits([t EXCEPT !.kind = "failed"])
      BY <1>2, NextStageFits
    <2> QED BY <1>2, <1>6, <2>1, <2>2, ReceivedFits DEF AnswerLost, NamesInv, SubTypes
  <1>7. CASE Unreachable(t)
    <2>1. \A u \in TaskSet' : Fits(u)
      BY <1>7, BecomesFits DEF Unreachable
    <2> QED BY <1>7, <2>1 DEF Unreachable, NamesInv, SubTypes
  <1>8. CASE FirstFailure(t) \/ LaterFailure(t) \/ DropPartner(t)
    <2>1. \A u \in TaskSet' : Fits(u)
      BY <1>8, EndsTasks DEF FirstFailure, LaterFailure, DropPartner, NamesInv
    <2> QED BY <1>8, <2>1 DEF FirstFailure, LaterFailure, DropPartner, NamesInv, SubTypes
  <1>9. CASE RemoveSubscriber(t)
    <2>1. \A u \in TaskSet' : Fits(u)
      <3>1. Becomes(t, [t EXCEPT !.kind = "removing", !.id = 0])
        BY <1>9 DEF RemoveSubscriber
      <3> QED BY <3>1, BecomesFits
    <2>2. SubTypes'
      BY <1>2, <1>9, UnsubscribeTypes DEF RemoveSubscriber, NamesInv, SubTypes, Fits
    <2> QED BY <2>1, <2>2 DEF NamesInv
  <1> QED BY <1>1, <1>3, <1>4, <1>5, <1>6, <1>7, <1>8, <1>9
-----------------------------------------------------------------------------
(* The network.                                                             *)

LEMMA PubInitInv == PubInit => NamesInv
  <1> SUFFICES ASSUME PubInit PROVE NamesInv
    OBVIOUS
  <1>1. net \in NetType
    BY NetAssumption DEF PubInit
  <1>2. TaskSet = {}
    BY BagDomains DEF PubInit, TaskSet
  <1> QED BY <1>1, <1>2 DEF PubInit, NamesInv, SubTypes, NoChannels

\* Calls of subscribe begin, are served and fail.
LEMMA SubscribesInv ==
    ASSUME NamesInv, NEW n \in Nodes, Start(n) \/ Subscribes(n) \/ Serves(n)
    PROVE  NamesInv'
  <1>1. CASE Start(n)
    <2>1. net.hub[n] # NoHub => net.hub[n] \in Nodes
      BY DEF NamesInv, SubTypes, NetType
    <2>2. net.hub[n] \in Nodes =>
            [from |-> n, to |-> net.hub[n], waiting |-> TRUE] \in [from : Nodes, to : Nodes, waiting : BOOLEAN]
      OBVIOUS
    <2>3. requests' \subseteq [from : Nodes, to : Nodes, waiting : BOOLEAN]
      BY <1>1, <2>1, <2>2 DEF Start, NamesInv, SubTypes
    <2> QED BY <1>1, <2>3 DEF Start, NamesInv, SubTypes, TaskSet
  <1>2. CASE Renew(n)
    <2>1. net.hub[n] \in Nodes
      BY <1>2 DEF Renew, NamesInv, SubTypes, NetType
    <2>2. [from |-> n, to |-> net.hub[n], waiting |-> TRUE] \in [from : Nodes, to : Nodes, waiting : BOOLEAN]
      BY <2>1
    <2>3. requests' \subseteq [from : Nodes, to : Nodes, waiting : BOOLEAN]
      BY <1>2, <2>2 DEF Renew, NamesInv, SubTypes
    <2> QED BY <1>2, <2>3 DEF Renew, NamesInv, SubTypes, TaskSet
  <1>3. CASE PublishTo(n)
    <2>1. net.pushes[n] \subseteq Nodes
      BY DEF NamesInv, SubTypes, NetType
    <2>2. /\ explicit' \in [Nodes -> [Channels -> SUBSET Nodes]]
          /\ computed' \in [Nodes -> [Channels -> SUBSET Nodes]]
          /\ tasks' = tasks
      <3>1. CASE net.pushes[n] = {}
        BY <1>3, <3>1 DEF PublishTo, NamesInv, SubTypes
      <3>2. CASE net.pushes[n] # {}
        <4>1. PICK m \in net.pushes[n] : Subscribe(n, m, net.origin[n], FALSE)
          BY <1>3, <3>2 DEF PublishTo
        <4> QED BY <2>1, <4>1, SubscribeTypes DEF NamesInv
      <3> QED BY <3>1, <3>2
    <2> QED BY <1>3, <2>2 DEF PublishTo, NamesInv, SubTypes, TaskSet
  <1>4. ASSUME NEW call \in requests, CallFails(call) PROVE NamesInv'
    <2>1. [call EXCEPT !.waiting = FALSE] \in [from : Nodes, to : Nodes, waiting : BOOLEAN]
      BY DEF NamesInv, SubTypes
    <2> QED BY <1>4, <2>1 DEF CallFails, NamesInv, SubTypes, TaskSet
  <1>5. ASSUME NEW call \in requests, ServeSubscribe(call) PROVE NamesInv'
    <2>1. call.to \in Nodes /\ call.from \in Nodes
      BY DEF NamesInv, SubTypes
    <2>2. /\ explicit' \in [Nodes -> [Channels -> SUBSET Nodes]]
          /\ computed' \in [Nodes -> [Channels -> SUBSET Nodes]]
          /\ tasks' = tasks
      BY <1>5, <2>1, SubscribeTypes DEF ServeSubscribe, NamesInv
    <2> QED BY <1>5, <2>2 DEF ServeSubscribe, NamesInv, SubTypes, TaskSet
  <1> QED BY <1>1, <1>2, <1>3, <1>4, <1>5 DEF Subscribes, Serves

\* An update begins with the name of its publisher.
LEMMA PublishInv == ASSUME NamesInv, NEW n \in Nodes, Publish(n) PROVE NamesInv'
  <1>1. PICK c \in net.origin[n] : tasks' = tasks (+) SetToBag({Update(n, <<n>>, {c})})
    BY DEF Publish
  <1>2. TaskSet' = TaskSet \cup {Update(n, <<n>>, {c})}
    BY <1>1, AddedTasks
  <1>3. Fits(Update(n, <<n>>, {c}))
    <2>1. <<n>> \in Seq(Nodes) /\ Len(<<n>>) = 1 /\ IsInjective(<<n>>)
      BY DEF IsInjective
    <2> QED BY <2>1 DEF Fits, TaskFields, Update
  <1> QED BY <1>2, <1>3 DEF Publish, NamesInv, SubTypes

\* A crash takes the tasks of one pubsub and leaves the others.
LEMMA CrashInv == ASSUME NamesInv, NEW n \in Nodes, Crash(n) PROVE NamesInv'
  <1>1. TaskSet' \subseteq TaskSet
    BY DEF Crash, TaskSet, BagToSet
  <1>2. requests' \subseteq [from : Nodes, to : Nodes, waiting : BOOLEAN]
    <2>1. \A call \in requests :
            [call EXCEPT !.waiting = @ /\ call.from # n] \in [from : Nodes, to : Nodes, waiting : BOOLEAN]
      BY DEF NamesInv, SubTypes
    <2> QED BY <2>1 DEF Crash
  <1>3. /\ explicit' \in [Nodes -> [Channels -> SUBSET Nodes]]
        /\ computed' \in [Nodes -> [Channels -> SUBSET Nodes]]
    BY DEF Crash, NamesInv, SubTypes, NoChannels
  <1> QED BY <1>1, <1>2, <1>3 DEF Crash, NamesInv, SubTypes

LEMMA NamesStep == NamesInv /\ [PubNext]_pubVars => NamesInv'
  <1> SUFFICES ASSUME NamesInv, [PubNext]_pubVars PROVE NamesInv'
    OBVIOUS
  <1>1. CASE UNCHANGED pubVars
    BY <1>1 DEF pubVars, NamesInv, SubTypes, TaskSet
  <1>2. CASE LimitPasses
    BY <1>2 DEF LimitPasses, NamesInv, SubTypes, TaskSet
  <1>3. ASSUME NEW n \in Nodes,
               Start(n) \/ Subscribes(n) \/ Serves(n) \/ Publish(n) \/ Carries(n) \/ Crash(n)
        PROVE  NamesInv'
    BY <1>3, SubscribesInv, PublishInv, CarriesFits, CrashInv
  <1> QED BY <1>1, <1>2, <1>3 DEF PubNext

\* What the invariant says of the names an update carries.
LEMMA NamesTell == NamesInv => NoCyclicUpdates
  BY DEF NamesInv, NoCyclicUpdates, Fits

\* On its path no copy of an update meets a pubsub twice (NoCyclicUpdates), in
\* every network: subscriptions round a circle, names that are addresses,
\* crashes (_subscriber_update, remote_update).  Nothing is said of two copies
\* on different paths: in a diamond of subscriptions both arrive.
THEOREM UpdatesDoNotCycle == PubSpec => []NoCyclicUpdates
  BY NamesTell, PubInitInv, NamesStep, PTL DEF PubSpec
-----------------------------------------------------------------------------
(* The records of the partners, and the types.                              *)

BootType == [Nodes -> {"down", "subscribing", "subscribed", "up"}]
PartnerType == [Nodes -> [Nodes -> Ids \cup {0}]]
RecordsType == [Ids -> BunchType]
BunchesType == [Nodes -> [Nodes -> RecordsType]]

\* Where each program is, and which record a task has taken.
BunchInv ==
    /\ boot \in BootType /\ partner \in PartnerType /\ bunch \in BunchesType
    /\ \A t \in TaskSet : t.id \in Ids \cup {0}

\* A new record is one.
LEMMA NewBunchType == NewBunch(TRUE) \in BunchType /\ \A unsub \in BOOLEAN : NewBunch(unsub) \in BunchType
  BY DEF NewBunch, BunchType

\* Records that are forgotten are as new ones.
LEMMA TidyTypes ==
    ASSUME bunch \in BunchesType, NEW n \in Nodes, NEW m \in Nodes, NEW records \in RecordsType,
           Tidy(n, m, records)
    PROVE  bunch' \in BunchesType
  <1>1. PICK kept : kept = [i \in Ids |-> IF InUse(n, m, i)' THEN records[i] ELSE NewBunch(TRUE)]
    OBVIOUS
  <1>2. kept \in RecordsType
    <2>1. ASSUME NEW i \in Ids PROVE kept[i] \in BunchType
      BY <1>1, NewBunchType DEF RecordsType
    <2> QED BY <1>1, <2>1 DEF RecordsType
  <1>3. bunch' = [bunch EXCEPT ![n][m] = kept]
    BY <1>1 DEF Tidy
  <1>4. [bunch[n] EXCEPT ![m] = kept] \in [Nodes -> RecordsType]
    BY <1>2 DEF BunchesType
  <1> QED BY <1>3, <1>4 DEF BunchesType

\* A record in which a failure is noted, or none, is one.
LEMMA FailedTypes ==
    ASSUME NEW records \in RecordsType, NEW i, NEW f \in {"no", "lately", "long ago"}
    PROVE  [records EXCEPT ![i].failed = f] \in RecordsType
  <1>1. ASSUME NEW j \in Ids PROVE [records[j] EXCEPT !.failed = f] \in BunchType
    BY DEF RecordsType, BunchType
  <1>2. \A j \in Ids : [records EXCEPT ![i].failed = f][j]
                          = IF j = i THEN [records[j] EXCEPT !.failed = f] ELSE records[j]
    BY DEF RecordsType
  <1>3. \A j \in Ids : [records EXCEPT ![i].failed = f][j] \in BunchType
    BY <1>1, <1>2 DEF RecordsType
  <1> QED BY <1>3 DEF RecordsType

\* A subscriber gets a record of its own.
LEMMA SubscribeRecords ==
    ASSUME BunchInv, NEW n \in Nodes, NEW m \in Nodes, NEW chans, NEW unsub \in BOOLEAN,
           Subscribe(n, m, chans, unsub)
    PROVE  partner' \in PartnerType /\ bunch' \in BunchesType
  <1>1. PICK id \in Ids : /\ partner' = [partner EXCEPT ![n][m] = id]
                          /\ Tidy(n, m, [bunch[n][m] EXCEPT ![id] = NewBunch(unsub)])
    <2>1. FreeIds(n, m) # {} /\ FreeIds(n, m) \subseteq Ids
      BY DEF Subscribe, FreeIds
    <2>2. (CHOOSE i \in FreeIds(n, m) : TRUE) \in Ids
      BY <2>1
    <2> QED BY <2>2 DEF Subscribe
  <1>2. partner' \in PartnerType
    <2>1. [partner[n] EXCEPT ![m] = id] \in [Nodes -> Ids \cup {0}]
      BY DEF BunchInv, PartnerType
    <2> QED BY <1>1, <2>1 DEF BunchInv, PartnerType
  <1>3. [bunch[n][m] EXCEPT ![id] = NewBunch(unsub)] \in RecordsType
    BY NewBunchType DEF BunchInv, BunchesType, RecordsType
  <1> QED BY <1>1, <1>2, <1>3, TidyTypes DEF BunchInv

\* Calls of subscribe, and the start of a program.
LEMMA SubscribesRecords ==
    ASSUME NamesInv, BunchInv, NEW n \in Nodes, Start(n) \/ Subscribes(n) \/ Serves(n)
    PROVE  BunchInv'
  <1>1. ASSUME NEW m PROVE CallOver(m) \in BootType
    BY DEF CallOver, BunchInv, BootType
  <1>2. CASE Start(n) \/ Renew(n)
    BY <1>2 DEF Start, Renew, BunchInv, BootType, TaskSet
  <1>3. CASE PublishTo(n)
    <2>1. net.pushes[n] \subseteq Nodes
      BY DEF NamesInv, SubTypes, NetType
    <2>2. partner' \in PartnerType /\ bunch' \in BunchesType /\ tasks' = tasks
      <3>1. CASE net.pushes[n] = {}
        BY <1>3, <3>1 DEF PublishTo, BunchInv
      <3>2. ASSUME NEW m \in net.pushes[n], Subscribe(n, m, net.origin[n], FALSE)
            PROVE  partner' \in PartnerType /\ bunch' \in BunchesType /\ tasks' = tasks
        BY <2>1, <3>2, SubscribeRecords DEF Subscribe
      <3> QED BY <1>3, <3>1, <3>2 DEF PublishTo
    <2> QED BY <1>3, <2>2 DEF PublishTo, BunchInv, BootType, TaskSet
  <1>4. ASSUME NEW call \in requests, CallFails(call) PROVE BunchInv'
    BY <1>1, <1>4 DEF CallFails, BunchInv, TaskSet
  <1>5. ASSUME NEW call \in requests, ServeSubscribe(call) PROVE BunchInv'
    <2>1. call.to \in Nodes /\ call.from \in Nodes
      BY DEF NamesInv, SubTypes
    <2>2. Subscribe(call.to, call.from, net.wants[call.from], TRUE)
      BY <1>5 DEF ServeSubscribe
    <2>3. partner' \in PartnerType /\ bunch' \in BunchesType /\ tasks' = tasks
      BY <2>1, <2>2, SubscribeRecords DEF Subscribe
    <2>4. boot' \in BootType
      BY <1>1, <1>5 DEF ServeSubscribe, BunchInv
    <2> QED BY <2>3, <2>4 DEF BunchInv, TaskSet
  <1> QED BY <1>2, <1>3, <1>4, <1>5 DEF Subscribes, Serves

\* What remote_update makes has taken no record.
LEMMA ReceivedRecords == ASSUME NEW t, NEW u \in BagToSet(Received(t)) PROVE u.id = 0
  <1>1. u = Update(t.to, t.names, t.chans)
    BY BagDomains DEF Received
  <1> QED BY <1>1 DEF Update

\* Every step of a task.
LEMMA CarriesRecords ==
    ASSUME NamesInv, BunchInv, NEW n \in Nodes, Carries(n)
    PROVE  BunchInv'
  <1>1. PICK t \in TaskSet :
          \/ Distribute(t) \/ TakePartner(t) \/ Delivered(t) \/ AnswerLost(t) \/ Unreachable(t)
          \/ FirstFailure(t) \/ LaterFailure(t) \/ RemoveSubscriber(t) \/ DropPartner(t)
    BY DEF Carries
  <1>2. /\ t.at \in Nodes /\ t.to \in Nodes /\ t.id \in Ids \cup {0} /\ DOMAIN t = TaskFields
        /\ bunch[t.at][t.to] \in RecordsType
    BY DEF NamesInv, Fits, BunchInv, BunchesType
  <1>3. boot' = boot
    BY <1>1 DEF Distribute, TakePartner, Delivered, AnswerLost, Unreachable, FirstFailure,
                LaterFailure, RemoveSubscriber, DropPartner
  <1>4. ASSUME TaskSet' \subseteq TaskSet, UNCHANGED partner, bunch' \in BunchesType
        PROVE  BunchInv'
    BY <1>3, <1>4 DEF BunchInv
  <1>5. CASE Distribute(t)
    <2> DEFINE names == IF t.at \in Range(t.names) THEN t.names ELSE Append(t.names, t.at)
               subscribers == UNION {computed[t.at][c] : c \in t.chans \cap net.known[t.at]}
               new == {[t EXCEPT !.kind = "queued", !.to = m, !.names = names,
                                 !.chans = AllChannels(t.at, t.chans)]
                         : m \in {m \in subscribers : ~IsOriginator(m, t)}}
    <2>1. tasks' = (tasks (-) SetToBag({t})) (+) SetToBag(new)
      BY <1>5 DEF Distribute
    <2>2. \A u \in new : u.id = t.id
      BY <1>2 DEF TaskFields
    <2> HIDE DEF new
    <2>3. TaskSet' \subseteq TaskSet \cup new
      BY <2>1, IntoTasks
    <2>4. UNCHANGED <<partner, bunch>>
      BY <1>5 DEF Distribute
    <2> QED BY <1>2, <1>3, <2>2, <2>3, <2>4 DEF BunchInv
  <1>6. CASE TakePartner(t)
    <2>1. UNCHANGED <<partner, bunch>>
      BY <1>6 DEF TakePartner
    <2>2. CASE Ends(t)
      BY <1>4, <2>1, <2>2, EndsTasks DEF BunchInv
    <2>3. ASSUME NEW u, Becomes(t, u), u = [t EXCEPT !.kind = "calling", !.id = partner[t.at][t.to]]
          PROVE  BunchInv'
      <3>1. u.id = partner[t.at][t.to]
        BY <1>2, <2>3 DEF TaskFields
      <3>2. u.id \in Ids \cup {0}
        BY <1>2, <3>1 DEF BunchInv, PartnerType
      <3>3. TaskSet' \subseteq TaskSet \cup {u}
        BY <2>3, BecomesTasks
      <3> QED BY <1>3, <2>1, <3>2, <3>3 DEF BunchInv
    <2> QED BY <1>6, <2>2, <2>3 DEF TakePartner
  <1>7. CASE Delivered(t)
    <2>1. TaskSet' \subseteq TaskSet \cup BagToSet(Received(t))
      BY <1>7, BagDomains DEF Delivered, TaskSet
    <2>2. Tidy(t.at, t.to, [bunch[t.at][t.to] EXCEPT ![t.id].failed = "no"]) /\ UNCHANGED partner
      BY <1>7 DEF Delivered
    <2>3. bunch' \in BunchesType
      BY <1>2, <2>2, FailedTypes, TidyTypes DEF BunchInv
    <2> QED BY <1>3, <2>1, <2>2, <2>3, ReceivedRecords DEF BunchInv
  <1>8. CASE AnswerLost(t) \/ Unreachable(t)
    <2>1. PICK u : u = [t EXCEPT !.kind = "failed"]
      OBVIOUS
    <2>2. u.id = t.id
      BY <1>2, <2>1 DEF TaskFields
    <2>3. CASE AnswerLost(t)
      <3>1. TaskSet' \subseteq TaskSet \cup {u} \cup BagToSet(Received(t))
        BY <2>1, <2>3, BagDomains DEF AnswerLost, TaskSet
      <3>2. UNCHANGED <<partner, bunch>>
        BY <2>3 DEF AnswerLost
      <3> QED BY <1>2, <1>3, <2>2, <3>1, <3>2, ReceivedRecords DEF BunchInv
    <2>4. CASE Unreachable(t)
      <3>1. TaskSet' \subseteq TaskSet \cup {u} /\ UNCHANGED <<partner, bunch>>
        BY <2>1, <2>4, BecomesTasks DEF Unreachable
      <3> QED BY <1>2, <1>3, <2>2, <3>1 DEF BunchInv
    <2> QED BY <1>8, <2>3, <2>4
  <1>9. CASE FirstFailure(t) \/ LaterFailure(t)
    <2>1. PICK records \in RecordsType : Tidy(t.at, t.to, records)
      BY <1>2, <1>9, FailedTypes DEF FirstFailure, LaterFailure
    <2>2. TaskSet' \subseteq TaskSet /\ UNCHANGED partner
      BY <1>9, EndsTasks DEF FirstFailure, LaterFailure
    <2> QED BY <1>2, <1>4, <2>1, <2>2, TidyTypes DEF BunchInv
  <1>10. CASE RemoveSubscriber(t)
    <2>1. PICK u : u = [t EXCEPT !.kind = "removing", !.id = 0]
      OBVIOUS
    <2>2. u.id = 0
      BY <1>2, <2>1 DEF TaskFields
    <2>3. Becomes(t, u) /\ Tidy(t.at, t.to, bunch[t.at][t.to]) /\ UNCHANGED partner
      BY <1>10, <2>1 DEF RemoveSubscriber
    <2>4. TaskSet' \subseteq TaskSet \cup {u}
      BY <2>3, BecomesTasks
    <2>5. bunch' \in BunchesType
      BY <1>2, <2>3, TidyTypes DEF BunchInv
    <2> QED BY <1>3, <2>2, <2>3, <2>4, <2>5 DEF BunchInv
  <1>11. CASE DropPartner(t)
    <2>1. /\ Ends(t) /\ Tidy(t.at, t.to, bunch[t.at][t.to])
          /\ partner' = [partner EXCEPT ![t.at][t.to] = 0]
      BY <1>11 DEF DropPartner
    <2>2. [partner[t.at] EXCEPT ![t.to] = 0] \in [Nodes -> Ids \cup {0}]
      BY <1>2 DEF BunchInv, PartnerType
    <2>3. partner' \in PartnerType
      BY <1>2, <2>1, <2>2 DEF BunchInv, PartnerType
    <2>4. bunch' \in BunchesType
      BY <1>2, <2>1, TidyTypes DEF BunchInv
    <2>5. TaskSet' \subseteq TaskSet
      BY <2>1, EndsTasks
    <2> QED BY <1>3, <2>3, <2>4, <2>5 DEF BunchInv
  <1> QED BY <1>1, <1>5, <1>6, <1>7, <1>8, <1>9, <1>10, <1>11

\* What no task does.
LEMMA OthersRecords ==
    ASSUME NamesInv, BunchInv, NEW n \in Nodes, Publish(n) \/ Crash(n) \/ LimitPasses \/ UNCHANGED pubVars
    PROVE  BunchInv'
  <1>1. CASE Publish(n)
    <2>1. PICK c \in net.origin[n] : tasks' = tasks (+) SetToBag({Update(n, <<n>>, {c})})
      BY <1>1 DEF Publish
    <2>2. TaskSet' = TaskSet \cup {Update(n, <<n>>, {c})}
      BY <2>1, AddedTasks
    <2>3. Update(n, <<n>>, {c}).id = 0
      BY DEF Update
    <2> QED BY <1>1, <2>2, <2>3 DEF Publish, BunchInv
  <1>2. CASE Crash(n)
    <2>1. TaskSet' \subseteq TaskSet
      BY <1>2 DEF Crash, TaskSet, BagToSet
    <2>2. boot' \in BootType
      BY <1>2 DEF Crash, CallOver, BunchInv, BootType
    <2>3. NoPartners \in [Nodes -> Ids \cup {0}] /\ NoBunches \in [Nodes -> RecordsType]
      BY NewBunchType DEF NoPartners, NoBunches, RecordsType
    <2>4. partner' \in PartnerType /\ bunch' \in BunchesType
      BY <1>2, <2>3 DEF Crash, BunchInv, PartnerType, BunchesType
    <2> QED BY <2>1, <2>2, <2>4 DEF BunchInv
  <1>3. CASE LimitPasses
    <2>1. PICK k, m \in Nodes, i \in Ids : bunch' = [bunch EXCEPT ![k][m][i].failed = "long ago"]
      BY <1>3 DEF LimitPasses
    <2>2. PICK records \in RecordsType : records = bunch[k][m]
      BY DEF BunchInv, BunchesType
    <2>3. [bunch[k] EXCEPT ![m] = [records EXCEPT ![i].failed = "long ago"]] \in [Nodes -> RecordsType]
      BY <2>2, FailedTypes DEF BunchInv, BunchesType
    <2>4. bunch' = [bunch EXCEPT ![k] = [bunch[k] EXCEPT ![m] = [records EXCEPT ![i].failed = "long ago"]]]
      BY <2>1, <2>2 DEF BunchInv, BunchesType
    <2>5. bunch' \in BunchesType
      BY <2>3, <2>4 DEF BunchInv, BunchesType
    <2> QED BY <1>3, <2>5 DEF LimitPasses, BunchInv, TaskSet
  <1>4. CASE UNCHANGED pubVars
    BY <1>4 DEF pubVars, BunchInv, TaskSet
  <1> QED BY <1>1, <1>2, <1>3, <1>4

\* The first state.
LEMMA RecordsInit == PubInit => BunchInv
  <1> SUFFICES ASSUME PubInit PROVE BunchInv
    OBVIOUS
  <1>1. TaskSet = {}
    BY BagDomains DEF PubInit, TaskSet
  <1>2. NoPartners \in [Nodes -> Ids \cup {0}] /\ NoBunches \in [Nodes -> RecordsType]
    BY NewBunchType DEF NoPartners, NoBunches, RecordsType
  <1> QED BY <1>1, <1>2 DEF PubInit, BunchInv, BootType, PartnerType, BunchesType

\* Every step.
LEMMA RecordsStep == NamesInv /\ BunchInv /\ [PubNext]_pubVars => BunchInv'
  <1> SUFFICES ASSUME NamesInv, BunchInv, [PubNext]_pubVars PROVE BunchInv'
    OBVIOUS
  <1>1. CASE \E n \in Nodes : Start(n) \/ Subscribes(n) \/ Serves(n) \/ Publish(n) \/ Carries(n) \/ Crash(n)
    BY <1>1, SubscribesRecords, CarriesRecords, OthersRecords
  <1>2. CASE LimitPasses
    <2>1. PICK n \in Nodes : TRUE
      BY <1>2 DEF LimitPasses
    <2> QED BY <1>2, <2>1, OthersRecords
  <1>3. CASE UNCHANGED pubVars
    BY <1>3 DEF pubVars, BunchInv, TaskSet
  <1> QED BY <1>1, <1>2, <1>3 DEF PubNext

\* What the invariants say of the types.
LEMMA RecordsTell == NamesInv /\ BunchInv => PubTypeOK
  BY DEF NamesInv, SubTypes, Fits, BunchInv, PubTypeOK, BootType, PartnerType, BunchesType, RecordsType

\* Every state of the network is well typed: whoever is subscribed or calls is
\* a pubsub, a task has taken a record there is, for every network and every
\* number of updates.
THEOREM PubTypeCorrect == PubSpec => []PubTypeOK
  BY RecordsTell, PubInitInv, NamesStep, RecordsInit, RecordsStep, PTL DEF PubSpec
-----------------------------------------------------------------------------
(* Images in shared memory (scexao_shm.py).                                *)

USE DEF imageVars, writerVars, readerVars, serverVars

(* Writers whose set_data call has begun and has not been counted.         *)
Owed == {w \in Writers : wst[w] \in {"store", "count"}}

(* The counter owes an increment to each of them; an increment can be lost *)
(* but none is made twice, because what a writer has read of the counter   *)
(* also leaves room for all that are owed.                                 *)
CountInv == /\ \A w \in Writers : wtodo[w] # {} => wst[w] = "store"
            /\ cnt0 + Cardinality(Owed) <= writes
            /\ \A w \in Writers :
                 wst[w] = "count" => wcnt[w] + Cardinality(Owed) <= writes

-----------------------------------------------------------------------------
(* The images, the counter and what each process holds of them stay of     *)
(* their types in every step of set_data.                                  *)
LEMMA WriterKeepsTypes ==
  ASSUME ShmTypeOK, NEW w \in Writers, WriterStep(w)
  PROVE  ShmTypeOK'
<1> USE DEF ShmTypeOK
<1>1. CASE SetData(w)
  BY <1>1, ShmAssumption DEF SetData, WriterStep
<1>2. ASSUME NEW p \in Pixels, StorePixel(w, p)
      PROVE  ShmTypeOK'
  BY <1>2 DEF StorePixel, WriterStep
<1>3. CASE GetCounter(w)
  BY <1>3 DEF GetCounter, WriterStep
<1>4. CASE StoreCounter(w)
  BY <1>4 DEF StoreCounter, WriterStep
<1>5. CASE ImSemPost(w)
  BY <1>5 DEF ImSemPost, WriterStep
<1> QED  BY <1>1, <1>2, <1>3, <1>4, <1>5 DEF WriterStep

(* The same for every step of get_data.                                    *)
LEMMA ReaderKeepsTypes ==
  ASSUME ShmTypeOK, NEW r \in Readers, ReaderStep(r)
  PROVE  ShmTypeOK'
<1> USE DEF ShmTypeOK
<1>1. CASE GetNow(r)
  BY <1>1 DEF GetNow, StartRead, ReaderStep
<1>2. CASE GetChecked(r)
  BY <1>2 DEF GetChecked, ReaderStep
<1>3. CASE Updated(r)
  BY <1>3 DEF Updated, StartRead, ReaderStep
<1>4. CASE Timeout(r)
  BY <1>4 DEF Timeout, StartRead, ReaderStep
<1>5. ASSUME NEW p \in Pixels, ReadPixel(r, p)
      PROVE  ShmTypeOK'
  BY <1>5 DEF ReadPixel, ReaderStep
<1>6. CASE GetDataReturns(r)
  BY <1>6 DEF GetDataReturns, ReaderStep
<1> QED  BY <1>1, <1>2, <1>3, <1>4, <1>5, <1>6 DEF ReaderStep

(* The same for the server that waits on the semaphores.                   *)
LEMMA ServerKeepsTypes ==
  ASSUME ShmTypeOK, ServerStep
  PROVE  ShmTypeOK'
<1> USE DEF ShmTypeOK
<1>1. CASE ServerWakes
  BY <1>1 DEF ServerWakes, ServerStep
<1>2. ASSUME NEW p \in Pixels, ServerReads(p)
      PROVE  ShmTypeOK'
  BY <1>2 DEF ServerReads, ServerStep
<1>3. CASE ServerWaits
  BY <1>3 DEF ServerWaits, ServerStep
<1> QED  BY <1>1, <1>2, <1>3 DEF ServerStep

(* An image that nobody has written is well typed.                         *)
LEMMA ShmInitTypes == ShmInit => ShmTypeOK
BY ShmAssumption DEF ShmInit, ShmTypeOK, ZeroImage

(* So is what any step leaves.                                             *)
LEMMA ShmStepTypes == ShmTypeOK /\ [ShmNext]_shmVars => ShmTypeOK'
<1> SUFFICES ASSUME ShmTypeOK, [ShmNext]_shmVars PROVE ShmTypeOK'
  OBVIOUS
<1>1. CASE UNCHANGED shmVars
  BY <1>1 DEF ShmTypeOK, shmVars
<1> QED
  BY <1>1, WriterKeepsTypes, ReaderKeepsTypes, ServerKeepsTypes DEF ShmNext

(* Every state of the image and of the processes using it is well typed.   *)
THEOREM ShmTypeCorrect == ShmSpec => []ShmTypeOK
BY ShmInitTypes, ShmStepTypes, PTL DEF ShmSpec

-----------------------------------------------------------------------------
(* The writers that are owed an increment are finitely many.               *)
LEMMA OwedFinite == IsFiniteSet(Owed) /\ Cardinality(Owed) \in Nat
BY ShmAssumption, FS_Subset, FS_CardinalityType DEF Owed

(* A step of set_data keeps the account of the counter: a call that begins *)
(* is owed one increment more, a call that stores the counter one less.    *)
LEMMA WriterKeepsCount ==
  ASSUME ShmTypeOK, CountInv, NEW w \in Writers, WriterStep(w)
  PROVE  CountInv'
<1> USE DEF ShmTypeOK, CountInv
<1>0. IsFiniteSet(Owed) /\ Cardinality(Owed) \in Nat
  BY OwedFinite
<1>1. CASE SetData(w)
  <2>1. w \notin Owed /\ Owed' = Owed \cup {w}
    BY <1>1 DEF SetData, Owed
  <2>2. Cardinality(Owed') = Cardinality(Owed) + 1
    BY <2>1, <1>0, FS_AddElement
  <2> QED  BY <1>0, <1>1, <2>2 DEF SetData
<1>2. ASSUME NEW p \in Pixels, StorePixel(w, p)
      PROVE  CountInv'
  BY <1>2 DEF StorePixel, Owed
<1>3. CASE GetCounter(w)
  <2>1. Owed' = Owed
    BY <1>3 DEF GetCounter, Owed
  <2> QED  BY <1>3, <2>1 DEF GetCounter
<1>4. CASE StoreCounter(w)
  <2>1. w \in Owed /\ Owed' = Owed \ {w}
    BY <1>4 DEF StoreCounter, Owed
  <2>2. Cardinality(Owed') = Cardinality(Owed) - 1
    BY <2>1, <1>0, FS_RemoveElement
  <2> QED  BY <1>0, <1>4, <2>2 DEF StoreCounter
<1>5. CASE ImSemPost(w)
  <2>1. Owed' = Owed
    BY <1>5 DEF ImSemPost, Owed
  <2> QED  BY <1>5, <2>1 DEF ImSemPost
<1> QED  BY <1>1, <1>2, <1>3, <1>4, <1>5 DEF WriterStep

(* Nothing else touches the account.                                       *)
LEMMA OthersKeepCount ==
  ASSUME CountInv, UNCHANGED <<cnt0, writes, wst, wtodo, wcnt>>
  PROVE  CountInv'
BY DEF CountInv, Owed

(* Nothing is owed at first.                                              *)
LEMMA CountInit == ShmInit => CountInv
<1> SUFFICES ASSUME ShmInit PROVE CountInv
  OBVIOUS
<1>1. Owed = {}
  BY DEF ShmInit, Owed
<1> QED  BY <1>1, FS_EmptySet DEF ShmInit, CountInv

(* Every step.                                                             *)
LEMMA CountStep == ShmTypeOK /\ CountInv /\ [ShmNext]_shmVars => CountInv'
<1> SUFFICES ASSUME ShmTypeOK, CountInv, [ShmNext]_shmVars PROVE CountInv'
  OBVIOUS
<1>1. CASE \E w \in Writers : WriterStep(w)
  BY <1>1, WriterKeepsCount
<1>2. CASE \E r \in Readers : ReaderStep(r)
  BY <1>2, OthersKeepCount
     DEF ReaderStep
<1>3. CASE ServerStep
  <2>1. UNCHANGED <<cnt0, writes, wst, wtodo, wcnt>>
    BY <1>3 DEF ServerStep, ServerWakes, ServerReads, ServerWaits
  <2> QED  BY <2>1, OthersKeepCount
<1>4. CASE UNCHANGED shmVars
  BY <1>4, OthersKeepCount DEF shmVars
<1> QED  BY <1>1, <1>2, <1>3, <1>4 DEF ShmNext

(* What the account says of the calls that still store.                    *)
LEMMA NeverAhead == ShmTypeOK /\ CountInv => CounterNeverAhead
<1> SUFFICES ASSUME ShmTypeOK, CountInv PROVE CounterNeverAhead
  OBVIOUS
<1> DEFINE Storing == {w \in Writers : wtodo[w] # {}}
<1>1. Storing \subseteq Owed
  BY DEF CountInv, Owed
<1>2. Cardinality(Storing) <= Cardinality(Owed) /\ Cardinality(Storing) \in Nat
  BY <1>1, OwedFinite, FS_Subset, FS_CardinalityType
<1> HIDE DEF Storing
<1>3. cnt0 + Cardinality(Storing) <= writes
  BY <1>2, OwedFinite DEF CountInv, ShmTypeOK
<1> QED  BY <1>3 DEF CounterNeverAhead, Storing

(* The counter of an image is never ahead of its data, whatever calls of   *)
(* set_data overlap and however many increments they lose.                 *)
THEOREM CounterIsNeverAhead == ShmSpec => []CounterNeverAhead
BY CountInit, CountStep, NeverAhead, ShmTypeCorrect, PTL DEF ShmSpec
=============================================================================
