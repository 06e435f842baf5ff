-------------------------------- MODULE PubSub --------------------------------
(***************************************************************************)
(* Publish and subscribe (PubSub.py): the programs of Gen2 as a network of *)
(* pubsubs.  A pubsub subscribes itself to another one by a remote call    *)
(* that it repeats for ever, and it may push its own channels to another   *)
(* one by itself (publish_to).  An update is carried from pubsub to pubsub *)
(* by tasks of their thread pools; a subscriber that does not answer is    *)
(* dropped.  Each step is one section of the code under the lock of the    *)
(* pubsub, one remote call, or the start or the end of a task.             *)
(***************************************************************************)
EXTENDS Naturals, Sequences, Bags, Functions

CONSTANTS Nodes,       \* the pubsubs
          Channels,
          Nets,        \* networks to look at, see NetType
          MaxTasks,    \* bound: no update is published while so many tasks exist
          MaxBunches   \* bound: partner records of one subscriber in use at a time

NoHub == "no hub"

\* hub: whom a pubsub subscribes to, with channels wants; pushes: whom it
\* publishes its channels of origin to; known: its channels; aggs: the channels
\* of its aggregates; aliased: those that subscribe by an address that is not
\* their name; crashes and losses: bounds on crashes and on lost answers.
NetType == [hub : [Nodes -> Nodes \cup {NoHub}], wants : [Nodes -> SUBSET Channels],
            pushes : [Nodes -> SUBSET Nodes], origin : [Nodes -> SUBSET Channels],
            known : [Nodes -> SUBSET Channels], aliased : SUBSET Nodes,
            aggs : [Nodes -> [Channels -> SUBSET Channels]], crashes : Nat, losses : Nat]

ASSUME NetAssumption == Nets \subseteq NetType /\ MaxTasks \in Nat \ {0} /\ MaxBunches > MaxTasks

VARIABLES net,
          boot,       \* "down", "subscribing" with its lock held, "subscribed", "up"
          explicit,   \* subscribers of each channel
          computed,   \* computed_subscribers of each channel
          partner,    \* _partner: the number of a subscriber's record, 0 if none
          bunch,      \* the records
          tasks,      \* the bag of tasks in the thread pools
          requests,      \* calls of subscribe under way
          crashes, losses

pubVars == <<net, boot, explicit, computed, partner, bunch, tasks, requests, crashes, losses>>

Ids == 1..MaxBunches
NewBunch(unsub) == [failed |-> "no", unsub |-> unsub]
NoChannels == [c \in Channels |-> {}]
NoPartners == [m \in Nodes |-> 0]
NoBunches == [m \in Nodes |-> [i \in Ids |-> NewBunch(TRUE)]]

Update(n, names, chans) == [kind |-> "update", at |-> n, to |-> n, names |-> names, chans |-> chans, id |-> 0]
TaskSet == BagToSet(tasks)
Ends(t) == tasks' = tasks (-) SetToBag({t})
Becomes(t, u) == tasks' = (tasks (-) SetToBag({t})) (+) SetToBag({u})

PubInit ==
    /\ net \in Nets /\ boot = [n \in Nodes |-> "down"]
    /\ explicit = [n \in Nodes |-> NoChannels] /\ computed = explicit
    /\ partner = [n \in Nodes |-> NoPartners] /\ bunch = [n \in Nodes |-> NoBunches]
    /\ tasks = EmptyBag /\ requests = {} /\ crashes = 0 /\ losses = 0

\* The thread that subscribes a pubsub holds its lock during the remote call.
Unlocked(n) == boot[n] \in {"subscribed", "up"}
Reachable(n) == boot[n] # "down"
-----------------------------------------------------------------------------
(* Who is told of an update.                                                *)

\* All that an aggregate stands for, through the aggregates among it.
Constituents(n, agg) ==
    LET within[k \in Nat] ==
            IF k = 0 THEN net.aggs[n][agg]
            ELSE within[k - 1] \cup UNION {net.aggs[n][c] : c \in within[k - 1]}
    IN within[2]

\* A channel's own subscribers and those of its aggregates, but never itself.
ComputeSubscribers(n, ex) ==
    [c \in Channels |->
        (ex[c] \cup UNION {ex[a] : a \in {a \in Channels : c \in Constituents(n, a)}}) \ {n}]

AllChannels(n, chans) ==
    LET here == chans \cap net.known[n] IN
    here \cup {a \in net.known[n] : here \cap Constituents(n, a) # {}}

Resubscribe(n, ex) ==
    /\ explicit' = [explicit EXCEPT ![n] = ex]
    /\ computed' = [computed EXCEPT ![n] = ComputeSubscribers(n, ex)]

\* A record is forgotten when it is no partner's and no task has taken it.
InUse(n, m, i) == i = partner[n][m] \/ \E t \in TaskSet : t.at = n /\ t.to = m /\ t.id = i
Tidy(n, m, records) ==
    bunch' = [bunch EXCEPT ![n][m] =
                [i \in Ids |-> IF InUse(n, m, i)' THEN records[i] ELSE NewBunch(TRUE)]]

\* Each subscription gives the subscriber a new record; a task that has taken
\* the old one keeps it.
FreeIds(n, m) == {i \in Ids : ~InUse(n, m, i)}
Subscribe(n, m, chans, unsub) ==
    LET id == CHOOSE i \in FreeIds(n, m) : TRUE IN
    /\ FreeIds(n, m) # {}      \* bound MaxBunches
    /\ partner' = [partner EXCEPT ![n][m] = id]
    /\ tasks' = tasks
    /\ Tidy(n, m, [bunch[n][m] EXCEPT ![id] = NewBunch(unsub)])
    /\ Resubscribe(n, [c \in Channels |-> explicit[n][c] \cup (IF c \in chans THEN {m} ELSE {})])

Unsubscribe(n, m) == Resubscribe(n, [c \in Channels |-> explicit[n][c] \ {m}])
-----------------------------------------------------------------------------
(* Subscriptions.                                                           *)

\* A program starts; subscribe_remote holds the lock until the call returns.
Start(n) ==
    /\ boot[n] = "down" /\ net.known[n] # {}
    /\ IF net.hub[n] = NoHub THEN boot' = [boot EXCEPT ![n] = "subscribed"] /\ UNCHANGED requests
       ELSE /\ boot' = [boot EXCEPT ![n] = "subscribing"]
            /\ requests' = requests \cup {[from |-> n, to |-> net.hub[n], waiting |-> TRUE]}
    /\ UNCHANGED <<net, explicit, computed, partner, bunch, tasks, crashes, losses>>

CallOver(n) == IF boot[n] = "subscribing" THEN [boot EXCEPT ![n] = "subscribed"] ELSE boot

\* Mutant: the lock of the subscriber is kept after a failed call.
CallFails_KeepsLock(call) ==
    /\ call.waiting
    /\ boot' = boot
    /\ requests' = (requests \ {call}) \cup
                (IF Reachable(call.to) THEN {[call EXCEPT !.waiting = FALSE]} ELSE {})
    /\ UNCHANGED <<net, explicit, computed, partner, bunch, tasks, crashes, losses>>

\* The call is refused, or has lasted longer than remote_timeout and is
\* carried out later.
CallFails(call) ==
    /\ call.waiting
    /\ boot' = CallOver(call.from)
    /\ requests' = (requests \ {call}) \cup
                (IF Reachable(call.to) THEN {[call EXCEPT !.waiting = FALSE]} ELSE {})
    /\ UNCHANGED <<net, explicit, computed, partner, bunch, tasks, crashes, losses>>

ServeSubscribe(call) ==
    /\ Unlocked(call.to)
    /\ Subscribe(call.to, call.from, net.wants[call.from], TRUE)
    /\ requests' = requests \ {call}
    /\ boot' = IF call.waiting THEN CallOver(call.from) ELSE boot
    /\ UNCHANGED <<net, crashes, losses>>

\* publish_to: the other one is subscribed here, never to be removed.
PublishTo(n) ==
    /\ boot[n] = "subscribed"
    /\ boot' = [boot EXCEPT ![n] = "up"]
    /\ IF net.pushes[n] = {} THEN UNCHANGED <<explicit, computed, partner, bunch, tasks>>
       ELSE \E m \in net.pushes[n] : Subscribe(n, m, net.origin[n], FALSE)
    /\ UNCHANGED <<net, requests, crashes, losses>>

\* update_remote_subscriptions_loop repeats the call every update_interval.
Renew(n) ==
    /\ boot[n] = "up" /\ net.hub[n] # NoHub
    /\ ~\E call \in requests : call.from = n /\ call.waiting
    /\ requests' = requests \cup {[from |-> n, to |-> net.hub[n], waiting |-> TRUE]}
    /\ UNCHANGED <<net, boot, explicit, computed, partner, bunch, tasks, crashes, losses>>

\* What the threads of a program that do not serve updates do.
Subscribes(n) ==
    PublishTo(n) \/ Renew(n) \/ \E call \in requests : call.from = n /\ CallFails(call)
Serves(n) == \E call \in requests : call.from = n /\ ServeSubscribe(call)
-----------------------------------------------------------------------------
(* Updates.                                                                 *)

Publish(n) ==
    /\ boot[n] = "up" /\ BagCardinality(tasks) < MaxTasks
    /\ \E c \in net.origin[n] : tasks' = tasks (+) SetToBag({Update(n, <<n>>, {c})})
    /\ UNCHANGED <<net, boot, explicit, computed, partner, bunch, requests, crashes, losses>>

\* A subscriber is known by its address, an originator by its name.
IsOriginator(m, t) == m \in Range(t.names) \ net.aliased

\* _subscriber_update: one task for each subscriber.
Distribute(t) ==
    /\ t.kind = "update" /\ Unlocked(t.at)
    /\ LET names == IF t.at \in Range(t.names) THEN t.names ELSE Append(t.names, t.at)
           subscribers == UNION {computed[t.at][c] : c \in t.chans \cap net.known[t.at]}
           told == {m \in subscribers : ~IsOriginator(m, t)}
       IN tasks' = (tasks (-) SetToBag({t})) (+)
                   SetToBag({[t EXCEPT !.kind = "queued", !.to = m, !.names = names,
                                       !.chans = AllChannels(t.at, t.chans)] : m \in told})
    /\ UNCHANGED <<net, boot, explicit, computed, partner, bunch, requests, crashes, losses>>

\* _individual_update takes the record; without one it ends by an exception.
TakePartner(t) ==
    /\ t.kind = "queued"
    /\ IF partner[t.at][t.to] = 0 THEN Ends(t)
       ELSE Becomes(t, [t EXCEPT !.kind = "calling", !.id = partner[t.at][t.to]])
    /\ UNCHANGED <<net, boot, explicit, computed, partner, bunch, requests, crashes, losses>>

\* Mutant: an update that has been here is accepted.
Received_Always(t) == SetToBag({Update(t.to, t.names, t.chans)})

\* remote_update: the task it makes, none for an update that has been here.
Received(t) ==
    IF t.to \in Range(t.names) THEN EmptyBag ELSE SetToBag({Update(t.to, t.names, t.chans)})

Delivered(t) ==
    /\ t.kind = "calling" /\ Reachable(t.to)
    /\ tasks' = (tasks (-) SetToBag({t})) (+) Received(t)
    /\ UNCHANGED <<net, boot, explicit, computed, partner, requests, crashes, losses>>
    /\ Tidy(t.at, t.to, [bunch[t.at][t.to] EXCEPT ![t.id].failed = "no"])

\* The update arrives, its answer does not.
AnswerLost(t) ==
    /\ t.kind = "calling" /\ Reachable(t.to) /\ losses < net.losses
    /\ losses' = losses + 1
    /\ tasks' = (tasks (-) SetToBag({t})) (+) SetToBag({[t EXCEPT !.kind = "failed"]}) (+) Received(t)
    /\ UNCHANGED <<net, boot, explicit, computed, partner, bunch, requests, crashes>>

Unreachable(t) ==
    /\ t.kind = "calling" /\ ~Reachable(t.to)
    /\ Becomes(t, [t EXCEPT !.kind = "failed"])
    /\ UNCHANGED <<net, boot, explicit, computed, partner, bunch, requests, crashes, losses>>

\* Mutant: the time of the first failure is overwritten by each failure.
FirstFailure_Each(t) ==
    /\ t.kind = "failed" /\ bunch[t.at][t.to][t.id].failed \in {"no", "lately", "long ago"}
    /\ Ends(t)
    /\ UNCHANGED <<net, boot, explicit, computed, partner, requests, crashes, losses>>
    /\ Tidy(t.at, t.to, [bunch[t.at][t.to] EXCEPT ![t.id].failed = "lately"])

FirstFailure(t) ==
    /\ t.kind = "failed" /\ bunch[t.at][t.to][t.id].failed = "no"
    /\ Ends(t)
    /\ UNCHANGED <<net, boot, explicit, computed, partner, requests, crashes, losses>>
    /\ Tidy(t.at, t.to, [bunch[t.at][t.to] EXCEPT ![t.id].failed = "lately"])

\* Within failure_limit of the first failure, or of one never to be removed.
LaterFailure(t) ==
    /\ t.kind = "failed"
    /\ LET b == bunch[t.at][t.to][t.id] IN b.failed = "lately" \/ (b.failed = "long ago" /\ ~b.unsub)
    /\ Ends(t)
    /\ UNCHANGED <<net, boot, explicit, computed, partner, requests, crashes, losses>>
    /\ Tidy(t.at, t.to, bunch[t.at][t.to])

\* remove_subscriber: out of every channel under the lock, then out of
\* _partner without it.
RemoveSubscriber(t) ==
    /\ t.kind = "failed" /\ Unlocked(t.at)
    /\ LET b == bunch[t.at][t.to][t.id] IN b.failed = "long ago" /\ b.unsub
    /\ Unsubscribe(t.at, t.to)
    /\ Becomes(t, [t EXCEPT !.kind = "removing", !.id = 0])
    /\ UNCHANGED <<net, boot, partner, requests, crashes, losses>>
    /\ Tidy(t.at, t.to, bunch[t.at][t.to])

DropPartner(t) ==
    /\ t.kind = "removing"
    /\ partner' = [partner EXCEPT ![t.at][t.to] = 0]
    /\ Ends(t)
    /\ UNCHANGED <<net, boot, explicit, computed, requests, crashes, losses>>
    /\ Tidy(t.at, t.to, bunch[t.at][t.to])

Carries(n) ==
    \E t \in TaskSet :
        /\ t.at = n
        /\ \/ Distribute(t) \/ TakePartner(t) \/ Delivered(t) \/ AnswerLost(t) \/ Unreachable(t)
           \/ FirstFailure(t) \/ LaterFailure(t) \/ RemoveSubscriber(t) \/ DropPartner(t)
-----------------------------------------------------------------------------
(* Time, crashes, the whole.                                                *)

\* failure_limit passes after a failure.
LimitPasses ==
    \E n, m \in Nodes, i \in Ids :
        /\ bunch[n][m][i].failed = "lately"
        /\ bunch' = [bunch EXCEPT ![n][m][i].failed = "long ago"]
        /\ UNCHANGED <<net, boot, explicit, computed, partner, tasks, requests, crashes, losses>>

\* A program ends anywhere.  Its calls go on at the other side, calls of it
\* fail.
Crash(n) ==
    /\ boot[n] # "down" /\ crashes < net.crashes
    /\ crashes' = crashes + 1
    /\ boot' = [m \in Nodes |-> IF m = n THEN "down"
                               ELSE IF \E call \in requests : call = [from |-> m, to |-> n, waiting |-> TRUE]
                               THEN CallOver(m)[m] ELSE boot[m]]
    /\ explicit' = [explicit EXCEPT ![n] = NoChannels] /\ computed' = [computed EXCEPT ![n] = NoChannels]
    /\ partner' = [partner EXCEPT ![n] = NoPartners] /\ bunch' = [bunch EXCEPT ![n] = NoBunches]
    /\ tasks' = [t \in {t \in TaskSet : t.at # n} |-> tasks[t]]
    /\ requests' = {[call EXCEPT !.waiting = @ /\ call.from # n] : call \in {c \in requests : c.to # n}}
    /\ UNCHANGED <<net, losses>>

PubNext ==
    \/ \E n \in Nodes : Start(n) \/ Subscribes(n) \/ Serves(n) \/ Publish(n) \/ Carries(n) \/ Crash(n)
    \/ LimitPasses

PubSpec == PubInit /\ [][PubNext]_pubVars

\* Threads run and time passes; a program need not be started, nor publish.
PubFairness ==
    /\ \A n \in Nodes : WF_pubVars(Subscribes(n)) /\ WF_pubVars(Serves(n)) /\ WF_pubVars(Carries(n))
    /\ WF_pubVars(LimitPasses)
-----------------------------------------------------------------------------
(* Properties.                                                              *)

BunchType == [failed : {"no", "lately", "long ago"}, unsub : BOOLEAN]

\* Types of the state of the network.
PubTypeOK ==
    /\ net \in NetType /\ boot \in [Nodes -> {"down", "subscribing", "subscribed", "up"}]
    /\ explicit \in [Nodes -> [Channels -> SUBSET Nodes]]
    /\ computed \in [Nodes -> [Channels -> SUBSET Nodes]]
    /\ partner \in [Nodes -> [Nodes -> Ids \cup {0}]]
    /\ bunch \in [Nodes -> [Nodes -> [Ids -> BunchType]]]
    /\ \A t \in TaskSet : t.at \in Nodes /\ t.to \in Nodes /\ t.names \in Seq(Nodes) /\ t.id \in Ids \cup {0}
    /\ requests \subseteq [from : Nodes, to : Nodes, waiting : BOOLEAN]

\* "Add ourself to the set of names (prevents cyclic updates)": no copy of an
\* update comes back to a pubsub that it has passed, in networks where two
\* pubsubs subscribe to each other, and also where one is known by another name
\* (_subscriber_update, remote_update).  The names are those of one path: where
\* two paths lead to a pubsub, it may get and carry on two copies.
NoCyclicUpdates ==
    \A t \in TaskSet :
        /\ IsInjective(t.names)
        /\ t.kind = "update" /\ Len(t.names) > 1 => t.at \notin Range(t.names)

Hub(n) == net.hub[n]
Gets(n) ==
    /\ partner[Hub(n)][n] # 0
    /\ \A a \in net.wants[n] : \A c \in {a} \cup Constituents(Hub(n), a) : n \in computed[Hub(n)][c]

\* A pubsub that keeps running is in the end told of every update of the one it
\* subscribes to, as long as that keeps running too, although it has been removed by
\* a task that failed before, or has lost its record to one, or the two have
\* called each other with their locks held (subscribe_remote,
\* update_remote_subscriptions_loop, remove_subscriber).
SubscribersServed ==
    \A n \in Nodes :
        <>[](Hub(n) # NoHub => Reachable(n) /\ Reachable(Hub(n))) =>
        <>[](Hub(n) # NoHub => Gets(n))

\* One that has gone for good is not called for ever ("number of seconds to
\* wait before unsubscribing a subscriber who is unresponsive"), unless it has
\* been subscribed never to be removed (_individual_update).
Calling(n) == \E t \in TaskSet : t.to = n /\ t.kind = "calling" /\ bunch[t.at][n][t.id].unsub
GoneAreDropped ==
    \A n \in Nodes : <>[](boot[n] = "down") => <>[]~Calling(n)
=============================================================================
