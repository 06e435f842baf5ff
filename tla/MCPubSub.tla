------------------------------- MODULE MCPubSub -------------------------------
(* Two networks.  Pair: two name servers, each subscribed to the other by   *)
(* its address and publishing to it.  Relay: the hub relays what "right"    *)
(* publishes to "left", which has subscribed to an aggregate and publishes  *)
(* to the hub itself.                                                       *)
EXTENDS PubSub

MCNodes == {"left", "right", "hub"}
MCChannels == {"names", "all"}
NoAggs == [n \in MCNodes |-> [c \in MCChannels |-> {}]]
Sources == [left |-> {"names"}, right |-> {"names"}, hub |-> {}]
Pair == [hub |-> [left |-> "right", right |-> "left", hub |-> NoHub],
         wants |-> [left |-> {"names"}, right |-> {"names"}, hub |-> {}],
         pushes |-> [left |-> {"right"}, right |-> {"left"}, hub |-> {}],
         origin |-> Sources, known |-> Sources, aliased |-> {"left", "right"}, aggs |-> NoAggs,
         crashes |-> 0, losses |-> 0]
Relay == [hub |-> [left |-> "hub", right |-> NoHub, hub |-> NoHub],
          wants |-> [left |-> {"all"}, right |-> {}, hub |-> {}],
          pushes |-> [left |-> {"hub"}, right |-> {"hub"}, hub |-> {}],
          origin |-> Sources, known |-> [Sources EXCEPT !["hub"] = MCChannels], aliased |-> {},
          aggs |-> [NoAggs EXCEPT !["hub"]["all"] = {"names"}], crashes |-> 1, losses |-> 1]

FaultyNets == {Pair, Relay}

\* For liveness no answers are lost, and the pair only subscribes.
Silent(v) == [n \in MCNodes |-> v]
CrashNets == {[Pair EXCEPT !.origin = Silent({}), !.pushes = Silent({})], [Relay EXCEPT !.losses = 0]}
=============================================================================
