------------------------- MODULE MCCloudmqttClient -------------------------
EXTENDS CloudmqttClient, TLC

CONSTANTS u1, u2, one, other, twin, bad, long, both, plus, star

\* Two filters that overlap on the topic both, one in the shard of the first
\* that does not match it, one that is refused when it is registered and one
\* that is too long for a SUBSCRIBE.
MCFilters == {one, other, twin, bad, long}
MCValidFilters == {one, other, twin}
MCLongFilters == {long}

\* plus is no valid name for the router, star none for MqttPacket::new.
MCTopics == {both, plus}
MCValidTopics == {both}
MCRefusedTopics == {star}
MCMatching == [t \in Topics |-> IF t = both THEN {one, other} ELSE {}]
MCMessages == Topics \X (1 .. MaxPublishes + MaxArrivals)

\* What a SubscriptionBuilder is given: nothing, a filter that is too long,
\* filters in one shard or in two, and a good filter before a refused one.
MCRefusedLists == [u \in Users |-> {<<>>, <<one, long>>, <<one, bad>>}]
MCFilterLists == (u1 :> {<<one, other>>}) @@ (u2 :> {<<one, twin, bad>>})
MCShards == (one :> 1) @@ (other :> 2) @@ (twin :> 1) @@ (bad :> 1) @@ (long :> 2)

MCFxHash == [id \in ClientIdentifiers |-> IF id = "cloudmqtt-0" THEN 0 ELSE 1]

\* The users are alike; used where no liveness is checked.
UserSymmetry == Permutations({u1, u2})
=============================================================================
