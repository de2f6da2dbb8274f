-------------------------- MODULE MCClusterDiscovery --------------------------
(***************************************************************************)
(* Instances of ClusterDiscovery for TLC: locations are a, b and c, there  *)
(* are two slots, and the replies below are the ones a Redis Cluster sends *)
(* while it is formed, reshards, fails over or restarts.                   *)
(***************************************************************************)
EXTENDS ClusterDiscovery, TLC

CONSTANTS a, b, c

MCWeight == (a :> 0) @@ (b :> 0) @@ (c :> 1)

N(s, r, healthy, range) ==
    [server |-> s, role |-> r, healthy |-> healthy, slots |-> range]

\* Replies with slots: two shards, one with a replica in trouble; a and b
\* after a failover; b reporting itself without endpoint, and a node that
\* is not parsed between a shard without slots and one with them.
TwoShards == << N(a, Master, TRUE, {0}), N(b, Master, TRUE, {1}), N(c, Slave, FALSE, {1}) >>
FailedOver == << N(b, Master, TRUE, {0}), N(a, Slave, TRUE, {0}), N(c, Master, TRUE, {1}) >>
Partial == << N(a, Slave, TRUE, {}), N(NoServer, Master, TRUE, {}), N(Self, Master, TRUE, {0, 1}) >>

\* Replies without slots that do register servers: a cluster whose slots
\* have not been assigned, as its nodes list it, and one that only knows
\* itself.
UnassignedA == << N(a, Master, TRUE, {}), N(b, Master, TRUE, {}) >>
UnassignedB == << N(b, Master, TRUE, {}), N(a, Master, TRUE, {}) >>
Alone == << N(Self, Master, TRUE, {}) >>

\* Replies of which nothing can be used.
Garbage == << N(NoServer, Master, TRUE, {0}) >>

\* The last two are needed only where two servers contradict each other for
\* ever.
SomeReplies == {TwoShards, FailedOver, Partial, Alone, Garbage}
AllReplies == SomeReplies \union {UnassignedA, UnassignedB}
=============================================================================
