--------------------------- MODULE MCQueuePubSub ----------------------------
(* Instances of QueuePubSub: who subscribes where.                          *)
EXTENDS QueuePubSub, TLC

CONSTANTS n1, n2, c1, c2, g, m1, m2, s1, s2, s3

TwoNodes == {n1, n2}
AllSubs  == {s1, s2, s3}
OneMessage  == {m1}
TwoMessages == {m1, m2}
OnlyN1 == {n1}
Nobody == {}

By(n, c, group) == [node |-> n, channel |-> c, group |-> group]

\* Two subscriptions of n1 on one channel and one on another.
CastNode == s1 :> By(n1, c1, None) @@ s2 :> By(n1, c1, None) @@ s3 :> By(n1, c2, None)

\* A group beside a node subscription to another channel; n1 makes the call twice.
CastBoth == s1 :> By(n1, c2, None) @@ s2 :> By(n1, c1, g) @@ s3 :> By(n1, c1, g)

\* Members of one group on two nodes; n2 has another channel of it too.
CastGroup == s1 :> By(n1, c1, g) @@ s2 :> By(n2, c2, g) @@ s3 :> By(n2, c1, g)

OnlyNode == {CastNode}
AllCasts == {CastNode, CastBoth, CastGroup}

TopicOf == m1 :> c1 @@ m2 :> c2
=============================================================================
