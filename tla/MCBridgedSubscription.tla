----------------------- MODULE MCBridgedSubscription ------------------------
(* Two subscriptions, one of them through client-redux.                     *)
EXTENDS BridgedSubscription, TLC

CONSTANTS s1, s2

MCSubs == {s1, s2}
MCCasts == {s1 :> "getReactive" @@ s2 :> "redux", s1 :> "subscribe" @@ s2 :> "redux"}
MCSessions == 1..2
MCPublications == {"p"}
=============================================================================
