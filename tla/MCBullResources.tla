-------------------------- MODULE MCBullResources ---------------------------
(* Two processes that share their queues.                                   *)
EXTENDS BullResources

CONSTANTS n1, n2, p, q, j1

BothNodes == {n1, n2}
OnlyN1    == {n1}
Nobody    == {}
OneQueue  == {p}
TwoQueues == {p, q}
OneJob    == {j1}
=============================================================================
