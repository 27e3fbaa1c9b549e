---------------------------- MODULE MCQueueRpc ------------------------------
(* Instances of QueueRpc.  Chain: a asks b for u, whose handler may ask c    *)
(* for v.  Shared: b alone serves u and w, two urls of one service, and its  *)
(* handler for u may ask for w, whose jobs are in the inbox it serves.       *)
EXTENDS QueueRpc

CONSTANTS a, b, c, u, v, w

ChainNodes  == {a, b, c}
ChainUrls   == {u, v}
ChainInbox  == [url \in ChainUrls |-> IF url = u THEN "b's" ELSE "c's"]
ChainServes == [n \in ChainNodes |-> CASE n = a -> {} [] n = b -> {u} [] n = c -> {v}]
ChainCalls  == [url \in ChainUrls |-> IF url = u THEN v ELSE None]
OnlyA       == {a}

SharedNodes   == {a, b}
SharedUrls    == {u, w}
SharedInbox   == [url \in SharedUrls |-> "b's"]
SharedServes  == [n \in SharedNodes |-> IF n = b THEN {u, w} ELSE {}]
SharedCalls   == [url \in SharedUrls |-> IF url = u THEN w ELSE None]
=============================================================================
