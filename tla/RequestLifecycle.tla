-------------------------- MODULE RequestLifecycle --------------------------
(***************************************************************************)
(* What a stellar transport promises to whoever calls transport.request():  *)
(* the promise it hands out settles at most once, either with a response    *)
(* that names that very request, or, when the request has a timeout, with   *)
(* a timeout error; a request that has a timeout does not stay pending      *)
(* unless the transport is reset under it.                                  *)
(*                                                                          *)
(* This module says nothing about inflight tables, timers or queues: it is  *)
(* the specification that RemoteTransport, and each node of QueueRpc, is    *)
(* checked to implement.                                                    *)
(***************************************************************************)
CONSTANTS Ids,        \* the ids that transport.generateId() can return
          Timed,      \* the requests issued with a timeout
          Responses,  \* the responses that can reach this transport
          NoAnswer    \* "not answered"

VARIABLES outcome,    \* what the caller of request(id) can observe
          answer      \* the response its promise was resolved with

lifecycleVars == <<outcome, answer>>

Outcomes == {"unsent", "pending", "failed", "answered", "expired", "abandoned"}

Init ==
    /\ outcome = [id \in Ids |-> "unsent"]
    /\ answer = [id \in Ids |-> NoAnswer]

Issue(id) ==
    /\ outcome[id] = "unsent"
    /\ outcome' = [outcome EXCEPT ![id] = "pending"]
    /\ UNCHANGED answer

\* Sending threw before anything left the node.
Fail(id) ==
    /\ outcome[id] = "unsent"
    /\ outcome' = [outcome EXCEPT ![id] = "failed"]
    /\ UNCHANGED answer

Answer(id, r) ==
    /\ outcome[id] = "pending"
    /\ r.requestId = id
    /\ outcome' = [outcome EXCEPT ![id] = "answered"]
    /\ answer' = [answer EXCEPT ![id] = r]

Expire(id) ==
    /\ id \in Timed
    /\ outcome[id] = "pending"
    /\ outcome' = [outcome EXCEPT ![id] = "expired"]
    /\ UNCHANGED answer

\* The transport forgets every request it waits for; their promises will
\* never settle.
Abandon ==
    /\ outcome' = [id \in Ids |-> IF outcome[id] = "pending" THEN "abandoned"
                                                              ELSE outcome[id]]
    /\ UNCHANGED answer

Next ==
    \/ \E id \in Ids : Issue(id) \/ Fail(id) \/ Expire(id)
    \/ \E id \in Ids, r \in Responses : Answer(id, r)
    \/ Abandon

SafeSpec == Init /\ [][Next]_lifecycleVars

Fairness == \A id \in Timed : WF_lifecycleVars(Expire(id))

Spec == SafeSpec /\ Fairness
=============================================================================
