--------------------------- MODULE QueueRpcProofs ---------------------------
(***************************************************************************)
(* Proofs about QueueRpc, for every set of nodes, urls and services and     *)
(* every number of requests, deliveries and crashes.                        *)
(*                                                                          *)
(* That a caller gets only answers to its own request (OwnAnswer) is not    *)
(* obvious here: a handler may pass on the response to a request of its     *)
(* own, whose requestId is not that of the request it works on              *)
(* (PassedOnIsSettled).  By then that id is settled on the node that made   *)
(* the request, ids are not used twice (UnissuedIsBlank), and a table of    *)
(* inflight requests holds pending ones only (InflightIsPending), so the    *)
(* stray response finds nothing.                                            *)
(***************************************************************************)
EXTENDS QueueRpc, TLAPS

\* An id that was not generated yet is nowhere.
UnissuedIsBlank ==
    \A id \in Ids :
        id > issued => promise[id] = "unsent" /\ answer[id] = None /\ attempts[id] = 0

IssuedIsKnown == \A id \in Ids : id <= issued => request[id] \in Requests

\* A job is in the inbox of its service, and can be given out once more.
QueuedIsIssued ==
    \A i \in Inboxes : \A id \in waiting[i] :
        id <= issued /\ attempts[id] < MaxAttempts /\ i = InboxOf(id)

ActiveIsIssued == \A id \in active : id <= issued

RunIsUp == \A run \in runs : run.id <= issued /\ run.child <= issued /\ run.node \in up

\* A request waits on the node that sent it, as long as its promise does.
InflightIsPending ==
    \A n \in Nodes, id \in Ids :
        id \in inflight[n] <=> promise[id] = "pending" /\ request[id].from = n

ResponseIsReply == \A n \in Nodes : responses[n] \subseteq replies

\* What a handler passed on names a request that is over.
PassedOnIsSettled ==
    \A r \in replies :
        r.requestId # r.of => promise[r.requestId] \in {"answered", "expired", "abandoned"}

IdInv    == UnissuedIsBlank /\ IssuedIsKnown /\ QueuedIsIssued /\ ActiveIsIssued /\ RunIsUp
AnswerInv == InflightIsPending /\ ResponseIsReply /\ PassedOnIsSettled /\ OwnAnswer
IInv     == TypeOK /\ IdInv /\ AnswerInv

-----------------------------------------------------------------------------
USE QueueRpcAssumption DEF Promises

\* A response as Finish makes it.
Response(run, requestId, result) ==
    [requestId |-> requestId, of |-> run.id, attempt |-> run.attempt, result |-> result]

\* The invariant holds when every node starts.
LEMMA InitIInv == Init => IInv
  <1> SUFFICES ASSUME Init PROVE IInv
    OBVIOUS
  <1>1. TypeOK
    BY DEF Init, TypeOK
  <1>2. IdInv
    BY DEF Init, IdInv, UnissuedIsBlank, IssuedIsKnown, QueuedIsIssued, ActiveIsIssued,
           RunIsUp, Ids
  <1>3. AnswerInv
    BY DEF Init, AnswerInv, InflightIsPending, ResponseIsReply, PassedOnIsSettled, OwnAnswer
  <1> QED
    BY <1>1, <1>2, <1>3 DEF IInv

\* What is known of a handler that runs.
LEMMA RunFields ==
    ASSUME IInv, NEW run \in runs
    PROVE  /\ run \in Runs /\ run.id \in Ids /\ run.attempt \in 1..MaxAttempts
           /\ run.node \in up /\ run.node \in Nodes
           /\ run.child \in Nat /\ run.child <= issued /\ run.child <= issued + 1
           /\ run.id <= issued
  <1>1. run \in Runs /\ issued \in Nat
    BY DEF IInv, TypeOK
  <1>2. /\ run.id \in Ids /\ run.attempt \in 1..MaxAttempts /\ run.node \in Nodes
        /\ run.child \in Nat
    BY <1>1 DEF Runs, Ids
  <1>3. run.id <= issued /\ run.child <= issued /\ run.node \in up
    BY DEF IInv, IdInv, RunIsUp
  <1> QED
    BY <1>1, <1>2, <1>3

\* A request that is sent gets an id of its own.  What happens to the runs, and
\* to the callers of Send, is left to the two actions that use it.
LEMMA SendKeepsIInv ==
    ASSUME IInv, NEW n \in up, NEW url \in Urls, NEW type \in {"request", "fireAndForget"},
           Send(n, url, type), runs' \subseteq Runs,
           \A run \in runs' : run.id <= issued /\ run.child <= issued' /\ run.node \in up
    PROVE  IInv'
  <1> DEFINE id == issued + 1
  <1>1. TypeOK /\ id \in Ids /\ issued' = id /\ n \in Nodes /\ Inbox[url] \in Inboxes
        /\ promise[id] = "unsent" /\ attempts[id] = 0
    <2>1. TypeOK /\ id <= MaxRequests /\ issued' = id
      BY DEF Send, IInv
    <2>2. id \in Ids /\ id > issued
      BY <2>1 DEF TypeOK, Ids
    <2>3. promise[id] = "unsent" /\ attempts[id] = 0
      BY <2>2 DEF IInv, IdInv, UnissuedIsBlank
    <2> QED
      BY <2>1, <2>2, <2>3 DEF TypeOK, Inboxes
  <1>2. /\ request' = [request EXCEPT ![id] = [url |-> url, from |-> n, type |-> type]]
        /\ waiting' = [waiting EXCEPT ![Inbox[url]] = @ \cup {id}]
        /\ hearing' = hearing \cup {n}
        /\ UNCHANGED <<answer, up, crashes, handlers, serving, active, attempts,
                       responses, replies, unhandled>>
    BY DEF Send, replyVars
  <1>3. /\ promise' = [promise EXCEPT ![id] = IF type = "request" THEN "pending" ELSE @]
        /\ inflight' = [inflight EXCEPT ![n] = IF type = "request" THEN @ \cup {id} ELSE @]
    BY <1>1 DEF Send, TypeOK
  <1>4. [url |-> url, from |-> n, type |-> type] \in Requests
    BY <1>1 DEF Requests
  <1>5. TypeOK'
    <2>1. issued' \in 0..MaxRequests /\ request' \in [Ids -> Requests \cup {NoRequest}]
      BY <1>1, <1>2, <1>4 DEF TypeOK, Ids
    <2>2. promise' \in [Ids -> Promises] /\ inflight' \in [Nodes -> SUBSET Ids]
      BY <1>1, <1>3 DEF TypeOK
    <2>3. waiting' \in [Inboxes -> SUBSET Ids]
      BY <1>1, <1>2 DEF TypeOK
    <2> QED
      BY <1>1, <1>2, <2>1, <2>2, <2>3 DEF TypeOK
  <1>6. IdInv'
    <2>1. UnissuedIsBlank'
      BY <1>1, <1>2, <1>3 DEF IInv, IdInv, UnissuedIsBlank, TypeOK, Ids
    <2>2. IssuedIsKnown'
      BY <1>1, <1>2, <1>4 DEF IInv, IdInv, IssuedIsKnown, TypeOK, Ids
    <2>3. QueuedIsIssued'
      <3> SUFFICES ASSUME NEW i \in Inboxes, NEW j \in waiting'[i]
                   PROVE  j <= issued' /\ attempts'[j] < MaxAttempts
                          /\ i = Inbox[request'[j].url]
        BY DEF QueuedIsIssued, InboxOf, Inboxes
      <3>1. j \in Ids
        BY <1>5 DEF TypeOK
      <3>2. CASE j = id
        <4>1. request'[id].url = url
          BY <1>1, <1>2 DEF TypeOK
        <4>2. id \notin waiting[i]
          BY <1>1 DEF IInv, IdInv, QueuedIsIssued, TypeOK
        <4> QED
          BY <1>1, <1>2, <3>2, <4>1, <4>2 DEF TypeOK
      <3>3. CASE j # id
        <4>1. j \in waiting[i] /\ request'[j] = request[j]
          BY <1>1, <1>2, <3>1, <3>3 DEF TypeOK
        <4> QED
          BY <1>1, <1>2, <3>1, <4>1 DEF IInv, IdInv, QueuedIsIssued, InboxOf, TypeOK, Ids
      <3> QED
        BY <3>2, <3>3
    <2>4. ActiveIsIssued'
      <3>1. issued \in Nat /\ issued' = issued + 1 /\ active' = active /\ active \subseteq Ids
        BY <1>1, <1>2 DEF TypeOK
      <3>2. \A j \in active : j \in Nat /\ j <= issued
        BY <3>1 DEF IInv, IdInv, ActiveIsIssued, Ids
      <3> QED
        BY <3>1, <3>2 DEF ActiveIsIssued
    <2>5. RunIsUp'
      BY <1>1, <1>2 DEF RunIsUp, TypeOK, Runs, Ids
    <2> QED
      BY <2>1, <2>2, <2>3, <2>4, <2>5 DEF IdInv
  <1>7. AnswerInv'
    <2>1. InflightIsPending'
      <3> SUFFICES ASSUME NEW m \in Nodes, NEW j \in Ids
                   PROVE  j \in inflight'[m] <=> promise'[j] = "pending" /\ request'[j].from = m
        BY DEF InflightIsPending
      <3>1. j \in inflight[m] <=> promise[j] = "pending" /\ request[j].from = m
        BY DEF IInv, AnswerInv, InflightIsPending
      <3>2. CASE j = id
        <4>1. request'[j].from = n /\ j \notin inflight[m]
          BY <1>1, <1>2, <3>1, <3>2 DEF TypeOK
        <4>2. promise'[j] = "pending" <=> type = "request"
          BY <1>1, <1>3, <3>2 DEF TypeOK
        <4>3. j \in inflight'[m] <=> m = n /\ type = "request"
          BY <1>1, <1>3, <3>2, <4>1 DEF TypeOK
        <4> QED
          BY <4>1, <4>2, <4>3
      <3>3. CASE j # id
        <4>1. request'[j] = request[j] /\ promise'[j] = promise[j]
          BY <1>1, <1>2, <1>3, <3>3 DEF TypeOK
        <4>2. j \in inflight'[m] <=> j \in inflight[m]
          BY <1>1, <1>3, <3>3 DEF TypeOK
        <4> QED
          BY <3>1, <4>1, <4>2
      <3> QED
        BY <3>2, <3>3
    <2>2. ResponseIsReply'
      BY <1>2 DEF IInv, AnswerInv, ResponseIsReply
    <2>3. PassedOnIsSettled'
      BY <1>1, <1>2, <1>3 DEF IInv, AnswerInv, PassedOnIsSettled, TypeOK, Responses
    <2>4. OwnAnswer'
      BY <1>1, <1>2, <1>3 DEF IInv, AnswerInv, OwnAnswer, TypeOK
    <2> QED
      BY <2>1, <2>2, <2>3, <2>4 DEF AnswerInv
  <1> QED
    BY <1>5, <1>6, <1>7 DEF IInv

LEMMA ClientRequestKeepsIInv ==
    ASSUME IInv, NEW n \in Nodes, NEW url \in Urls,
           NEW type \in {"request", "fireAndForget"}, ClientRequest(n, url, type)
    PROVE  IInv'
  <1>1. n \in up /\ Send(n, url, type) /\ runs' = runs
    BY DEF ClientRequest
  <1>2. runs' \subseteq Runs
    BY <1>1 DEF IInv, TypeOK
  <1>3. \A run \in runs' : run.id <= issued /\ run.child <= issued' /\ run.node \in up
    <2>1. issued' = issued + 1
      BY <1>1 DEF Send
    <2> QED
      BY <1>1, <2>1, RunFields
  <1> QED
    BY <1>1, <1>2, <1>3, SendKeepsIInv

LEMMA CallOtherKeepsIInv ==
    ASSUME IInv, NEW run \in runs, CallOther(run)
    PROVE  IInv'
  <1> DEFINE url == request[run.id].url
  <1>1. TypeOK /\ run \in Runs /\ run.id \in Ids /\ run.id <= issued /\ run.node \in up
    BY RunFields DEF IInv
  <1>2. url \in Urls
    BY <1>1 DEF IInv, IdInv, IssuedIsKnown, Requests
  <1>3. Calls[url] \in Urls /\ Send(run.node, Calls[url], "request")
        /\ runs' = (runs \ {run}) \cup {[run EXCEPT !.child = issued + 1]}
    BY <1>2 DEF CallOther
  <1>4. issued' = issued + 1 /\ issued' \in Ids
    BY <1>1, <1>3 DEF Send, TypeOK, Ids
  <1>5. [run EXCEPT !.child = issued + 1] \in Runs
    BY <1>1, <1>4 DEF Runs
  <1>6. runs' \subseteq Runs
    BY <1>1, <1>3, <1>5 DEF TypeOK
  <1>7. \A r \in runs' : r.id <= issued /\ r.child <= issued' /\ r.node \in up
    <2> SUFFICES ASSUME NEW r \in runs'
                 PROVE  r.id <= issued /\ r.child <= issued' /\ r.node \in up
      OBVIOUS
    <2>1. CASE r \in runs
      BY <1>4, <2>1, RunFields
    <2>2. CASE r = [run EXCEPT !.child = issued + 1]
      BY <1>1, <1>4, <2>2 DEF Runs, Ids, TypeOK
    <2> QED
      BY <1>3, <2>1, <2>2
  <1> QED
    BY <1>1, <1>3, <1>6, <1>7, SendKeepsIInv

LEMMA AddRequestHandlerKeepsIInv ==
    ASSUME IInv, NEW n \in Nodes, NEW url \in Urls, AddRequestHandler(n, url)
    PROVE  IInv'
  <1>1. TypeOK'
    BY DEF IInv, TypeOK, AddRequestHandler, rpcVars, queueVars, replyVars, Inboxes
  <1>2. IdInv'
    BY DEF IInv, IdInv, AddRequestHandler, rpcVars, queueVars, UnissuedIsBlank,
           IssuedIsKnown, QueuedIsIssued, ActiveIsIssued, RunIsUp, InboxOf
  <1>3. AnswerInv'
    BY DEF IInv, AnswerInv, AddRequestHandler, rpcVars, replyVars, InflightIsPending,
           ResponseIsReply, PassedOnIsSettled, OwnAnswer
  <1> QED
    BY <1>1, <1>2, <1>3 DEF IInv

\* A job is given to a worker.
LEMMA RequestHandlerKeepsIInv ==
    ASSUME IInv, NEW n \in Nodes, NEW id \in Ids, RequestHandler(n, id)
    PROVE  IInv'
  <1> DEFINE run == [id |-> id, attempt |-> attempts[id] + 1, node |-> n, child |-> 0]
  <1>1. TypeOK /\ n \in up
    BY DEF RequestHandler, IInv
  <1>2. PICK i \in Inboxes : id \in waiting[i]
    BY DEF RequestHandler, IInv, TypeOK
  <1>3. id <= issued /\ attempts[id] < MaxAttempts /\ i = InboxOf(id)
    BY <1>2 DEF IInv, IdInv, QueuedIsIssued
  <1>4. /\ waiting' = [waiting EXCEPT ![i] = @ \ {id}]
        /\ attempts' = [attempts EXCEPT ![id] = @ + 1]
        /\ UNCHANGED <<rpcVars, nodeVars, responses, replies>>
    BY <1>3 DEF RequestHandler
  <1>5. /\ active' \subseteq active \cup {id}
        /\ runs' \subseteq runs \cup {run}
        /\ unhandled' \subseteq unhandled \cup {id}
    BY DEF RequestHandler
  <1>6. attempts[id] \in Nat /\ attempts[id] + 1 \in 1..MaxAttempts
    BY <1>1, <1>3 DEF TypeOK
  <1>7. run \in Runs
    BY <1>6 DEF Runs
  <1>8. TypeOK'
    <2>1. waiting' \in [Inboxes -> SUBSET Ids] /\ attempts' \in [Ids -> 0..MaxAttempts]
      BY <1>1, <1>4, <1>6 DEF TypeOK
    <2>2. active' \subseteq Ids /\ runs' \subseteq Runs /\ unhandled' \subseteq Ids
      BY <1>1, <1>5, <1>7 DEF TypeOK
    <2> QED
      BY <1>1, <1>4, <2>1, <2>2 DEF TypeOK, rpcVars, nodeVars
  <1>9. IdInv'
    <2>1. UnissuedIsBlank'
      BY <1>1, <1>3, <1>4 DEF IInv, IdInv, UnissuedIsBlank, TypeOK, rpcVars, Ids
    <2>2. IssuedIsKnown'
      BY <1>4 DEF IInv, IdInv, IssuedIsKnown, rpcVars
    <2>3. QueuedIsIssued'
      <3> SUFFICES ASSUME NEW k \in Inboxes, NEW j \in waiting'[k]
                   PROVE  j <= issued /\ attempts'[j] < MaxAttempts /\ k = InboxOf(j)
        BY <1>4 DEF QueuedIsIssued, InboxOf, Inboxes, rpcVars
      <3>1. j \in waiting[k] /\ j \in Ids
        BY <1>1, <1>4 DEF TypeOK
      <3>2. j <= issued /\ attempts[j] < MaxAttempts /\ k = InboxOf(j)
        BY <3>1 DEF IInv, IdInv, QueuedIsIssued
      <3>3. j # id
        BY <1>1, <1>3, <1>4, <3>2 DEF TypeOK
      <3> QED
        BY <1>1, <1>4, <3>1, <3>2, <3>3 DEF TypeOK
    <2>4. ActiveIsIssued'
      BY <1>3, <1>4, <1>5 DEF IInv, IdInv, ActiveIsIssued, rpcVars
    <2>5. RunIsUp'
      <3> SUFFICES ASSUME NEW r \in runs'
                   PROVE  r.id <= issued /\ r.child <= issued /\ r.node \in up
        BY <1>4 DEF RunIsUp, rpcVars, nodeVars
      <3>1. CASE r \in runs
        BY <3>1, RunFields
      <3>2. CASE r = run
        BY <1>1, <1>3, <3>2 DEF TypeOK
      <3> QED
        BY <1>5, <3>1, <3>2
    <2> QED
      BY <2>1, <2>2, <2>3, <2>4, <2>5 DEF IdInv
  <1>10. AnswerInv'
    BY <1>4 DEF IInv, AnswerInv, rpcVars, InflightIsPending, ResponseIsReply,
                PassedOnIsSettled, OwnAnswer
  <1> QED
    BY <1>8, <1>9, <1>10 DEF IInv

\* A handler ends with a response that names its own request, or one that is over.
LEMMA FinishKeepsIInv ==
    ASSUME IInv, NEW run \in runs, NEW requestId \in Ids, NEW result \in {"ok", "error"},
           Finish(run, requestId, result),
           requestId = run.id \/ Settled(requestId)
    PROVE  IInv'
  <1> DEFINE r == Response(run, requestId, result)
             to == request[run.id].from
  <1>1. TypeOK /\ run.id \in Ids /\ run.attempt \in 1..MaxAttempts /\ run.id <= issued
    BY RunFields DEF IInv
  <1>2. r \in Responses /\ r.requestId = requestId /\ r.of = run.id
    BY <1>1 DEF Response, Responses
  <1>3. to \in Nodes
    BY <1>1 DEF IInv, IdInv, IssuedIsKnown, Requests
  <1>4. /\ runs' \subseteq runs
        /\ active' \subseteq active
        /\ UNCHANGED <<rpcVars, nodeVars, waiting, attempts, unhandled>>
    BY DEF Finish
  <1>5. \/ /\ responses' = [responses EXCEPT ![to] = @ \cup {r}]
           /\ replies' = replies \cup {r}
        \/ UNCHANGED <<responses, replies>>
    BY DEF Finish, Response
  <1>6. TypeOK'
    BY <1>1, <1>2, <1>3, <1>4, <1>5 DEF TypeOK, rpcVars, nodeVars
  <1>7. IdInv'
    BY <1>4 DEF IInv, IdInv, rpcVars, nodeVars, UnissuedIsBlank, IssuedIsKnown,
                QueuedIsIssued, InboxOf, ActiveIsIssued, RunIsUp
  <1>8. AnswerInv'
    <2>1. InflightIsPending' /\ OwnAnswer'
      BY <1>4, <1>5 DEF IInv, AnswerInv, InflightIsPending, OwnAnswer, rpcVars
    <2>2. ResponseIsReply'
      BY <1>1, <1>3, <1>5 DEF IInv, AnswerInv, ResponseIsReply, TypeOK
    <2>3. PassedOnIsSettled'
      BY <1>2, <1>4, <1>5 DEF IInv, AnswerInv, PassedOnIsSettled, Settled, rpcVars
    <2> QED
      BY <2>1, <2>2, <2>3 DEF AnswerInv
  <1> QED
    BY <1>6, <1>7, <1>8 DEF IInv

LEMMA HandlerEndKeepsIInv ==
    ASSUME IInv, NEW run \in runs,
           FinishAlone(run) \/ FinishWithOwnResult(run) \/ FinishPassingOn(run)
    PROVE  IInv'
  <1>1. run.id \in Ids /\ run.child \in Ids \cup {0}
    BY RunFields DEF Runs
  <1>2. CASE FinishAlone(run) \/ FinishWithOwnResult(run)
    BY <1>1, <1>2, FinishKeepsIInv DEF FinishAlone, FinishWithOwnResult
  <1>3. CASE FinishPassingOn(run)
    <2>1. run.child \in Ids /\ Settled(run.child)
          /\ Finish(run, run.child, ChildResult(run.child))
      BY <1>1, <1>3 DEF FinishPassingOn
    <2>2. ChildResult(run.child) \in {"ok", "error"}
      BY <2>1 DEF ChildResult, IInv, AnswerInv, OwnAnswer, TypeOK, Responses
    <2> QED
      BY <2>1, <2>2, FinishKeepsIInv
  <1> QED
    BY <1>2, <1>3

\* A response that arrives: for a request that waits, or for nobody.
LEMMA ResponseHandlerKeepsIInv ==
    ASSUME IInv, NEW n \in Nodes, NEW r \in Responses, ResponseHandler(n, r)
    PROVE  IInv'
  <1> DEFINE id == r.requestId
  <1>1. TypeOK /\ id \in Ids
    BY DEF IInv, Responses
  <1>2. /\ r \in responses[n]
        /\ responses' \in {responses, [responses EXCEPT ![n] = @ \ {r}]}
        /\ UNCHANGED <<issued, request, nodeVars, queueVars, runs, replies, unhandled>>
    BY DEF ResponseHandler
  <1>3. r \in replies
    BY <1>2 DEF IInv, AnswerInv, ResponseIsReply
  <1>4. CASE id \in inflight[n]
    <2>1. /\ inflight' = [inflight EXCEPT ![n] = @ \ {id}]
          /\ promise' = [promise EXCEPT ![id] = "answered"]
          /\ answer' = [answer EXCEPT ![id] = r]
      BY <1>4 DEF ResponseHandler
    <2>2. promise[id] = "pending" /\ request[id].from = n
      BY <1>1, <1>4 DEF IInv, AnswerInv, InflightIsPending
    \* The heart of it: who waits is not settled, so the response is its own.
    <2>3. r.of = id
      BY <1>3, <2>2 DEF IInv, AnswerInv, PassedOnIsSettled
    <2>4. TypeOK'
      BY <1>1, <1>2, <2>1 DEF TypeOK, nodeVars, queueVars
    <2>5. IdInv'
      BY <1>1, <1>2, <2>1, <2>2
      DEF IInv, IdInv, TypeOK, nodeVars, queueVars, UnissuedIsBlank, IssuedIsKnown,
          QueuedIsIssued, InboxOf, ActiveIsIssued, RunIsUp
    <2>6. InflightIsPending'
      <3> SUFFICES ASSUME NEW m \in Nodes, NEW j \in Ids
                   PROVE  j \in inflight'[m] <=> promise'[j] = "pending" /\ request[j].from = m
        BY <1>2 DEF InflightIsPending
      <3>1. j \in inflight[m] <=> promise[j] = "pending" /\ request[j].from = m
        BY DEF IInv, AnswerInv, InflightIsPending
      <3>2. CASE j = id
        BY <1>1, <2>1, <2>2, <3>1, <3>2 DEF TypeOK
      <3>3. CASE j # id
        <4>1. promise'[j] = promise[j]
          BY <1>1, <2>1, <3>3 DEF TypeOK
        <4>2. j \in inflight'[m] <=> j \in inflight[m]
          BY <1>1, <2>1, <3>3 DEF TypeOK
        <4> QED
          BY <3>1, <4>1, <4>2
      <3> QED
        BY <3>2, <3>3
    <2>7. ResponseIsReply'
      BY <1>1, <1>2 DEF IInv, AnswerInv, ResponseIsReply, TypeOK
    <2>8. PassedOnIsSettled'
      BY <1>1, <1>2, <2>1 DEF IInv, AnswerInv, PassedOnIsSettled, TypeOK
    <2>9. OwnAnswer'
      BY <1>1, <1>2, <1>3, <2>1, <2>3 DEF IInv, AnswerInv, OwnAnswer, TypeOK
    <2> QED
      BY <2>4, <2>5, <2>6, <2>7, <2>8, <2>9 DEF IInv, AnswerInv
  <1>5. CASE id \notin inflight[n]
    <2>1. UNCHANGED <<inflight, promise, answer>>
      BY <1>5 DEF ResponseHandler
    <2>2. TypeOK'
      BY <1>1, <1>2, <2>1 DEF TypeOK, nodeVars, queueVars
    <2>3. IdInv'
      BY <1>2, <2>1
      DEF IInv, IdInv, nodeVars, queueVars, UnissuedIsBlank, IssuedIsKnown,
          QueuedIsIssued, InboxOf, ActiveIsIssued, RunIsUp
    <2>4. ResponseIsReply'
      BY <1>1, <1>2 DEF IInv, AnswerInv, ResponseIsReply, TypeOK
    <2>5. InflightIsPending' /\ PassedOnIsSettled' /\ OwnAnswer'
      BY <1>2, <2>1 DEF IInv, AnswerInv, InflightIsPending, PassedOnIsSettled, OwnAnswer
    <2> QED
      BY <2>2, <2>3, <2>4, <2>5 DEF IInv, AnswerInv
  <1> QED
    BY <1>4, <1>5

LEMMA TimeoutKeepsIInv ==
    ASSUME IInv, NEW n \in Nodes, NEW id \in Ids, HandleRequestTimeout(n, id)
    PROVE  IInv'
  <1>1. TypeOK /\ promise[id] = "pending" /\ request[id].from = n
    BY DEF HandleRequestTimeout, IInv, AnswerInv, InflightIsPending
  <1>2. /\ inflight' = [inflight EXCEPT ![n] = @ \ {id}]
        /\ promise' = [promise EXCEPT ![id] = "expired"]
        /\ UNCHANGED <<issued, request, answer, nodeVars, queueVars, runs, replyVars>>
    BY DEF HandleRequestTimeout
  <1>3. TypeOK'
    BY <1>1, <1>2 DEF TypeOK, nodeVars, queueVars, replyVars
  <1>4. IdInv'
    BY <1>1, <1>2
    DEF IInv, IdInv, TypeOK, nodeVars, queueVars, UnissuedIsBlank, IssuedIsKnown,
        QueuedIsIssued, InboxOf, ActiveIsIssued, RunIsUp
  <1>5. InflightIsPending'
    BY <1>1, <1>2 DEF IInv, AnswerInv, InflightIsPending, TypeOK
  <1>6. ResponseIsReply' /\ PassedOnIsSettled' /\ OwnAnswer'
    BY <1>1, <1>2 DEF IInv, AnswerInv, ResponseIsReply, PassedOnIsSettled, OwnAnswer,
                      TypeOK, replyVars
  <1> QED
    BY <1>3, <1>4, <1>5, <1>6 DEF IInv, AnswerInv

LEMMA StalledKeepsIInv ==
    ASSUME IInv, NEW id \in Ids, Stalled(id)
    PROVE  IInv'
  <1>1. TypeOK /\ id <= issued /\ InboxOf(id) \in Inboxes
    BY DEF Stalled, IInv, IdInv, ActiveIsIssued, IssuedIsKnown, InboxOf, Inboxes, Requests
  <1>2. /\ active' = active \ {id}
        /\ UNCHANGED <<rpcVars, nodeVars, attempts, runs, replyVars>>
    BY DEF Stalled
  <1>3. \/ waiting' = waiting
        \/ /\ attempts[id] < MaxAttempts
           /\ waiting' = [waiting EXCEPT ![InboxOf(id)] = @ \cup {id}]
    BY DEF Stalled
  <1>4. TypeOK'
    BY <1>1, <1>2, <1>3 DEF TypeOK, rpcVars, nodeVars, replyVars
  <1>5. QueuedIsIssued'
    <2> SUFFICES ASSUME NEW i \in Inboxes, NEW j \in waiting'[i]
                 PROVE  j <= issued /\ attempts[j] < MaxAttempts /\ i = InboxOf(j)
      BY <1>2 DEF QueuedIsIssued, InboxOf, Inboxes, rpcVars
    <2>1. CASE j \in waiting[i]
      BY <2>1 DEF IInv, IdInv, QueuedIsIssued
    <2>2. CASE j \notin waiting[i]
      BY <1>1, <1>3, <2>2 DEF TypeOK
    <2> QED
      BY <2>1, <2>2
  <1>6. UnissuedIsBlank' /\ IssuedIsKnown' /\ ActiveIsIssued' /\ RunIsUp'
    BY <1>2 DEF IInv, IdInv, rpcVars, nodeVars, UnissuedIsBlank, IssuedIsKnown,
                ActiveIsIssued, RunIsUp
  <1>7. AnswerInv'
    BY <1>2 DEF IInv, AnswerInv, rpcVars, replyVars, InflightIsPending, ResponseIsReply,
                PassedOnIsSettled, OwnAnswer
  <1> QED
    BY <1>4, <1>5, <1>6, <1>7 DEF IInv, IdInv

\* What a crash takes along was waiting, or is forgotten on that node alone.
LEMMA CrashKeepsIInv ==
    ASSUME IInv, NEW n \in Nodes, Crash(n)
    PROVE  IInv'
  <1>1. TypeOK
    BY DEF IInv
  <1>2. /\ crashes < MaxCrashes /\ crashes' = crashes + 1
        /\ up' = up \ {n} /\ hearing' = hearing \ {n}
        /\ handlers' = [handlers EXCEPT ![n] = {}]
        /\ serving' = [serving EXCEPT ![n] = {}]
        /\ inflight' = [inflight EXCEPT ![n] = {}]
        /\ promise' = [id \in Ids |-> IF id \in inflight[n] THEN "abandoned" ELSE promise[id]]
        /\ runs' = {run \in runs : run.node # n}
        /\ UNCHANGED <<issued, request, answer, queueVars, replyVars>>
    BY DEF Crash
  <1>3. TypeOK'
    BY <1>1, <1>2 DEF TypeOK, queueVars, replyVars
  <1>4. \A id \in Ids : promise'[id] # promise[id] => promise[id] = "pending"
    BY <1>2 DEF IInv, AnswerInv, InflightIsPending
  <1>5. IdInv'
    BY <1>1, <1>2, <1>4
    DEF IInv, IdInv, queueVars, UnissuedIsBlank, IssuedIsKnown, QueuedIsIssued, InboxOf,
        ActiveIsIssued, RunIsUp
  <1>6. InflightIsPending'
    BY <1>1, <1>2 DEF IInv, AnswerInv, InflightIsPending, TypeOK
  <1>7. ResponseIsReply' /\ PassedOnIsSettled' /\ OwnAnswer'
    BY <1>1, <1>2 DEF IInv, AnswerInv, ResponseIsReply, PassedOnIsSettled, OwnAnswer,
                      TypeOK, Responses, replyVars
  <1> QED
    BY <1>3, <1>5, <1>6, <1>7 DEF IInv, AnswerInv

LEMMA RestartKeepsIInv ==
    ASSUME IInv, NEW n \in Nodes, Restart(n)
    PROVE  IInv'
  <1>1. /\ up' = up \cup {n}
        /\ UNCHANGED <<rpcVars, crashes, handlers, serving, hearing, queueVars, runs, replyVars>>
    BY DEF Restart
  <1>2. TypeOK'
    BY <1>1 DEF IInv, TypeOK, rpcVars, queueVars, replyVars
  <1>3. IdInv'
    BY <1>1 DEF IInv, IdInv, rpcVars, queueVars, UnissuedIsBlank, IssuedIsKnown,
                QueuedIsIssued, InboxOf, ActiveIsIssued, RunIsUp
  <1>4. AnswerInv'
    BY <1>1 DEF IInv, AnswerInv, rpcVars, replyVars, InflightIsPending, ResponseIsReply,
                PassedOnIsSettled, OwnAnswer
  <1> QED
    BY <1>2, <1>3, <1>4 DEF IInv

\* Every step keeps the invariant.
LEMMA NextKeepsIInv == IInv /\ [Next]_vars => IInv'
  <1> SUFFICES ASSUME IInv, [Next]_vars PROVE IInv'
    OBVIOUS
  <1>1. ASSUME NEW n \in Nodes, NEW url \in Urls, NEW type \in {"request", "fireAndForget"},
               ClientRequest(n, url, type)
        PROVE  IInv'
    BY <1>1, ClientRequestKeepsIInv
  <1>2. ASSUME NEW n \in Nodes, Work(n) PROVE IInv'
    BY <1>2, AddRequestHandlerKeepsIInv, RequestHandlerKeepsIInv, ResponseHandlerKeepsIInv
    DEF Work
  <1>3. ASSUME NEW n \in Nodes, Crash(n) \/ Restart(n) PROVE IInv'
    BY <1>3, CrashKeepsIInv, RestartKeepsIInv
  <1>4. ASSUME NEW n \in Nodes, NEW id \in Ids, HandleRequestTimeout(n, id) PROVE IInv'
    BY <1>4, TimeoutKeepsIInv
  <1>5. ASSUME NEW run \in runs, HandlerStep(run) PROVE IInv'
    BY <1>5, CallOtherKeepsIInv, HandlerEndKeepsIInv DEF HandlerStep
  <1>6. ASSUME NEW id \in Ids, Stalled(id) PROVE IInv'
    BY <1>6, StalledKeepsIInv
  <1>7. CASE UNCHANGED vars
    BY <1>7
    DEF vars, rpcVars, nodeVars, queueVars, replyVars, IInv, TypeOK, IdInv, AnswerInv,
        UnissuedIsBlank, IssuedIsKnown, QueuedIsIssued, InboxOf, ActiveIsIssued, RunIsUp,
        InflightIsPending, ResponseIsReply, PassedOnIsSettled, OwnAnswer
  <1> QED
    BY <1>1, <1>2, <1>3, <1>4, <1>5, <1>6, <1>7 DEF Next

\* The invariant that the others follow from.
THEOREM Invariance == SafeSpec => []IInv
  BY InitIInv, NextKeepsIInv, PTL DEF SafeSpec

\* Tables, queues and nodes always hold what their types say: no job is given out
\* more often than the queue system allows, no response inbox of a dead node is read.
THEOREM TypeCorrect == SafeSpec => []TypeOK
  <1>1. IInv => TypeOK
    BY DEF IInv
  <1> QED
    BY Invariance, <1>1, PTL

\* Whatever stalls, crashes, restarts and is passed on: a caller's promise is
\* resolved only with a response that was computed for its own request.
THEOREM AnswersAreOwn == SafeSpec => []OwnAnswer
  <1>1. IInv => OwnAnswer
    BY DEF IInv, AnswerInv
  <1> QED
    BY Invariance, <1>1, PTL

\* A response that a handler passed on under a foreign id never meets a waiting
\* request: nobody is given somebody else's answer by it, and nobody is helped.
StrayFindsNobody ==
    \A r \in replies : r.requestId # r.of => \A n \in Nodes : r.requestId \notin inflight[n]

THEOREM StraysAreDropped == SafeSpec => []StrayFindsNobody
  <1>1. IInv => StrayFindsNobody
    BY DEF IInv, AnswerInv, PassedOnIsSettled, InflightIsPending, StrayFindsNobody,
           TypeOK, Responses
  <1> QED
    BY Invariance, <1>1, PTL

-----------------------------------------------------------------------------
\* A job that was given out is not in the queue ...
QueuedIsNotActive == \A i \in Inboxes : \A id \in waiting[i] : id \notin active

\* ... and its last worker has it, unless that one crashed.
LastRunOf(id) == \E run \in runs : run.id = id /\ run.attempt = attempts[id]
ActiveHasWorker == \A id \in active : LastRunOf(id) \/ crashes > 0

\* What ReplyOrReason says, with a handler that runs counted only after the last
\* time its job was given out: before, its crash would leave no trace.
LeavesWithReason ==
    \A id \in 1..issued : request[id].type = "request" =>
        \/ Queued(id) \/ id \in active
        \/ Replied(id)
        \/ id \in unhandled \/ PassedOn(id)
        \/ attempts[id] = MaxAttempts /\ (Running(id) \/ crashes > 0)

WorkInv == QueuedIsNotActive /\ ActiveHasWorker /\ LeavesWithReason

LEMMA InitWorkInv == Init => WorkInv
  <1> SUFFICES ASSUME Init PROVE WorkInv
    OBVIOUS
  <1>1. QueuedIsNotActive /\ ActiveHasWorker
    BY DEF Init, QueuedIsNotActive, ActiveHasWorker
  <1>2. LeavesWithReason
    BY DEF Init, LeavesWithReason
  <1> QED
    BY <1>1, <1>2 DEF WorkInv

\* Steps that move no job, end no handler and issue no request.
LEMMA OtherStepsKeepWorkInv ==
    ASSUME IInv, WorkInv,
           UNCHANGED <<issued, request, queueVars, runs, replies, unhandled, crashes>>
    PROVE  WorkInv'
  BY DEF WorkInv, queueVars, QueuedIsNotActive, ActiveHasWorker, LastRunOf, LeavesWithReason,
         Queued, InboxOf, Replied, PassedOn, Running

\* A request that is sent is queued; the handlers go on.
LEMMA SendKeepsWorkInv ==
    ASSUME IInv, WorkInv, NEW n \in up, NEW url \in Urls,
           NEW type \in {"request", "fireAndForget"}, Send(n, url, type),
           \A r \in runs : \E s \in runs' : s.id = r.id /\ s.attempt = r.attempt
    PROVE  WorkInv'
  <1> DEFINE id == issued + 1
  <1>1. TypeOK /\ id \in Ids /\ issued' = id /\ issued \in Nat /\ Inbox[url] \in Inboxes
    <2>1. TypeOK /\ id <= MaxRequests /\ issued' = id /\ Inbox[url] \in Inboxes
      BY DEF Send, IInv, Inboxes
    <2> QED
      BY <2>1 DEF TypeOK, Ids
  <1>2. /\ request' = [request EXCEPT ![id] = [url |-> url, from |-> n, type |-> type]]
        /\ waiting' = [waiting EXCEPT ![Inbox[url]] = @ \cup {id}]
        /\ UNCHANGED <<crashes, active, attempts, replies, unhandled>>
    BY DEF Send, replyVars
  <1>3. QueuedIsNotActive'
    <2>1. id \notin active
      BY <1>1 DEF IInv, IdInv, ActiveIsIssued
    <2> QED
      BY <1>1, <1>2, <2>1 DEF WorkInv, QueuedIsNotActive, TypeOK
  <1>4. \A j \in Ids : /\ Running(j) => Running(j)'
                       /\ LastRunOf(j) => LastRunOf(j)'
    BY <1>2 DEF Running, LastRunOf
  <1>5. ActiveHasWorker'
    BY <1>1, <1>2, <1>4 DEF WorkInv, ActiveHasWorker, TypeOK
  <1>6. LeavesWithReason'
    <2> SUFFICES ASSUME NEW j \in 1..issued', request'[j].type = "request"
                 PROVE  \/ Queued(j)' \/ j \in active'
                        \/ Replied(j)'
                        \/ j \in unhandled' \/ PassedOn(j)'
                        \/ attempts'[j] = MaxAttempts /\ (Running(j)' \/ crashes' > 0)
      BY DEF LeavesWithReason
    <2>1. CASE j = id
      <3>1. request'[j].url = url /\ j \in waiting'[Inbox[url]]
        BY <1>1, <1>2, <2>1 DEF TypeOK
      <3>2. Queued(j)'
        BY <3>1 DEF Queued, InboxOf
      <3> QED
        BY <2>1, <3>2
    <2>2. CASE j # id
      <3>1. j \in 1..issued /\ j \in Ids /\ request'[j] = request[j]
        BY <1>1, <1>2, <2>2 DEF TypeOK, Ids
      <3>2. request[j].url \in Urls
        BY <3>1 DEF IInv, IdInv, IssuedIsKnown, Requests
      <3>3. InboxOf(j)' = InboxOf(j) /\ InboxOf(j) \in Inboxes
        BY <3>1, <3>2 DEF InboxOf, Inboxes
      <3>4. Queued(j) => Queued(j)'
        BY <1>1, <1>2, <3>3 DEF Queued, TypeOK
      <3>5. Replied(j)' = Replied(j) /\ PassedOn(j)' = PassedOn(j)
        BY <1>2 DEF Replied, PassedOn
      <3>6. \/ Queued(j) \/ j \in active
            \/ Replied(j)
            \/ j \in unhandled \/ PassedOn(j)
            \/ attempts[j] = MaxAttempts /\ (Running(j) \/ crashes > 0)
        BY <3>1 DEF WorkInv, LeavesWithReason
      <3> QED
        BY <1>2, <1>4, <3>1, <3>4, <3>5, <3>6
    <2> QED
      BY <2>1, <2>2
  <1> QED
    BY <1>3, <1>5, <1>6 DEF WorkInv

LEMMA CallOtherKeepsWorkInv ==
    ASSUME IInv, WorkInv, NEW run \in runs, CallOther(run)
    PROVE  WorkInv'
  <1>1. run \in Runs /\ run.id \in Ids /\ run.id <= issued /\ run.node \in up
    BY RunFields
  <1>2. request[run.id].url \in Urls
    BY <1>1 DEF IInv, IdInv, IssuedIsKnown, Requests
  <1>3. Calls[request[run.id].url] \in Urls
        /\ Send(run.node, Calls[request[run.id].url], "request")
        /\ runs' = (runs \ {run}) \cup {[run EXCEPT !.child = issued + 1]}
    BY <1>2 DEF CallOther
  <1>4. /\ [run EXCEPT !.child = issued + 1].id = run.id
        /\ [run EXCEPT !.child = issued + 1].attempt = run.attempt
    BY <1>1 DEF Runs
  <1>5. \A r \in runs : \E s \in runs' : s.id = r.id /\ s.attempt = r.attempt
    BY <1>3, <1>4
  <1> QED
    BY <1>1, <1>3, <1>5, SendKeepsWorkInv

\* A job that leaves the queue has a worker, or none that can work on it.
LEMMA RequestHandlerKeepsWorkInv ==
    ASSUME IInv, WorkInv, NEW n \in Nodes, NEW id \in Ids, RequestHandler(n, id)
    PROVE  WorkInv'
  <1>1. PICK i \in Inboxes : id \in waiting[i]
    BY DEF RequestHandler, IInv, TypeOK
  <1>2. TypeOK /\ i = InboxOf(id) /\ id \notin active /\ attempts[id] \in Nat
    BY <1>1 DEF IInv, TypeOK, IdInv, QueuedIsIssued, WorkInv, QueuedIsNotActive
  <1>3. /\ waiting' = [waiting EXCEPT ![i] = @ \ {id}]
        /\ attempts' = [attempts EXCEPT ![id] = @ + 1]
        /\ \/ /\ active' = active \cup {id}
              /\ runs' = runs \cup {[id |-> id, attempt |-> attempts[id] + 1,
                                     node |-> n, child |-> 0]}
              /\ unhandled' = unhandled
           \/ unhandled' = unhandled \cup {id} /\ active' = active /\ runs' = runs
        /\ UNCHANGED <<issued, request, crashes, replies>>
    BY <1>2 DEF RequestHandler, rpcVars, nodeVars
  <1>4. \A j \in Inboxes : waiting'[j] = IF j = i THEN waiting[j] \ {id} ELSE waiting[j]
    BY <1>1, <1>2, <1>3 DEF TypeOK
  <1>5. QueuedIsNotActive'
    <2>1. \A j \in Inboxes : id \notin waiting'[j]
      BY <1>2, <1>4 DEF IInv, IdInv, QueuedIsIssued
    <2>2. \A j \in Inboxes : waiting'[j] \subseteq waiting[j]
      BY <1>4
    <2>3. active' \subseteq active \cup {id}
      BY <1>3
    <2> QED
      BY <2>1, <2>2, <2>3 DEF WorkInv, QueuedIsNotActive
  <1>6. ActiveHasWorker'
    <2> SUFFICES ASSUME NEW j \in active' PROVE LastRunOf(j)' \/ crashes' > 0
      BY DEF ActiveHasWorker
    <2>1. CASE j = id
      <3>1. attempts'[id] = attempts[id] + 1
        BY <1>2, <1>3 DEF TypeOK
      <3>2. [id |-> id, attempt |-> attempts[id] + 1, node |-> n, child |-> 0] \in runs'
        BY <1>2, <1>3, <2>1
      <3> QED
        BY <2>1, <3>1, <3>2 DEF LastRunOf
    <2>2. CASE j # id
      <3>1. j \in active /\ j \in Ids /\ attempts'[j] = attempts[j] /\ runs \subseteq runs'
        BY <1>2, <1>3, <2>2 DEF TypeOK
      <3> QED
        BY <1>3, <3>1 DEF LastRunOf, WorkInv, ActiveHasWorker
    <2> QED
      BY <2>1, <2>2
  <1>7. LeavesWithReason'
    <2> SUFFICES ASSUME NEW j \in 1..issued, request[j].type = "request"
                 PROVE  \/ Queued(j)' \/ j \in active'
                        \/ Replied(j)'
                        \/ j \in unhandled' \/ PassedOn(j)'
                        \/ attempts'[j] = MaxAttempts /\ (Running(j)' \/ crashes' > 0)
      BY <1>3 DEF LeavesWithReason
    <2>1. CASE j = id
      BY <1>3, <2>1
    <2>2. CASE j # id
      <3>1. j \in Ids /\ attempts'[j] = attempts[j] /\ runs \subseteq runs'
            /\ active \subseteq active' /\ unhandled \subseteq unhandled'
        BY <1>2, <1>3, <2>2 DEF TypeOK, Ids
      <3>2. InboxOf(j)' = InboxOf(j) /\ InboxOf(j) \in Inboxes
        BY <1>3, <3>1 DEF InboxOf, Inboxes, IInv, IdInv, IssuedIsKnown, Requests
      <3>3. Queued(j) => Queued(j)'
        BY <1>4, <2>2, <3>2 DEF Queued
      <3>4. Replied(j)' = Replied(j) /\ PassedOn(j)' = PassedOn(j)
            /\ (Running(j) => Running(j)')
        BY <1>3, <3>1 DEF Replied, PassedOn, Running
      <3> QED
        BY <1>3, <3>1, <3>3, <3>4 DEF WorkInv, LeavesWithReason
    <2> QED
      BY <2>1, <2>2
  <1> QED
    BY <1>5, <1>6, <1>7 DEF WorkInv

\* A handler that ends replies if there is somebody to reply to, and its job is
\* finished if it was not given out again.
LEMMA FinishKeepsWorkInv ==
    ASSUME IInv, WorkInv, NEW run \in runs, NEW requestId \in Ids, NEW result \in {"ok", "error"},
           Finish(run, requestId, result)
    PROVE  WorkInv'
  <1> DEFINE r == Response(run, requestId, result)
  <1>1. TypeOK /\ run.id \in Ids /\ r.requestId = requestId /\ r.of = run.id
    BY RunFields DEF IInv, Response
  <1>2. /\ runs' = runs \ {run}
        /\ active' = IF attempts[run.id] = run.attempt THEN active \ {run.id} ELSE active
        /\ UNCHANGED <<issued, request, crashes, waiting, attempts, unhandled>>
        /\ request[run.id].type = "request" => replies' = replies \cup {r}
        /\ replies \subseteq replies'
    BY DEF Finish, Response, rpcVars, nodeVars
  <1>3. QueuedIsNotActive'
    BY <1>2 DEF WorkInv, QueuedIsNotActive
  <1>4. ActiveHasWorker'
    <2> SUFFICES ASSUME NEW j \in active', LastRunOf(j) PROVE LastRunOf(j)'
      BY <1>2 DEF WorkInv, ActiveHasWorker
    <2>1. PICK s \in runs : s.id = j /\ s.attempt = attempts[j]
      BY DEF LastRunOf
    <2>2. s # run
      BY <1>2, <2>1
    <2> QED
      BY <1>2, <2>1, <2>2 DEF LastRunOf
  <1>5. LeavesWithReason'
    <2> SUFFICES ASSUME NEW j \in 1..issued, request[j].type = "request"
                 PROVE  \/ Queued(j)' \/ j \in active'
                        \/ Replied(j)'
                        \/ j \in unhandled' \/ PassedOn(j)'
                        \/ attempts'[j] = MaxAttempts /\ (Running(j)' \/ crashes' > 0)
      BY <1>2 DEF LeavesWithReason
    <2>1. CASE j = run.id
      BY <1>1, <1>2, <2>1 DEF Replied, PassedOn
    <2>2. CASE j # run.id
      <3>1. Queued(j)' = Queued(j) /\ (Replied(j) => Replied(j)')
            /\ (PassedOn(j) => PassedOn(j)')
        BY <1>2 DEF Queued, InboxOf, Replied, PassedOn
      <3>2. (Running(j) => Running(j)') /\ (j \in active => j \in active')
        BY <1>2, <2>2 DEF Running
      <3> QED
        BY <1>2, <3>1, <3>2 DEF WorkInv, LeavesWithReason
    <2> QED
      BY <2>1, <2>2
  <1> QED
    BY <1>3, <1>4, <1>5 DEF WorkInv

LEMMA HandlerEndKeepsWorkInv ==
    ASSUME IInv, WorkInv, NEW run \in runs,
           FinishAlone(run) \/ FinishWithOwnResult(run) \/ FinishPassingOn(run)
    PROVE  WorkInv'
  <1>1. run.id \in Ids /\ run.child \in Ids \cup {0}
    BY RunFields DEF Runs
  <1>2. CASE FinishAlone(run) \/ FinishWithOwnResult(run)
    BY <1>1, <1>2, FinishKeepsWorkInv DEF FinishAlone, FinishWithOwnResult
  <1>3. CASE FinishPassingOn(run)
    <2>1. run.child \in Ids /\ Finish(run, run.child, ChildResult(run.child))
      BY <1>1, <1>3 DEF FinishPassingOn
    <2>2. ChildResult(run.child) \in {"ok", "error"}
      BY <2>1 DEF ChildResult, IInv, AnswerInv, OwnAnswer, TypeOK, Responses
    <2> QED
      BY <2>1, <2>2, FinishKeepsWorkInv
  <1> QED
    BY <1>2, <1>3

\* A job that lost its worker is queued again, or was given out for the last time
\* and has one nevertheless, or there was a crash.
LEMMA StalledKeepsWorkInv ==
    ASSUME IInv, WorkInv, NEW id \in Ids, Stalled(id)
    PROVE  WorkInv'
  <1>1. TypeOK /\ id \in active /\ id <= issued /\ attempts[id] \in 0..MaxAttempts
        /\ MaxAttempts \in Nat
    BY DEF Stalled, IInv, TypeOK, IdInv, ActiveIsIssued
  <1>2. InboxOf(id) \in Inboxes
    BY <1>1 DEF InboxOf, Inboxes, IInv, IdInv, IssuedIsKnown, Requests
  <1>3. /\ active' = active \ {id}
        /\ waiting' = IF attempts[id] < MaxAttempts
                      THEN [waiting EXCEPT ![InboxOf(id)] = @ \cup {id}] ELSE waiting
        /\ UNCHANGED <<issued, request, crashes, attempts, runs, replies, unhandled>>
    BY DEF Stalled, rpcVars, nodeVars, replyVars
  <1>4. \A i \in Inboxes : /\ waiting'[i] \subseteq waiting[i] \cup {id}
                           /\ waiting[i] \subseteq waiting'[i]
    BY <1>1, <1>2, <1>3 DEF TypeOK
  <1>5. QueuedIsNotActive'
    BY <1>3, <1>4 DEF WorkInv, QueuedIsNotActive
  <1>6. ActiveHasWorker'
    BY <1>3 DEF WorkInv, ActiveHasWorker, LastRunOf
  <1>7. LeavesWithReason'
    <2> SUFFICES ASSUME NEW j \in 1..issued, request[j].type = "request"
                 PROVE  \/ Queued(j)' \/ j \in active'
                        \/ Replied(j)'
                        \/ j \in unhandled' \/ PassedOn(j)'
                        \/ attempts'[j] = MaxAttempts /\ (Running(j)' \/ crashes' > 0)
      BY <1>3 DEF LeavesWithReason
    <2>1. CASE j = id /\ attempts[id] < MaxAttempts
      BY <1>1, <1>2, <1>3, <2>1 DEF Queued, InboxOf, TypeOK
    <2>2. CASE j = id /\ ~ (attempts[id] < MaxAttempts)
      <3>1. attempts'[id] = MaxAttempts
        BY <1>1, <1>3, <2>2
      <3>2. LastRunOf(id) \/ crashes > 0
        BY <1>1 DEF WorkInv, ActiveHasWorker
      <3>3. Running(id)' \/ crashes' > 0
        BY <1>3, <3>2 DEF LastRunOf, Running
      <3> QED
        BY <2>2, <3>1, <3>3
    <2>3. CASE j # id
      <3>1. InboxOf(j)' = InboxOf(j) /\ InboxOf(j) \in Inboxes
        BY <1>1, <1>3 DEF InboxOf, Inboxes, IInv, IdInv, IssuedIsKnown, Requests, Ids, TypeOK
      <3>2. Queued(j) => Queued(j)'
        BY <1>4, <3>1 DEF Queued
      <3>3. Replied(j)' = Replied(j) /\ PassedOn(j)' = PassedOn(j) /\ Running(j)' = Running(j)
        BY <1>3 DEF Replied, PassedOn, Running
      <3> QED
        BY <1>3, <2>3, <3>2, <3>3 DEF WorkInv, LeavesWithReason
    <2> QED
      BY <2>1, <2>2, <2>3
  <1> QED
    BY <1>5, <1>6, <1>7 DEF WorkInv

\* From the first crash on, there is one.
LEMMA CrashKeepsWorkInv ==
    ASSUME IInv, WorkInv, NEW n \in Nodes, Crash(n)
    PROVE  WorkInv'
  <1>1. /\ crashes' > 0
        /\ UNCHANGED <<issued, request, waiting, active, attempts, replies, unhandled>>
    BY DEF Crash, queueVars, replyVars, IInv, TypeOK
  <1>2. QueuedIsNotActive' /\ ActiveHasWorker'
    BY <1>1 DEF WorkInv, QueuedIsNotActive, ActiveHasWorker
  <1>3. LeavesWithReason'
    BY <1>1 DEF WorkInv, LeavesWithReason, Queued, InboxOf, Replied, PassedOn
  <1> QED
    BY <1>2, <1>3 DEF WorkInv

LEMMA NextKeepsWorkInv == IInv /\ WorkInv /\ [Next]_vars => WorkInv'
  <1> SUFFICES ASSUME IInv, WorkInv, [Next]_vars PROVE WorkInv'
    OBVIOUS
  <1>1. ASSUME NEW n \in Nodes, NEW url \in Urls, NEW type \in {"request", "fireAndForget"},
               ClientRequest(n, url, type)
        PROVE  WorkInv'
    BY <1>1, SendKeepsWorkInv DEF ClientRequest
  <1>2. ASSUME NEW n \in Nodes, Work(n) PROVE WorkInv'
    <2>1. ASSUME NEW url \in Urls, AddRequestHandler(n, url) PROVE WorkInv'
      BY <2>1, OtherStepsKeepWorkInv DEF AddRequestHandler, rpcVars, replyVars
    <2>2. ASSUME NEW r \in Responses, ResponseHandler(n, r) PROVE WorkInv'
      BY <2>2, OtherStepsKeepWorkInv DEF ResponseHandler, nodeVars
    <2> QED
      BY <1>2, <2>1, <2>2, RequestHandlerKeepsWorkInv DEF Work
  <1>3. ASSUME NEW n \in Nodes, Crash(n) PROVE WorkInv'
    BY <1>3, CrashKeepsWorkInv
  <1>4. ASSUME NEW n \in Nodes, Restart(n) PROVE WorkInv'
    BY <1>4, OtherStepsKeepWorkInv DEF Restart, rpcVars, replyVars
  <1>5. ASSUME NEW n \in Nodes, NEW id \in Ids, HandleRequestTimeout(n, id) PROVE WorkInv'
    BY <1>5, OtherStepsKeepWorkInv DEF HandleRequestTimeout, nodeVars, replyVars
  <1>6. ASSUME NEW run \in runs, HandlerStep(run) PROVE WorkInv'
    BY <1>6, CallOtherKeepsWorkInv, HandlerEndKeepsWorkInv DEF HandlerStep
  <1>7. ASSUME NEW id \in Ids, Stalled(id) PROVE WorkInv'
    BY <1>7, StalledKeepsWorkInv
  <1>8. CASE UNCHANGED vars
    BY <1>8, OtherStepsKeepWorkInv DEF vars, rpcVars, nodeVars, replyVars
  <1> QED
    BY <1>1, <1>2, <1>3, <1>4, <1>5, <1>6, <1>7, <1>8 DEF Next

\* No request is dropped in silence: one that left the queue is being worked on or
\* was answered, or it found no handler, another response was passed on for it, or
\* it was given out for the last time and there was a crash (ReplyOrReason).
THEOREM RequestsAreNotLost == SafeSpec => []ReplyOrReason
  <1>1. WorkInv => ReplyOrReason
    BY DEF WorkInv, LeavesWithReason, ReplyOrReason
  <1>2. SafeSpec => []WorkInv
    BY Invariance, InitWorkInv, NextKeepsWorkInv, PTL DEF SafeSpec
  <1> QED
    BY <1>1, <1>2, PTL

-----------------------------------------------------------------------------
\* A step that leaves the requests and their promises alone is a stutter.
LEMMA QuietStep ==
    ASSUME NEW n \in Nodes, UNCHANGED <<request, promise, answer>>
    PROVE  UNCHANGED <<PromisesOf(n), AnswersOf(n)>>
  BY DEF PromisesOf, AnswersOf

LEMMA SendImplements ==
    ASSUME IInv, NEW n \in Nodes, NEW m \in up, NEW url \in Urls,
           NEW type \in {"request", "fireAndForget"}, Send(m, url, type)
    PROVE  [Lifecycle(n)!Next]_<<PromisesOf(n), AnswersOf(n)>>
  <1> DEFINE id == issued + 1
  <1>1. TypeOK /\ id \in Ids /\ id > issued
    BY DEF Send, IInv, TypeOK, Ids
  <1>2. promise[id] = "unsent" /\ answer[id] = None
    BY <1>1 DEF IInv, IdInv, UnissuedIsBlank
  <1>3. /\ request' = [request EXCEPT ![id] = [url |-> url, from |-> m, type |-> type]]
        /\ promise' = [promise EXCEPT ![id] = IF type = "request" THEN "pending" ELSE @]
        /\ answer' = answer
    BY <1>1 DEF Send, TypeOK
  <1>4. /\ request'[id].from = m
        /\ \A j \in Ids : j # id => request'[j] = request[j] /\ promise'[j] = promise[j]
    BY <1>1, <1>3 DEF TypeOK
  <1>5. AnswersOf(n)' = AnswersOf(n)
    BY <1>1, <1>2, <1>3, <1>4 DEF AnswersOf
  <1>6. PromisesOf(n)[id] = "unsent"
    BY <1>1, <1>2 DEF PromisesOf
  <1>7. CASE m = n /\ type = "request"
    <2>1. promise'[id] = "pending"
      BY <1>1, <1>3, <1>7 DEF TypeOK
    <2>2. PromisesOf(n)' = [PromisesOf(n) EXCEPT ![id] = "pending"]
      BY <1>1, <1>4, <1>7, <2>1 DEF PromisesOf
    <2> QED
      BY <1>1, <1>5, <1>6, <2>2 DEF Lifecycle!Next, Lifecycle!Issue
  <1>8. CASE ~(m = n /\ type = "request")
    <2>1. request'[id].from = n => promise'[id] = "unsent"
      BY <1>1, <1>2, <1>3, <1>4, <1>8 DEF TypeOK
    <2>2. PromisesOf(n)' = PromisesOf(n)
      BY <1>1, <1>2, <1>4, <2>1 DEF PromisesOf
    <2> QED
      BY <1>5, <2>2
  <1> QED
    BY <1>7, <1>8

LEMMA ResponseImplements ==
    ASSUME IInv, NEW n \in Nodes, NEW m \in Nodes, NEW r \in Responses, ResponseHandler(m, r)
    PROVE  [Lifecycle(n)!Next]_<<PromisesOf(n), AnswersOf(n)>>
  <1> DEFINE id == r.requestId
  <1>1. TypeOK /\ id \in Ids /\ request' = request
    BY DEF IInv, Responses, ResponseHandler
  <1>2. CASE id \notin inflight[m]
    <2>1. UNCHANGED <<request, promise, answer>>
      BY <1>2 DEF ResponseHandler
    <2> QED
      BY <2>1, QuietStep
  <1>3. CASE id \in inflight[m]
    <2>1. promise[id] = "pending" /\ request[id].from = m
      BY <1>1, <1>3 DEF IInv, AnswerInv, InflightIsPending
    <2>2. /\ promise' = [promise EXCEPT ![id] = "answered"]
          /\ answer' = [answer EXCEPT ![id] = r]
      BY <1>3 DEF ResponseHandler
    <2>3. CASE m = n
      <3>1. PromisesOf(n)[id] = "pending"
        BY <1>1, <2>1, <2>3 DEF PromisesOf
      <3>2. PromisesOf(n)' = [PromisesOf(n) EXCEPT ![id] = "answered"]
        BY <1>1, <2>1, <2>2, <2>3 DEF PromisesOf, TypeOK
      <3>3. AnswersOf(n)' = [AnswersOf(n) EXCEPT ![id] = r]
        BY <1>1, <2>1, <2>2, <2>3 DEF AnswersOf, TypeOK
      <3> QED
        BY <1>1, <3>1, <3>2, <3>3 DEF Lifecycle!Next, Lifecycle!Answer
    <2>4. CASE m # n
      BY <1>1, <2>1, <2>2, <2>4 DEF PromisesOf, AnswersOf, TypeOK
    <2> QED
      BY <2>3, <2>4
  <1> QED
    BY <1>2, <1>3

LEMMA TimeoutImplements ==
    ASSUME IInv, NEW n \in Nodes, NEW m \in Nodes, NEW id \in Ids, HandleRequestTimeout(m, id)
    PROVE  [Lifecycle(n)!Next]_<<PromisesOf(n), AnswersOf(n)>>
  <1>1. TypeOK /\ promise[id] = "pending" /\ request[id].from = m
    BY DEF HandleRequestTimeout, IInv, AnswerInv, InflightIsPending
  <1>2. promise' = [promise EXCEPT ![id] = "expired"] /\ UNCHANGED <<request, answer>>
    BY DEF HandleRequestTimeout
  <1>3. AnswersOf(n)' = AnswersOf(n)
    BY <1>2 DEF AnswersOf
  <1>4. CASE m = n
    <2>1. PromisesOf(n)[id] = "pending"
      BY <1>1, <1>4 DEF PromisesOf
    <2>2. PromisesOf(n)' = [PromisesOf(n) EXCEPT ![id] = "expired"]
      BY <1>1, <1>2, <1>4 DEF PromisesOf, TypeOK
    <2> QED
      BY <1>3, <2>1, <2>2 DEF Lifecycle!Next, Lifecycle!Expire
  <1>5. CASE m # n
    <2>1. PromisesOf(n)' = PromisesOf(n)
      BY <1>1, <1>2, <1>5 DEF PromisesOf, TypeOK
    <2> QED
      BY <1>3, <2>1
  <1> QED
    BY <1>4, <1>5

\* A crash of the node abandons all that was pending there; the crash of another
\* node does nothing to it.
LEMMA CrashImplements ==
    ASSUME IInv, NEW n \in Nodes, NEW m \in Nodes, Crash(m)
    PROVE  [Lifecycle(n)!Next]_<<PromisesOf(n), AnswersOf(n)>>
  <1>1. TypeOK
    BY DEF IInv
  <1>2. /\ promise' = [id \in Ids |-> IF id \in inflight[m] THEN "abandoned" ELSE promise[id]]
        /\ UNCHANGED <<request, answer>>
    BY DEF Crash
  <1>3. \A id \in Ids : id \in inflight[m] <=> promise[id] = "pending" /\ request[id].from = m
    BY DEF IInv, AnswerInv, InflightIsPending
  <1>4. AnswersOf(n)' = AnswersOf(n)
    BY <1>2 DEF AnswersOf
  <1>5. CASE m = n
    <2>1. PromisesOf(n)' = [id \in Ids |-> IF PromisesOf(n)[id] = "pending"
                                           THEN "abandoned" ELSE PromisesOf(n)[id]]
      BY <1>2, <1>3, <1>5 DEF PromisesOf
    <2> QED
      BY <1>4, <2>1 DEF Lifecycle!Next, Lifecycle!Abandon
  <1>6. CASE m # n
    <2>1. PromisesOf(n)' = PromisesOf(n)
      BY <1>2, <1>3, <1>6 DEF PromisesOf
    <2> QED
      BY <1>4, <2>1
  <1> QED
    BY <1>5, <1>6

\* Every step is, to each node, a step of the abstract transport or a stutter.
LEMMA StepImplements ==
    ASSUME IInv, [Next]_vars, NEW n \in Nodes
    PROVE  [Lifecycle(n)!Next]_<<PromisesOf(n), AnswersOf(n)>>
  <1>1. ASSUME NEW m \in Nodes, NEW url \in Urls, NEW type \in {"request", "fireAndForget"},
               ClientRequest(m, url, type)
        PROVE  [Lifecycle(n)!Next]_<<PromisesOf(n), AnswersOf(n)>>
    BY <1>1, SendImplements DEF ClientRequest
  <1>2. ASSUME NEW m \in Nodes, Work(m)
        PROVE  [Lifecycle(n)!Next]_<<PromisesOf(n), AnswersOf(n)>>
    <2>1. CASE \E url \in Urls : AddRequestHandler(m, url)
      BY <2>1, QuietStep DEF AddRequestHandler, rpcVars
    <2>2. CASE \E id \in Ids : RequestHandler(m, id)
      BY <2>2, QuietStep DEF RequestHandler, rpcVars
    <2>3. CASE \E r \in Responses : ResponseHandler(m, r)
      BY <2>3, ResponseImplements
    <2> QED
      BY <1>2, <2>1, <2>2, <2>3 DEF Work
  <1>3. ASSUME NEW m \in Nodes, Crash(m) \/ Restart(m)
        PROVE  [Lifecycle(n)!Next]_<<PromisesOf(n), AnswersOf(n)>>
    <2>1. CASE Crash(m)
      BY <2>1, CrashImplements
    <2>2. CASE Restart(m)
      BY <2>2, QuietStep DEF Restart, rpcVars
    <2> QED
      BY <1>3, <2>1, <2>2
  <1>4. ASSUME NEW m \in Nodes, NEW id \in Ids, HandleRequestTimeout(m, id)
        PROVE  [Lifecycle(n)!Next]_<<PromisesOf(n), AnswersOf(n)>>
    BY <1>4, TimeoutImplements
  <1>5. ASSUME NEW run \in runs, HandlerStep(run)
        PROVE  [Lifecycle(n)!Next]_<<PromisesOf(n), AnswersOf(n)>>
    <2>1. CASE CallOther(run)
      <3>1. request[run.id].url \in Urls /\ run.node \in up
        BY RunFields DEF IInv, IdInv, IssuedIsKnown, Requests
      <3>2. Calls[request[run.id].url] \in Urls
            /\ Send(run.node, Calls[request[run.id].url], "request")
        BY <2>1, <3>1 DEF CallOther
      <3> QED
        BY <3>1, <3>2, SendImplements
    <2>2. CASE FinishAlone(run) \/ FinishWithOwnResult(run) \/ FinishPassingOn(run)
      <3>1. UNCHANGED <<request, promise, answer>>
        BY <2>2 DEF FinishAlone, FinishWithOwnResult, FinishPassingOn, Finish, rpcVars
      <3> QED
        BY <3>1, QuietStep
    <2> QED
      BY <1>5, <2>1, <2>2 DEF HandlerStep
  <1>6. ASSUME NEW id \in Ids, Stalled(id)
        PROVE  [Lifecycle(n)!Next]_<<PromisesOf(n), AnswersOf(n)>>
    BY <1>6, QuietStep DEF Stalled, rpcVars
  <1>7. CASE UNCHANGED vars
    BY <1>7, QuietStep DEF vars, rpcVars
  <1> QED
    BY <1>1, <1>2, <1>3, <1>4, <1>5, <1>6, <1>7 DEF Next

\* Each node of the system is a transport as RequestLifecycle describes it: its
\* requests settle once, with a response that names them or by a timeout, and
\* what was pending when it crashes stays without an outcome.
THEOREM NodesImplementLifecycle == SafeSpec => ImplementsLifecycle
  <1>1. Init => \A n \in Nodes : Lifecycle(n)!Init
    <2> SUFFICES ASSUME Init, NEW n \in Nodes PROVE Lifecycle(n)!Init
      OBVIOUS
    <2>1. PromisesOf(n) = [id \in Ids |-> "unsent"] /\ AnswersOf(n) = [id \in Ids |-> None]
      BY DEF Init, PromisesOf, AnswersOf
    <2> QED
      BY <2>1 DEF Lifecycle!Init
  <1>2. IInv /\ [Next]_vars
        => [\A n \in Nodes : [Lifecycle(n)!Next]_<<PromisesOf(n), AnswersOf(n)>>]_vars
    BY StepImplements
  <1> QED
    BY <1>1, <1>2, Invariance, PTL DEF SafeSpec, ImplementsLifecycle
=============================================================================
