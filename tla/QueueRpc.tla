------------------------------ MODULE QueueRpc ------------------------------
(***************************************************************************)
(* Requests between nodes over a queue system: StellarRequest and           *)
(* StellarHandler (packages/core) on top of QueueTransport                  *)
(* (packages/abstract-transport-queue), which is a RemoteTransport.         *)
(*                                                                          *)
(* Each service has one inbox that all its nodes take jobs from, each node  *)
(* one response inbox.  A handler runs to completion, or makes a request of *)
(* its own and waits for it.  Any callback may run before any other.        *)
(*                                                                          *)
(* The queue system (external, Bull on Redis as BullRedisQueueSystem sets   *)
(* it up): jobs survive the nodes; a job is given to one worker; when its   *)
(* worker dies or loses the job's lock, the job is given out once more      *)
(* (MaxAttempts in all) and then dropped.  Redis itself does not fail.      *)
(*                                                                          *)
(* Every request has a timeout (factory.js:50), so in this module the armed *)
(* timers are the inflight requests (RemoteTransport!InflightHasTimer);     *)
(* reset() is left to RemoteTransport.                                      *)
(***************************************************************************)
EXTENDS Naturals, FiniteSets

CONSTANTS
    Nodes,
    Clients,     \* the nodes whose program makes requests of its own accord
    Urls,        \* headers.queueName
    Inbox,       \* Inbox[url]: getServiceInbox(url)
    Serves,      \* Serves[n]: the urls the program of n adds handlers for
    Calls,       \* Calls[url]: the url its handler may make a request to, or None
    None,
    MaxRequests, \* bound: requests made in a behaviour
    Concurrency, \* jobs of one inbox that a node works on at once (QueueTransport.js:11)
    MaxAttempts, \* times the queue system gives out one job
    MaxCrashes   \* bound: nodes that crash in a behaviour

ASSUME QueueRpcAssumption ==
    /\ None \notin Nodes \cup Urls
    /\ Clients \subseteq Nodes
    /\ Serves \in [Nodes -> SUBSET Urls]
    /\ Calls \in [Urls -> Urls \cup {None}]
    /\ MaxRequests \in Nat /\ MaxAttempts \in Nat \ {0} /\ MaxCrashes \in Nat
    /\ Concurrency \in Nat \ {0}

Ids       == 1..MaxRequests
Inboxes   == {Inbox[u] : u \in Urls}
Requests  == [url : Urls, from : Nodes, type : {"request", "fireAndForget"}]
NoRequest == [url |-> None, from |-> None, type |-> None]
Responses == [requestId : Ids, of : Ids, attempt : 1..MaxAttempts,
              result : {"ok", "error"}]
\* An execution of a handler; child is the request it waits for, or 0.
Runs      == [id : Ids, attempt : 1..MaxAttempts, node : Nodes, child : Ids \cup {0}]

VARIABLES
    issued,     \* ids 1..issued have been generated
    request,    \* headers of each request
    promise,    \* what the caller of transport.request() observes
    answer,     \* the response its promise was resolved with
    inflight,   \* inflight[n]: keys of inflightRequests on n
    up,         \* the nodes that run
    crashes,    \* how many crashed so far
    handlers,   \* handlers[n]: keys of registries.requestHandlers on n
    serving,    \* serving[n]: service inboxes in this.inboxes of n
    hearing,    \* nodes that process their response inbox
    waiting,    \* waiting[inbox]: jobs in the queue
    active,     \* jobs that are given out and not finished
    attempts,   \* attempts[id]: times job id was given out
    runs,       \* handlers that are running
    responses,  \* responses[n]: jobs in the response inbox of n
    replies,    \* every response that was ever enqueued
    unhandled   \* requests whose job failed for want of a handler (line 100)

rpcVars    == <<issued, request, promise, answer, inflight>>
nodeVars   == <<up, crashes, handlers, serving, hearing>>
queueVars  == <<waiting, active, attempts>>
replyVars  == <<responses, replies, unhandled>>
vars       == <<rpcVars, nodeVars, queueVars, runs, replyVars>>

Promises == {"unsent", "pending", "answered", "expired", "abandoned"}

TypeOK ==
    /\ issued \in 0..MaxRequests
    /\ request \in [Ids -> Requests \cup {NoRequest}]
    /\ promise \in [Ids -> Promises]
    /\ answer \in [Ids -> Responses \cup {None}]
    /\ inflight \in [Nodes -> SUBSET Ids]
    /\ up \subseteq Nodes
    /\ crashes \in 0..MaxCrashes
    /\ handlers \in [Nodes -> SUBSET Urls]
    /\ serving \in [Nodes -> SUBSET Inboxes]
    /\ hearing \subseteq up
    /\ waiting \in [Inboxes -> SUBSET Ids]
    /\ active \subseteq Ids
    /\ attempts \in [Ids -> 0..MaxAttempts]
    /\ runs \subseteq Runs
    /\ responses \in [Nodes -> SUBSET Responses]
    /\ replies \subseteq Responses
    /\ unhandled \subseteq Ids

Init ==
    /\ issued = 0
    /\ request = [id \in Ids |-> NoRequest]
    /\ promise = [id \in Ids |-> "unsent"]
    /\ answer = [id \in Ids |-> None]
    /\ inflight = [n \in Nodes |-> {}]
    /\ up = Nodes
    /\ crashes = 0
    /\ handlers = [n \in Nodes |-> {}]
    /\ serving = [n \in Nodes |-> {}]
    /\ hearing = {}
    /\ waiting = [i \in Inboxes |-> {}]
    /\ active = {}
    /\ attempts = [id \in Ids |-> 0]
    /\ runs = {}
    /\ responses = [n \in Nodes |-> {}]
    /\ replies = {}
    /\ unhandled = {}

-----------------------------------------------------------------------------
\* Reading the state
Waiting(id) == promise[id] = "pending"
Settled(id) == promise[id] \in {"answered", "expired"}
InboxOf(id) == Inbox[request[id].url]
RunsOf(n, inbox) == {run \in runs : run.node = n /\ InboxOf(run.id) = inbox}

-----------------------------------------------------------------------------
\* Slips in this code, one for each property (PROJECT.json, "mutants").

\* The response inbox is not processed when the first request is sent.
SendDeaf(n, url, type) ==
    LET id == issued + 1 IN
    /\ id <= MaxRequests
    /\ issued' = id
    /\ request' = [request EXCEPT ![id] = [url |-> url, from |-> n, type |-> type]]
    /\ waiting' = [waiting EXCEPT ![Inbox[url]] = @ \cup {id}]
    /\ promise' = [promise EXCEPT ![id] = IF type = "request" THEN "pending" ELSE @]
    /\ inflight' = [inflight EXCEPT ![n] = IF type = "request" THEN @ \cup {id} ELSE @]
    /\ UNCHANGED <<answer, nodeVars, active, attempts, replyVars>>

\* No catch on the handler's promise: an error is not sent back.
FinishDropsErrors(run, requestId, result) ==
    LET id == run.id
        to == request[id].from
        r  == [requestId |-> requestId, of |-> id, attempt |-> run.attempt,
               result |-> result] IN
    /\ run \in runs
    /\ runs' = runs \ {run}
    /\ active' = IF attempts[id] = run.attempt THEN active \ {id} ELSE active
    /\ IF request[id].type = "request" /\ result = "ok"
       THEN /\ responses' = [responses EXCEPT ![to] = @ \cup {r}]
            /\ replies' = replies \cup {r}
       ELSE UNCHANGED <<responses, replies>>
    /\ UNCHANGED <<rpcVars, nodeVars, waiting, attempts, unhandled>>

\* Responses are matched to requests in order, not by requestId.
ResponseToOldest(n, r) ==
    /\ n \in hearing
    /\ r \in responses[n]
    /\ responses' = [responses EXCEPT ![n] = @ \ {r}]
    /\ \E id \in inflight[n] :
         /\ \A other \in inflight[n] : id <= other
         /\ inflight' = [inflight EXCEPT ![n] = @ \ {id}]
         /\ promise' = [promise EXCEPT ![id] = "answered"]
         /\ answer' = [answer EXCEPT ![id] = r]
    /\ UNCHANGED <<issued, request, nodeVars, queueVars, runs, replies, unhandled>>

\* The entry stays in the table.
ResponseKeepsEntry(n, r) ==
    /\ n \in hearing
    /\ r \in responses[n]
    /\ responses' = [responses EXCEPT ![n] = @ \ {r}]
    /\ r.requestId \in inflight[n]
    /\ promise' = [promise EXCEPT ![r.requestId] = "answered"]
    /\ answer' = [answer EXCEPT ![r.requestId] = r]
    /\ UNCHANGED <<issued, request, inflight, nodeVars, queueVars, runs, replies, unhandled>>

TimeoutOnlyDeletes(n, id) ==
    /\ id \in inflight[n]
    /\ inflight' = [inflight EXCEPT ![n] = @ \ {id}]
    /\ UNCHANGED <<issued, request, promise, answer, nodeVars, queueVars, runs, replyVars>>

\* The headers of a response leave out the requestId.
FinishUnnamed(run, requestId, result) ==
    LET id == run.id
        to == request[id].from
        r  == [requestId |-> None, of |-> id, attempt |-> run.attempt, result |-> result] IN
    /\ run \in runs
    /\ runs' = runs \ {run}
    /\ active' = IF attempts[id] = run.attempt THEN active \ {id} ELSE active
    /\ IF request[id].type = "request"
       THEN /\ responses' = [responses EXCEPT ![to] = @ \cup {r}]
            /\ replies' = replies \cup {r}
       ELSE UNCHANGED <<responses, replies>>
    /\ UNCHANGED <<rpcVars, nodeVars, waiting, attempts, unhandled>>

-----------------------------------------------------------------------------
\* QueueTransport.request / fireAndForget, then remoteRequest: the response
\* inbox is processed from the first message on, the job goes to the inbox of
\* the service.  Only a request has headers.respondTo, and waits.
Send(n, url, type) ==
    LET id == issued + 1 IN
    /\ id <= MaxRequests
    /\ issued' = id
    /\ request' = [request EXCEPT ![id] = [url |-> url, from |-> n, type |-> type]]
    /\ waiting' = [waiting EXCEPT ![Inbox[url]] = @ \cup {id}]
    /\ hearing' = hearing \cup {n}
    /\ IF type = "request"
       THEN /\ promise' = [promise EXCEPT ![id] = "pending"]
            /\ inflight' = [inflight EXCEPT ![n] = @ \cup {id}]
       ELSE UNCHANGED <<promise, inflight>>
    /\ UNCHANGED <<answer, up, crashes, handlers, serving, active, attempts, replyVars>>

ClientRequest(n, url, type) ==
    /\ n \in up \cap Clients
    /\ Send(n, url, type)
    /\ UNCHANGED runs

\* StellarHandler.handleRequest -> addRequestHandler
AddRequestHandler(n, url) ==
    /\ n \in up
    /\ url \in Serves[n] \ handlers[n]
    /\ handlers' = [handlers EXCEPT ![n] = @ \cup {url}]
    /\ serving' = [serving EXCEPT ![n] = @ \cup {Inbox[url]}]
    /\ UNCHANGED <<rpcVars, up, crashes, hearing, queueVars, runs, replyVars>>

\* _requestHandler on the worker the queue system picked.  Without a handler
\* for the url the call throws, and a failed job is removed (BULL_OPTIONS).
RequestHandler(n, id) ==
    /\ n \in up
    /\ \E i \in serving[n] : /\ id \in waiting[i]
                             /\ Cardinality(RunsOf(n, i)) < Concurrency
    /\ waiting' = [waiting EXCEPT ![InboxOf(id)] = @ \ {id}]
    /\ attempts' = [attempts EXCEPT ![id] = @ + 1]
    /\ IF request[id].url \in handlers[n]
       THEN /\ active' = active \cup {id}
            /\ runs' = runs \cup {[id |-> id, attempt |-> attempts[id] + 1,
                                   node |-> n, child |-> 0]}
            /\ UNCHANGED unhandled
       ELSE /\ unhandled' = unhandled \cup {id}
            /\ UNCHANGED <<active, runs>>
    /\ UNCHANGED <<rpcVars, nodeVars, responses, replies>>

\* The handler makes the request it depends on.
CallOther(run) ==
    LET url == request[run.id].url IN
    /\ run \in runs
    /\ run.child = 0
    /\ Calls[url] # None
    /\ Send(run.node, Calls[url], "request")
    /\ runs' = (runs \ {run}) \cup {[run EXCEPT !.child = issued + 1]}

\* The promise of the handler settles; sendResponse enqueues the response if
\* there is somebody to respond to, and the job is finished.
Finish(run, requestId, result) ==
    LET id == run.id
        to == request[id].from
        r  == [requestId |-> requestId, of |-> id, attempt |-> run.attempt,
               result |-> result] IN
    /\ run \in runs
    /\ runs' = runs \ {run}
    /\ active' = IF attempts[id] = run.attempt THEN active \ {id} ELSE active
    /\ IF request[id].type = "request"
       THEN /\ responses' = [responses EXCEPT ![to] = @ \cup {r}]
            /\ replies' = replies \cup {r}
       ELSE UNCHANGED <<responses, replies>>
    /\ UNCHANGED <<rpcVars, nodeVars, waiting, attempts, unhandled>>

\* A handler that asked nobody: _handlerResult and _handlerRejection both
\* prepare a response to the request.
FinishAlone(run) ==
    /\ run.child = 0
    /\ \E result \in {"ok", "error"} : Finish(run, run.id, result)

ChildResult(id) ==
    IF promise[id] = "answered" THEN answer[id].result ELSE "error"

\* The request a handler depends on has settled, and the handler returns or
\* throws something of its own: the response is prepared as above.
FinishWithOwnResult(run) ==
    /\ run.child # 0
    /\ Settled(run.child)
    /\ \E result \in {"ok", "error"} : Finish(run, run.id, result)

\* ... or it passes on what it got.  An error of StellarRequest carries a
\* __stellarResponse with this node as its source (line 113), so
\* _handlerRejection rethrows it as it is (line 106); a raw response already
\* has the type "response" (line 97).  Either way what is sent names the
\* request of this node, not the one it was asked to answer.
FinishPassingOn(run) ==
    /\ run.child # 0
    /\ Settled(run.child)
    /\ Finish(run, run.child, ChildResult(run.child))

\* The job of the response inbox: RemoteTransport._responseHandler.  Like any
\* job it may be given out again.
ResponseHandler(n, r) ==
    /\ n \in hearing
    /\ r \in responses[n]
    /\ responses' \in {responses, [responses EXCEPT ![n] = @ \ {r}]}
    /\ IF r.requestId \in inflight[n]
       THEN /\ inflight' = [inflight EXCEPT ![n] = @ \ {r.requestId}]
            /\ promise' = [promise EXCEPT ![r.requestId] = "answered"]
            /\ answer' = [answer EXCEPT ![r.requestId] = r]
       ELSE UNCHANGED <<inflight, promise, answer>>
    /\ UNCHANGED <<issued, request, nodeVars, queueVars, runs, replies, unhandled>>

\* RemoteTransport._handleRequestTimeout
HandleRequestTimeout(n, id) ==
    /\ id \in inflight[n]
    /\ inflight' = [inflight EXCEPT ![n] = @ \ {id}]
    /\ promise' = [promise EXCEPT ![id] = "expired"]
    /\ UNCHANGED <<issued, request, answer, nodeVars, queueVars, runs, replyVars>>

\* The queue system finds that an active job lost its lock: its worker died,
\* or was too busy to renew it and still runs the handler.
Stalled(id) ==
    /\ id \in active
    /\ active' = active \ {id}
    /\ waiting' = IF attempts[id] < MaxAttempts
                  THEN [waiting EXCEPT ![InboxOf(id)] = @ \cup {id}]
                  ELSE waiting
    /\ UNCHANGED <<rpcVars, nodeVars, attempts, runs, replyVars>>

\* The process of n ends and takes everything it held in memory along.
Crash(n) ==
    /\ n \in up
    /\ crashes < MaxCrashes
    /\ crashes' = crashes + 1
    /\ up' = up \ {n}
    /\ hearing' = hearing \ {n}
    /\ handlers' = [handlers EXCEPT ![n] = {}]
    /\ serving' = [serving EXCEPT ![n] = {}]
    /\ inflight' = [inflight EXCEPT ![n] = {}]
    /\ promise' = [id \in Ids |-> IF id \in inflight[n] THEN "abandoned" ELSE promise[id]]
    /\ runs' = {run \in runs : run.node # n}
    /\ UNCHANGED <<issued, request, answer, queueVars, replyVars>>

\* It starts again under the same source (source-generators/env.js), so its
\* response inbox may still hold responses to requests of its former life.
Restart(n) ==
    /\ n \notin up
    /\ up' = up \cup {n}
    /\ UNCHANGED <<rpcVars, crashes, handlers, serving, hearing, queueVars, runs, replyVars>>

Work(n) ==
    \/ \E url \in Urls : AddRequestHandler(n, url)
    \/ \E id \in Ids : RequestHandler(n, id)
    \/ \E r \in Responses : ResponseHandler(n, r)

HandlerStep(run) ==
    CallOther(run) \/ FinishAlone(run) \/ FinishWithOwnResult(run) \/ FinishPassingOn(run)

Next ==
    \/ \E n \in Nodes, url \in Urls, type \in {"request", "fireAndForget"} :
           ClientRequest(n, url, type)
    \/ \E n \in Nodes : Work(n) \/ Crash(n) \/ Restart(n)
    \/ \E n \in Nodes, id \in Ids : HandleRequestTimeout(n, id)
    \/ \E run \in runs : HandlerStep(run)
    \/ \E id \in Ids : Stalled(id)

SafeSpec == Init /\ [][Next]_vars

TimersFire == \A n \in Nodes, id \in Ids : WF_vars(HandleRequestTimeout(n, id))

\* Processes that run take the jobs of their inboxes, and a handler does
\* something in the end.  (The bounds make this much fairness enough for every
\* single job and handler.)
WorkGoesOn == /\ WF_vars(\E n \in Nodes : Work(n))
              /\ WF_vars(\E run \in runs : HandlerStep(run))

\* An armed timer of a running process fires.
Spec == SafeSpec /\ TimersFire

\* All of it; and callers with all the time in the world.
FairSpec    == Spec /\ WorkGoesOn
PatientSpec == SafeSpec /\ WorkGoesOn

-----------------------------------------------------------------------------
\* A promise is resolved only with a response that was computed for its own
\* request, whoever else's response carried whatever requestId.
OwnAnswer ==
    \A id \in Ids : promise[id] = "answered" => /\ answer[id] \in replies
                                                /\ answer[id].of = id

Queued(id)   == id \in waiting[InboxOf(id)]
Running(id)  == \E run \in runs : run.id = id
Replied(id)  == \E r \in replies : r.of = id /\ r.requestId = id
PassedOn(id) == \E r \in replies : r.of = id /\ r.requestId # id

\* A request that left the queue is not dropped in silence: somebody is working
\* on it or it was answered, or else its worker had no handler for the url, the
\* handler passed on another response, or every worker it was given to crashed.
ReplyOrReason ==
    \A id \in 1..issued : request[id].type = "request" =>
        \/ Queued(id) \/ id \in active \/ Running(id)
        \/ Replied(id)
        \/ id \in unhandled \/ PassedOn(id)
        \/ attempts[id] = MaxAttempts /\ crashes > 0

\* No handler waits for ever for a request of its own, even when all the workers
\* that could serve it are taken by handlers that wait too.
HandlersFinish == (runs # {}) ~> (runs = {})

\* With no crash, no handler missing, no timeout and no response passed on,
\* every request is answered.
Undisturbed ==
    /\ crashes = 0
    /\ unhandled = {}
    /\ \A id \in Ids : promise[id] # "expired" /\ ~PassedOn(id)

RequestsAreAnswered ==
    []Undisturbed => \A id \in Ids : Waiting(id) ~> promise[id] = "answered"

-----------------------------------------------------------------------------
\* On every node, transport.request keeps the promise of RequestLifecycle; a
\* crash abandons what was pending.
PromisesOf(n) == [id \in Ids |-> IF request[id].from = n THEN promise[id] ELSE "unsent"]
AnswersOf(n)  == [id \in Ids |-> IF request[id].from = n THEN answer[id] ELSE None]

Lifecycle(n) == INSTANCE RequestLifecycle
                WITH Timed <- Ids, NoAnswer <- None,
                     outcome <- PromisesOf(n), answer <- AnswersOf(n)

\* (\A n \in Nodes : Lifecycle(n)!SafeSpec, with the quantifier moved inward.)
ImplementsLifecycle ==
    /\ \A n \in Nodes : Lifecycle(n)!Init
    /\ [][\A n \in Nodes : [Lifecycle(n)!Next]_<<PromisesOf(n), AnswersOf(n)>>]_vars
=============================================================================
