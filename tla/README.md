# Stellar.js: a TLA+ model, checked and proved

Stellar.js lets services talk by request and response and by publish and
subscribe, over Redis queues (Bull), over engine.io sockets through a bridge,
over HTTP, or in memory.  This directory holds TLA+ modules that model its
protocol code, TLC configurations that check them on small instances, and
proofs that TLAPS checks for every instance.  `PROJECT.json` connects every
definition with the lines it models and lists runs, mutants, findings, hazards
and theorems.  Paths below are relative to `src/packages`.

To run: `tlc -workers 2 -config MCQueueRpc.cfg MCQueueRpc`, and so on for each
configuration; `tlapm QueueRpcProofs.tla`, and so on for each `Proofs` module.

## 1. Inventory

**RemoteTransport** (`abstract-transport/src/RemoteTransport.js`).  State: the
table `inflightRequests` from request id to resolve, reject and timer.
Operations: `request` (entry, timer, `remoteRequest`), `_responseHandler`,
`_handleRequestTimeout`, `reset`.  Hard: responses and timers race; responses
are late, repeated or foreign; `reset` leaves timers running; the promise of
`remoteRequest` is dropped.  Correct when a promise settles at most once, with
its own response, and with a timeout it does settle.

**Transport** (`abstract-transport/src/Transport.js`).  State: the registries of
request handlers and of subscribers, a tree by url, channel and group.
Operations: register, the returned unregister (which says whether the *whole*
registry is empty), `reset`.

**QueueTransport** (`abstract-transport-queue/src`).  State: the inboxes this
node processes.  Operations: `remoteRequest`, `addRequestHandler` and
`_requestHandler` (requests); `subscribe`, `subscribeGroup`, `publish`,
`_subscriptionHandler` and the stoppers (channels); `reset`.  All nodes share the
queue system: one inbox per service, one per service group, one per node for
responses, one per node for subscriptions.  Hard: jobs are given out again when
a worker stalls, workers crash and restart under the same source, urls share an
inbox, handlers wait for requests of their own, a stopper and a `reset` race
with a `subscribe`.  Correct when a caller gets the answer to its own request,
no request vanishes without a reason, a live subscription hears what is
published and a stopped one does not, a group hears a message once.

**Core** (`core/src`).  `StellarRequest`, `StellarHandler` and `StellarPubSub` run
a chain of middlewares around each of these calls; `StellarCore` prepares the
headers of responses and decides what a handler's result or error becomes;
`mwLocalDispatch` skips the transport for local handlers.  State: the chains, which
a handler copies when it is added.  Hard: every level of every chain, on every node
a request passes, rewrites the headers of an error, and other middlewares
(mw-error-reporting, metrics) decide by them.  Correct when a response names its
request, the caller is told what the handler ended with, and an error names the
node where it arose and is reported there.

**BullRedisQueueSystem** (`transport-bull/src`).  State: the queues of this
process; in Redis a sorted set of queues in use and one of subscribers per
channel, with expiry times.  Operations: `enqueue`, `process`, `stopProcessing`,
registration with a refreshing interval, and the periodic tasks `_cleanResources`
and `_removeUnusedQueues`.  Hard: time, lateness, read-then-delete against
concurrent refreshes.  Correct when nothing that is in use expires or is emptied.

**WebsocketTransport** (`transport-socket/src`).  State: the promise of the
socket, its resolver, a 250 ms timer per socket, local subscriptions.
Operations: `setSocket`, `onClose`, `send`, subscribe and stop.

**stellarSocket** (`client-engine.io/src`).  State: `state`, `socket`, `retry`,
`connectedOnce`, the sockets themselves, backoffs.  Operations: `connect`,
`close` and the events of a socket.  Hard: several sockets share the state; the
application calls between any two events.  Correct when there is one connection,
it comes back after a drop, and it stays away after `close` or a refusal.

**engine.io bridge** (`server-bridge/src`).  State: sessions with their client,
`reactiveStoppers` and `offlineFn`.  Operations: connection, session handlers,
messages (request, fireAndForget, subscribe, reactive, stopReactive), close.
Hard: the socket closes between any two steps.  Correct when a client that stays
is answered, and nothing is left of one that goes.

**Redux middleware** (`client-redux/src`).  State: a map of stoppers.  Operations:
subscribe (a `getReactive` whose promise records the stopper), unsubscribe.

**Others.**  HTTP bridge and HTTP transports (one call, one answer);
MemoryTransport (synchronous); logging, metrics, tracing, error reporting and
configuration.

Interaction: core calls a transport; RemoteTransport is the base of
QueueTransport and WebsocketTransport; QueueTransport drives
BullRedisQueueSystem; the bridge is a core client of a QueueTransport on one
side and sends through a WebsocketTransport on the other; stellarSocket tells
the client's WebsocketTransport about its sockets.

## 2. Modules

| module | models | composes |
| --- | --- | --- |
| `RequestLifecycle` | what `transport.request` promises (abstract) | |
| `RemoteTransport` | RemoteTransport.js | implements `RequestLifecycle` |
| `QueueRpc` | requests over QueueTransport on several nodes, with the response headers of StellarCore | implements `RequestLifecycle` on every node |
| `QueuePubSub` | channels over QueueTransport, Transport's registry, registrations in Redis | |
| `BullResources` | registered queues, refresh, cleaner and remover, with time | |
| `WebsocketTransport` | the promise of the socket and the sends that wait for it | |
| `StellarSocket` | connect, reconnect, close | extends `WebsocketTransport` |
| `BridgeSession` | sessions and messages of the engine.io bridge | |
| `BridgedSubscription` | a client's subscriptions over connections that are lost and made again, client-redux | `BridgeSession`, one session per connection |
| `CallChain` | middlewares, results and errors over every kind of hop | |

Each but the abstract ones has an `MC` module with the sets of the instances, and
`<module>Proofs` holds the theorems about it (section 5).  Definitions between
"Slips" comments are the mutated forms that `PROJECT.json` names; no
specification uses them.

### RequestLifecycle and RemoteTransport

The abstract specification has an outcome and an answer per request: issued,
then failed, answered, expired, or abandoned by a reset.  `RemoteTransport` has
the table (`inflight`), the armed timers (`timers`), the promises and the
responses on their way (`wire`).  `Issue` is `request`, in its three outcomes:
handed over, lost in `remoteRequest`, or a synchronous throw.
`ResponseHandler`, `HandleRequestTimeout` and `Reset` are the methods of these
names; `Reply` is whatever answers.  Responses may be repeated, name a request
this node never made, and come at any time.  The refinement mapping takes the
outcome from the promise; a request that a reset forgot is abandoned.

### QueueRpc

`Send` is `request`/`fireAndForget` with `remoteRequest`: the response inbox is
processed from the first message on, and the job goes to the inbox of the
service.  `RequestHandler` is `_requestHandler` on the worker that Bull picked,
at most `Concurrency` per inbox and node.  A handler either returns
(`FinishAlone`) or makes a request of its own (`CallOther`) and returns
something of its own (`FinishWithOwnResult`) or what it got
(`FinishPassingOn`: the two ways StellarCore.js:97 and :106 let a response
through unchanged).  `Stalled` gives a job out again, `Crash` and `Restart` end
and begin a process; a restarted one keeps its source and so its response inbox.

### QueuePubSub

Who subscribes where is chosen in the initial state (`cast`), so that one run has
subscriptions of a node, of a group, of both, and of one group to two channels, which
share its inbox.
`Subscribe` registers the handler and processes the inbox; `Register` and
`StartRefresh` are the two asynchronous halves of `_doRegistration`; `Unsubscribe`
is the stopper.  `ResetStart` and `ResetEnd` are the two halves of `reset`, and
everything may happen between them.  `PublishRead` reads the subscribers,
`PublishEnqueue` adds one job.  `Take` is Bull giving it to a worker of the inbox, and
`SubscriptionHandler` is `_subscriptionHandler` there, for a node's inbox and for a
group's; a job whose worker stalls or dies is given out again, once (`Stalled`),
while the first worker may still run.  `CleanRead` and `CleanRemove` are the two
halves of `_cleanResources`: what it read is removed whatever happened since.

### BullResources

Time is a counter in units of half the expiry over `Half`; `Late` bounds how
late an interval may run (less than `Half + Grace`, the 15 minutes and 1 minute
that the code leaves).  Every Redis command is a step of its own; the two
periodic tasks are split where the code waits: `CleanRead`, `CleanRemove` per
member; `RemoverRead`, `RemoverScan`, `RemoverEmpty` per queue.

### WebsocketTransport and StellarSocket

`WebsocketTransport` has operators for what stellarSocket calls (`SetSocket`,
`OnClose`) and actions for the timer (`Resolve`) and `Send`.  `StellarSocket`
numbers sockets by attempt.  `link[k]` is the socket's readyState, `listener[k]`
who hears its `close` (`_closeIfNeeded` replaces the listener of the attempt, and
when that one hears its socket close it takes the listeners off whatever
`this.socket` is by then, `CallHears`; `AttemptHears` is the attempt's own),
`outcome[k]` the promise of `_doConnect`, `tries[k]` the `max` of the backoff that
made it.  `Connect` and `DoConnect` are `connect` before and after its first
`then`; `Connected`, `Refused`, `Close` and `Fail` are the messages and events;
`ConnectFailed` and `TryFailed` the two catches; `TryAgain` the timer.
What surrounds the client is chosen in the initial state (`env`): `silent`, a
handshake may end without an `error` event; `calm`, the application calls only on
a settled connection; `quick`, a connection may drop within 250 ms; `refusable`,
which tries the bridge may refuse; `oneShot`, which calls do not ask for
reconnections; `sockets`, the bound on attempts.

### BridgeSession

A session goes through `OnConnection`, one `HandlerReturns` or `HandlerFails` per
session handler and `SessionStarted`; `OnClose` may come at any time, before the
session has started too.  The messages of clients are given as constants (kind,
channel, whether it has an id).  `Subscribe` is `subscribe` with `registerStopper`;
`Subscribed` and `Stopped` are the promise of the subscription and of its stopper;
`Answer` and `Fail` end a request.  A subscription hears (`Hears`) from its
registration on until its stopper has run, which waits for the registration, so
later than it was asked for (`asked`; `Kept` is what hears and was not asked to stop).
`Lasting` are the subscriptions that no later one replaces in the map of stoppers.

### BridgedSubscription

Instantiates `BridgeSession` with one session per connection of one client and one
channel.  `up[k]` and `down[k]` are what is on its way over connection `k`;
`link` and `stage` are the client's end.  `Subscribe` and `Stop` send what
`getReactive` or `subscribe` and their stoppers send (`way[s]` says which; redux
needs the results before it can stop), at once or when the promise of the socket
settles (`parked`).  `Connect`, `Connected`, `Settle` and `Drop` are the life of a
connection on the client, `SessionStep` on the bridge, where it may end earlier or
later.  `Receive` hands a message to `BridgeSession`; `Hear` is the listener of
`setSocket`.  `Relay(d, K)` is `bridgeSubscribe` for one delivery of a job of a
publication (`Deliveries`) on a bridge that has the connections `K`: each bridge has a
job of its own, and Bull may give it again, so a publication may be relayed several
times, to the same connection or to a later one.

It assumes, beside what `BridgeSession` does: session handlers accept; a connection
lives for 250 ms once it is established (`StellarSocket` is about what happens
otherwise); a plain `subscribe` is alone (the bridge loses the first of two,
section 4); and no client middleware is asynchronous, so that `reactive` is sent
before `subscribe`.

### CallChain

A request of the application and the ones its handler makes, over any mixture of
hops: dispatched locally, in memory, HTTP, queues, a socket or HTTP to a bridge and
queues behind it.  `route` (where each request goes, and whether it is a
fireAndForget) is chosen in the initial state.  `Use` and `HandleRequest` build and
copy the chains at any time.  Down a chain and up again are single steps:
`next()` runs the next middleware at once, and only promise callbacks separate the
levels on the way up, each of which applies `_handlerResult` or
`_handlerRejection` (`Wrapped`, which is idempotent on one node).  A value carries
its headers (`resp`) and, as history, where an error arose and what was above
(`born`).  `ServerEnds` and `ClientEnds` are the two ends of a run;
`SettlesLocally`, `SettlesDirectly` and `Deliver` bring a reply back by the three
kinds of hop.  Middlewares are mw-error-reporting (`report`), metrics (`count`) and
one that rejects (`guard`).

## 3. Runs

| run | instance | shows |
| --- | --- | --- |
| `remote_transport` | three requests, two timed, two copies of each response | table, timers and callers agree; every promise has its own response; implements `RequestLifecycle` with its liveness |
| `rpc_chain` | a asks b, whose handler asks c; two requests, two handlers at a time, two deliveries, no timers | end to end, undisturbed requests are answered |
| `rpc_crash` | two urls in one inbox, one slot, a handler that asks its own service, one crash and restart | `OwnAnswer`, `ReplyOrReason`; the timers end the circular wait; `RequestLifecycle` on every node |
| `pubsub` | three subscriptions (of a node to two channels; of a node and of a group; of a group on two nodes, to two channels), a message whose job may be given out twice, reset, crash, cleaning | who stays subscribed is registered, a group until a member of it stops or crashes; a message reaches who can hear it, unless a worker without the handler may get it; it reaches one member of a group, unless its job was given out twice |
| `bull_resources` | two processes, two queues, late intervals, a crash | what is used stays registered; the cleaner spares what is refreshed |
| `socket` | two `connect`, `close`, two drops, refusals, in any order at all; three `connect` that overlap; two by a calm application, in three kinds of surroundings | `state` and `socket` stay consistent always, and the end of the connection is heard, whichever socket loses its listeners; with a calm application: one connection, no reconnection after `close`, no send to a dead socket, a dropped connection comes back and sends that wait are settled |
| `bridge_session` | two clients on one channel, closes at any time; two `getReactive`, a plain subscribe that they may replace and a stop; another plain subscribe and a fireAndForget | two subscriptions of a session hear only while a stop waits, staying is answered, leaving is final and leaves nothing |
| `bridged_subscription` | two subscriptions of a client to one channel (`getReactive` or plain, and redux), two connections, a publication that is relayed up to twice | who is subscribed over the present connection is bridged; nobody is refused for a subscription that was stopped; each delivery is heard once; what was stopped is forgotten |
| `call_chain` | a request and one that its handler makes, between an application, a service and a bridge, over every combination of hops; chains and handlers added meanwhile | errors keep their origin, are reported there and only there; the caller is told what the handler ended with |

Runs that end in a violation, each against one line of the repository
(`PROJECT.json`, findings):

| run | what the code does |
| --- | --- |
| `pubsub_leak` | the stopper of one subscription leaves its registration while another is left |
| `socket_closed` | `close` does not stop a running backoff: the client reconnects |
| `bridge_offline` | a socket that closes during the session handlers is never taken down |

**Why these bounds.**  Races here are between two callbacks of one object or two
processes on one key, so two of each with one shared item reach them; a third request,
node or subscription is there where a property compares one actor with all others (a
foreign response, a nested request, a second channel).  Two deliveries of a job, one
crash, one reset and two drops are the smallest numbers that let a second one meet the
leftovers of the first.  `MaxRetries` is 2, not 300: one failed try that is followed by
another and one that is not.  The number of sockets is what these retries can use up in
the calm surroundings of `socket`; in the others it cuts long histories only.  Time in
`BullResources` runs past two expiries. Three overlapping calls in `socket` are the
fewest with which a socket that closes is not the one in `this.socket`.  Two connections
in `BridgedSubscription` let what was sent over the first, or waited for it, meet the
second; two calls in `CallChain` are the shortest chain in which an error passes a node
where it did not arise. Counters of events (`reconnects`, `offline`, `replies`) are
bounded by the sockets and messages.

**Deadlock** is not an error in these runs: every instance has a finite number of
requests, messages or ticks and really ends.

**Fairness.**  Always of single steps that the runtime performs by itself: an armed
timer fires, a promise continues, a running process takes the jobs of its inboxes, a
handler does something, Bull finds a job that nobody runs any more. `RemoteTransport`
assumes timers only, nothing of the network.  `StellarSocket` also assumes that a
handshake ends in some way (engine.io has its own timeouts) and that a socket asked to
close does so.  `BridgeSession` assumes that requests end (they have a timeout) and that
Redis answers.  `CallChain` and `BridgedSubscription` have no fairness: their properties
are invariants.  `StoppedIsForgotten`, which one would state as liveness, is stated of
the states in which nothing is on its way any more (`Quiet`); every step that leads to
one happens a bounded number of times.  Never assumed: that a crash, a stop or a reset
does or does not happen.

## 4. Where the code falls short of what one would like to state

The passing properties are worded around these; each is behaviour of the models,
found with them, and each is plain in the source once one looks for it.

* A handler that passes on a failed response of its own request, or returns a raw
  one, answers under the id of *that* request (StellarCore.js:97, :106).  Its
  caller finds no such request and times out.  `ReplyOrReason` and
  `RequestsAreAnswered` name this case (`PassedOn`).
* All members of a service group share one registration, and the stopper of one
  removes it (QueueTransport.js:76) until another member's next refresh.
  `SubscriptionIsRegistered` speaks of a group until one of its members stops or
  crashes.
* All channels of a group share one inbox (QueueTransport.js:49; the test
  QueueTransport.test.js:234 subscribes a group to two channels).  A worker without a
  handler for the channel of a job fails it (:85) and nobody hears the message: a
  member that was stopped or reset is such a worker, and so is one that subscribed
  to another channel only.  `MessageIsHeard` speaks of messages whose job no such
  worker may get (`Undisturbed`).
* Bull gives the job of a publication again when its worker stalls or dies, and the
  first worker may still run: a second member of the group hears the message, or the
  same one hears it twice.  `OncePerGroup` excepts such jobs (`stalled`); after two
  stalls Bull gives up (`lost`), and perhaps nobody has
  heard.
* A node's own inbox is read by its group handlers too (:87): with a node
  subscription on the same node and channel, a group hears twice.  In
  `pubsub` the node subscriptions beside a group are to another channel.
* Cleaner and remover delete what an earlier read found
  (BullRedisQueueSystem.js:149, :195); a registration in between is lost, a queue
  filled in between is emptied.  As long as nobody crashed the cleaner finds nothing
  that is used, and it never reads what is used (`CleanerSparesUsed`).  After a crash it
  may remove what was not used when it read: `UsedIsRegistered` therefore stops at the
  first crash, and `SubscriptionIsRegistered` at the crash of a member of the group.
* A socket that closes in the handshake without `error` leaves its attempt pending
  and ends the backoff (stellarSocket.js:158); `connect` during an attempt opens a
  second socket (:79); an `error` message does not reach a running backoff (:132).
  The properties about one connection and about coming back exclude the first by
  `silent`, the second by `calm` and the third by `refusable`; the first of the
  surroundings of `socket` has them all, and `TypeOK`, `ConnectedHasSocket` and
  `DropIsHeard` hold there too.
* Every `error` message is treated as a refusal: the call fails with
  "Authentication Error" and `retry` becomes a noop (stellarSocket.js:130-135), whatever
  went wrong on the bridge.  attachEngineIoBridgeToServer.test.js:136 has the title "on
  other error reconnect automatically"; its body expects that same rejection, and that
  the error was handled, so it is the title alone that says otherwise.
* A call of `connect` that waits for the end of a socket takes the listeners off the
  `this.socket` of that moment (stellarSocket.js:91), which with three overlapping
  calls may be another, live one: who waited for its `close`, a call of `connect`
  perhaps, waits for ever.  Without a `this.socket` the listener throws before it
  changes anything, and its own call never settles.  What the client says of itself
  stays true all the same (`ConnectedHasSocket`), since it is `connecting` from then on,
  and gets no connection whose end nobody hears (`DropIsHeard`).
* A plain `subscribe`, which has no id, is invisible to the check for duplicates
  (handleMessageFactory.js:34), so a later one replaces its stopper and it never
  stops.  `bridge_session` has one; the properties leave it out (`Lasting`) and hold of
  the others beside it.  In `bridged_subscription` nobody subscribes after it to the
  same channel of the same session.
* A `getReactive` that is refused still sends its request (handleMessageFactory.js:69):
  the client gets the refusal and the answer under one id.
* A request that fails after its client is gone is reported to nobody
  (attachEngineIoBridgeToServer.js:58): the catch throws before it reports.
* After a reconnection nobody subscribes again (WebsocketTransport.js:82): what was
  subscribed over an earlier connection hears nothing more.  `LiveIsBridged` is
  about the present connection.  The old stopper still sends its `stopReactive`,
  over the new connection, where it ends whichever subscription there is.
* Subscriptions of a client to one channel share the one of the bridge
  (WebsocketTransport.js:62): the first stopper ends it for all (`robbed`).  A stop
  that overtakes the registration on the bridge (startSessionFactory.js:31) waits for
  it, and leaves the old one beside a new one meanwhile: messages are heard twice.
  `OneSubscriptionPerChannel` and `HeardOnce` name this case.
* Each bridge has a job of its own for a publication, and Bull may give it again: a
  client hears the publication as often, over one connection or over two, with nobody
  stopped.  `HeardOnce` is about each delivery.
* With client-redux an unsubscribe before the results arrive does nothing, and after
  a request that failed the subscription cannot be stopped (middleware.js:71-76).
* What waits for the promise of the socket is lost when that promise is replaced
  (WebsocketTransport.js:54), subscriptions included.
* A handler or middleware that rejects with something that is no `Error` is answered
  as if it had succeeded (StellarCore.js:75, StellarRequest.js:24), except by a local
  dispatch; mw-error-reporting does not report it on the caller's side.  After a local
  dispatch a raw response with an error stays a result.  `CallerIsTold` names both
  (`Excepted`).
* An error that a handler rethrows on the node where it arose is reported once per
  level, since its source stays the same.  mw-error-reporting.test.js:16 has the
  title "Should only report the first occurence of an error", which holds of hops
  between nodes.
* MemoryTransport.request without a handler returns a TypeError that is no promise
  (transport-memory/src/index.js:46); the caller gets the TypeError of calling
  `.catch` on it.
* A handler keeps the chain of the moment it was added (StellarHandler.js:30): a
  `use` that comes later does not apply to it.  `ReportedWhereItArose` is about the
  middlewares that were above.

## 5. Proofs

`RemoteTransportProofs` proves about `RemoteTransport`, for any sets of requests,
timed requests and copies, assuming only that the special values are no requests
(`RemoteTransportAssumption`, `NoAnswerAssumption`):

* `Invariance`: the inductive invariant `IInv` holds;
* from it `TypeCorrect`, `TableComplete` (callers, entries and timers agree except
  for what a reset forgot) and `OwnResponse`;
* `SettledStays`: no step changes what a caller was told (an action property);
* `Refinement`: `Spec` implements `Lifecycle!SafeSpec`.

None of the invariants is inductive alone.  That a timer never finds its entry
gone (unless after a reset) needs that the response handler stops the timer of
every entry it removes, which needs that the table holds requests that are
pending, and only those (`EntriesAreLive`); that needs in turn that an expiry is
of a timed request (`ExpiredWasTimed`).  `IInv` is the conjunction; there is one
lemma per action, and `NextKeepsIInv` splits on `Next`.  The refinement uses
`IInv` for the step in which a timer expires: the abstract request is still open.

`QueueRpcProofs` proves about `QueueRpc`, for any nodes, services and calls
between them, and any number of requests, deliveries and crashes, assuming only
`QueueRpcAssumption` (the constants have their types):

* `Invariance`: the inductive invariant `IInv` holds;
* `TypeCorrect` and `AnswersAreOwn` (`OwnAnswer`);
* `StraysAreDropped`: a response that a handler passed on under the id of a
  request of its own never meets a waiting request;
* `NodesImplementLifecycle`: on every node, `QueueRpc` implements
  `RequestLifecycle` (`ImplementsLifecycle`).

`OwnAnswer` is not inductive: a response carries the id it is matched by
(`requestId`) and was computed for a request (`of`), and a handler that passes on
what it got makes the two differ.  It does so after the request it made is
settled (`PassedOnIsSettled`), and a table holds a request exactly as long as its
promise is pending (`InflightIsPending`), so such a response finds no entry.  That
the entry is on the node that sent the request, and that a new id is nowhere yet
(`UnissuedIsBlank`), is what the refinement needs: a crash abandons exactly what
was pending on the node that crashed.

`RequestsAreNotLost` (`ReplyOrReason`) rests on `WorkInv`: a job is not in the queue
and given out at once (`QueuedIsNotActive`); one that is given out has the worker of
its last attempt, unless somebody crashed (`ActiveHasWorker`); and a request that is
neither queued, given out nor answered ran its last attempt, was dropped for want of
a handler, or had its answer passed on under another id (`LeavesWithReason`).  The
last is stronger than the property: a handler that still runs is a reason only on
the last attempt, because the crash of an earlier one would leave none.

`QueuePubSubProofs`, for any nodes, subscriptions, messages and casts
(`QueuePubSubAssumption`):

* `StaysRegistered` (`SubscriptionIsRegistered`): not inductive, since a
  subscription must have been registered before it is on, and no cleaning may take it.
  `KeptRegistered` says it from the `ZADD` on, of every handler that is in a registry
  and of whose group none was stopped or crashed; and what is registered without an
  interval that refreshes it, and so what a cleaning reads and removes at some later
  time, is left from a crash (`Keepers`, `Left`);
* `ApartGroupHearsOnce`: a group hears a message once unless its job was given out
  twice, if no member is on a node that subscribes to the channel for itself too.  The
  argument is that of a token: for an inbox, a message is not yet read, to be
  enqueued, in the queue, with one worker, or handled (`OneDelivery`, `HeardIsGone`), and
  the node that handles it has one handler for it (`OneHandlerPerKey`);
* `GroupHearsOnce` (`OncePerGroup`), where the casts have no such node.  The
  exception is the code's: `_subscriptionHandler` gives a job of the node's inbox to
  whatever handler of the channel the registry finds.

`BullResourcesProofs`, for any processes, queues, jobs and crashes and any periods with
`Late <= Half + Grace` (`BullResourcesAssumption`; the code has 15 minutes and 1
minute): `UsedStaysRegistered` (`UsedIsRegistered`) and the action property
`CleanerSparesTheUsed` (`CleanerSparesUsed`).  The argument is about three times: an
interval runs before `due + Late` (`IntervalsKeepUp`), an entry expires half the
expiry after any interval that keeps it is due (`EntriesOutlastIntervals`), so an
entry that a process keeps is never `Grace` past its expiry; without a crash all
entries are kept, and the cleaner finds nothing (`AllIsKept`).

`StellarSocketProofs`, for any number of sockets, calls, retries and drops
(`StellarSocketAssumption`):

* `ConnectedClientsHaveSockets` (`ConnectedHasSocket`) and `DropsAreHeard`
  (`DropIsHeard`), in any surroundings;
* `OneConnectionAtATime` (`OneConnection`) and `PromisesOutliveTheirTimer`
  (`PromiseIsLive`), in calm ones;
* `ClosedCalmlyStaysClosed` (`CalmStaysClosed`), an action property.

The first two rest on what is easily overlooked in `_closeIfNeeded`: whoever takes the
listeners off `this.socket` makes the client `connecting`, and a socket that comes
later has its own (`SomebodyListens`).

A socket is engaged while it connects or is connected, while its failure is about to
be handled, and while a backoff waits because of it; in calm surroundings at most one
is (`OneEngaged`).  That rests on what the code never checks: nothing else is engaged
or closing while the client is connected (`OnlyTheSocket`), nor when a call of
`connect()` is about to make its socket (`CallsTakeTurns`), and nothing is closing while
an attempt is made (`AttemptsAreQuiet`), so that no `close` of an earlier socket is
taken for the attempt's own.

`BridgeSessionProofs`, for any sessions, channels, messages and number of session
handlers (`BridgeSessionAssumption`):

* `OfflineIsCalledOnce` (`OfflineOnce`);
* `TwoHearWhileOneStops` (`OneSubscriptionPerChannel`) and `SubscriptionsEndWithSession`
  (`ClosedHearsNothing`), both of the subscriptions that no later one replaces
  (`Lasting`); of the others they are false of the code (section 4).

The bridge knows a subscription by its stopper only, so the invariant is that what
hears, and was not asked to stop, is in the map of stoppers (`KeptByItsStopper`), and
what is there hears, under its own session and channel, while the session has a client
(`StoppersAreFiled`).

`CallChainProofs`, for any nodes, bridges, chains and trees of calls
(`CallChainAssumption`; `NoneIsNothing` says that None is none of the values):

* `ErrorsNameTheirOrigin` (`ErrorNamesItsOrigin`), `ErrorsAreReportedAtTheirOrigin`
  (`ReportedWhereItArose`) and `CallersAreTold` (`CallerIsTold`).

What a caller is told can only be bounded with every value on its way: what a chain
ended with, the responses in the transports, and the raw responses that a handler
returns, whose errors hide in a result (`RepliesAreSound`, `OutcomesAreSound`).  Each
names the node where it arose, and the middlewares that were above know of it.  A
response may name another request than the one it answers, when a handler passes on
what it got; that request has settled then (`RepliesAreAddressed`).

`BridgedSubscriptionProofs`, for any finite sets of subscriptions and connections, any
publications and casts (`BridgedSubscriptionAssumption`):

* `LiveStaysBridged` (`LiveIsBridged`), `RefusedOnlyWhileShared`
  (`RefusedWhileShared`), `MessagesAreHeardOnce` (`HeardOnce`) and
  `StoppedAreForgotten` (`StoppedIsForgotten`).

It takes the invariant of `BridgeSessionProofs` for the bridge inside it (every step
is one of `BridgeSession` or leaves the bridge alone), and adds what makes the two
ends agree, which is order.  Each queue holds messages that fit one another and
what the session holds: a subscription that was made alone finds nothing there, the
`subscribe` of a `getReactive` finds its `reactive` (`QueuesAreInOrder`), and what the
last of them leaves is what the application has (`EndFollowsLive`).  A connection that
is new, or whose promise has not settled, has carried nothing (`NewIsBlank`), so that
what waits goes into an empty queue.  While nothing was stopped behind a live
subscription, nothing on its way ends it (`LiveAreLeftAlone`).  For `HeardOnce` the
argument is that of a token again: as long as nobody stopped, the bridge has one
registration, which one stopper of one session names, and a delivery is not yet
relayed, on its way once, or heard (`RelayedOnce`).  The model's exceptions are the
code's (section 4): `robbed` in `LiveIsBridged`, another stop in `HeardOnce`.

Each of these modules proves `TypeCorrect` too.  All invariants were model-checked on
the instances of section 3 before they were proved.

The enqueueing, emptying and removing of jobs in `BullResources` is there because the
steps share its queues; no property is about it, since what could be wrong there is
(section 4).

Only model-checked: all liveness (the provers have no fairness and no `ENABLED`); what
section 4 shows violated.  Every other invariant and action property of a passing run
is a theorem.

## 6. Not modelled, and why

Redis failures (commands are taken to succeed; what callers see of a failure is
their timeout); the formats of messages, urls and logs; urls with dots, which
lodash reads as paths; user middlewares and handlers beyond their outcome;
rejections with values that cannot carry headers (strings, numbers); the timeout of a
Bull job (BullRedisQueueSystem.js:18), which ends the job while its handler still runs,
so that a crash then loses it without another delivery; crashes of publishers; a constructor of engine.io that throws (stellarSocket.js:114-119),
which counts as a handshake that fails at once; asynchronous
middlewares on a client that subscribes over a bridge; the middlewares around
published messages; publish and subscribe of MemoryTransport, which is an
EventEmitter in one process; `subscribeGroup` and `publish` of WebsocketTransport
(the bridge accepts no `publish`, handleMessageFactory.js:82); subscriptions over
the HTTP bridge, which has no connection to send on; what the loggers, the metrics'
publication and tracing produce; configuration.  Bull, engine.io, axios, express
and ioredis are external and modelled by what this code uses of them: a Bull job is
given to one worker, once more when that worker stalls or dies, and removed when it ends; an
engine.io socket drops what is sent after it closed and emits `error`, then `close`,
when it fails; a Redis command is atomic.

## 7. Plan

1. An abstract specification of a subscription (heard once, until stopped) that both
   `QueuePubSub` and `BridgedSubscription` implement, with the cases of section 4 as
   its exceptions.
2. Failures of Redis commands in `QueueRpc` and `QueuePubSub`; publish and subscribe
   of MemoryTransport; urls with dots in Transport's registry.
