------------------------------ MODULE CallChain ------------------------------
(***************************************************************************)
(* A request from the application that makes it to the handler that serves *)
(* it and back, over every kind of hop: the chains of middlewares of        *)
(* StellarRequest and StellarHandler and what StellarCore makes of results  *)
(* and errors (packages/core), mwLocalDispatch, MemoryTransport, the HTTP   *)
(* transports, the two bridges, and the middlewares that watch for errors   *)
(* (mw-error-reporting, metrics).                                           *)
(*                                                                          *)
(* next() runs the following middleware at once, so the way down to the     *)
(* transport or the handler is one step, and so is the way up again: only   *)
(* promise callbacks are between its levels.  What interleaves is a handler *)
(* that waits for a request of its own, responses, timers, and use().       *)
(*                                                                          *)
(* On the way up every level applies _handlerResult or _handlerRejection to *)
(* what the level below gave.  Only the lowest changes anything (Wrapped is *)
(* idempotent), and the middlewares above see its result.                   *)
(*                                                                          *)
(* Repeated jobs, crashes and the table of waiting requests are in QueueRpc *)
(* and RemoteTransport, sessions of an engine.io client in BridgeSession.   *)
(***************************************************************************)
EXTENDS Sequences, Functions

CONSTANTS
    Nodes,      \* sources
    Home,       \* the node of the application
    Bridges,    \* nodes that are bridges: they serve no url of their own
    Optimized,  \* nodes with optimizeLocalHandlers
    Calls,
    Parent,     \* Parent[c]: the call whose handler makes c, None for the application
    Usable,     \* Usable[<<n, side>>]: the middlewares that may be used there
    Endings,    \* what user handlers may do: a subset of AllEndings
    None

AllEndings == {"result", "error", "other", "rethrow", "raw"}
Hops       == {"memory", "http", "queue", "socket"}
Sides      == {"request", "handler"}
Mws        == {"report", "count", "guard"}
Chains     == Nodes \X Sides

ASSUME CallChainAssumption ==
    /\ Home \in Nodes \ Bridges
    /\ Bridges \cup Optimized \subseteq Nodes
    /\ Parent \in [Calls -> Calls \cup {None}]
    /\ Usable \in [Chains -> SUBSET Mws]
    /\ Endings \subseteq AllEndings
    /\ None \notin Nodes \cup Calls

VARIABLES
    route,    \* route[c]: where c is served, by which transport it goes, and
              \* whether it is a fireAndForget
    chain,    \* chain[<<n, side>>]: handlerChain of a StellarRequest or StellarHandler
    handler,  \* handler[c]: the chain that was copied when c's url was added, or None
    sent,     \* sent[c]: the chain that c runs and its hop, None before it is made
    running,  \* calls whose handler runs
    reply,    \* reply[c]: what the handler's chain ended with, or None
    wire,     \* responses on their way to a RemoteTransport
    outcome,  \* outcome[c]: what the caller's promise settled with, or None
    seen      \* rejections that a reporter was told or that metrics counted

callVars == <<sent, running, reply, wire, outcome, seen>>
vars     == <<route, chain, handler, callVars>>

Routes  == [to : Nodes, via : Hops, forget : BOOLEAN]
To(c)   == route[c].to
From(c) == IF Parent[c] = None THEN Home ELSE To(Parent[c])

\* Where an error arose, and which middlewares were above it.
Births  == [call : Calls, side : Sides, above : SUBSET Mws]
Resps   == [source : Nodes, requestId : Calls, errorSource : Nodes \cup {None}]
\* "other" is a rejection with something that is no Error.
Values  == [kind : {"result", "error", "other"}, resp : Resps \cup {None},
            born : Births \cup {None}]
Runs    == [mws : Seq(Mws), hop : Hops \cup {"local", "none"}]

ASSUME NoneIsNothing ==
    None \notin Resps /\ None \notin Births /\ None \notin Values /\ None \notin Runs

TypeOK ==
    /\ route \in [Calls -> Routes]
    /\ chain \in [Chains -> Seq(Mws)]
    /\ \A x \in Chains : Range(chain[x]) \subseteq Usable[x]
    /\ handler \in [Calls -> Seq(Mws) \cup {None}]
    /\ \A c \in Calls : handler[c] # None => Range(handler[c]) \subseteq Usable[<<To(c), "handler">>]
    /\ sent \in [Calls -> Runs \cup {None}]
    /\ running \subseteq {c \in Calls : sent[c] # None /\ reply[c] = None}
    /\ reply \in [Calls -> Values \cup {None}]
    /\ outcome \in [Calls -> Values \cup {None}]
    /\ wire \subseteq Values
    /\ seen \subseteq [mw : {"report", "count"}, call : Calls, side : Sides, born : Births]

\* A bridge is reached by HTTP or by a socket and makes its requests over the queues,
\* of the type of the client's.
Possible(r) ==
    \A c \in Calls :
        /\ r[c].to \in Bridges => r[c].via \in {"http", "socket"}
        /\ r[c].via = "socket" => r[c].to \in Bridges
        /\ Parent[c] # None /\ r[Parent[c]].to \in Bridges
              => r[c].via = "queue" /\ r[c].forget = r[Parent[c]].forget

Init ==
    /\ route \in {r \in [Calls -> Routes] : Possible(r)}
    /\ chain = [x \in Chains |-> <<>>]
    /\ handler = [c \in Calls |-> None]
    /\ sent = [c \in Calls |-> None]
    /\ running = {}
    /\ reply = [c \in Calls |-> None]
    /\ wire = {}
    /\ outcome = [c \in Calls |-> None]
    /\ seen = {}

-----------------------------------------------------------------------------
\* Slips in this code, one for each property (PROJECT.json, "mutants").
PreparedUnnamed(n, c, v) ==
    [source |-> n, requestId |-> None,
     errorSource |-> IF v.kind = "error" /\ v.resp = None THEN n ELSE None]

PreparedAgain(n, c, v) ==
    [source |-> n, requestId |-> c, errorSource |-> IF v.kind = "error" THEN n ELSE None]

ReceivedAsResult(v) == [v EXCEPT !.kind = "result"]

HasErrorSource(v) == v.resp.errorSource # None

-----------------------------------------------------------------------------
\* _prepareResponse of node n for call c
Prepared(n, c, v) ==
    [source |-> n, requestId |-> c,
     errorSource |-> IF v.kind = "error" /\ v.resp = None THEN n ELSE None]

\* merge(error, { __stellarResponse: response })
Merged(old, new) ==
    [new EXCEPT !.errorSource = IF old # None /\ @ = None THEN old.errorSource ELSE @]

\* _handlerResult and _handlerRejection
Wrapped(n, c, v) ==
    IF v.resp # None /\ (v.kind = "result" \/ v.resp.source = n)
    THEN v
    ELSE [v EXCEPT !.resp = Merged(v.resp, Prepared(n, c, v))]

\* responseHandler: a response becomes an error again by its errorType.
Received(v) == [v EXCEPT !.kind = IF v.resp.errorSource = None THEN "result" ELSE "error"]

\* The catch of a request: an error that brings a response is that response.
Caught(n, c, v) ==
    Received(IF v.resp = None THEN [v EXCEPT !.resp = Prepared(n, c, v)] ELSE v)

Result == [kind |-> "result", resp |-> None, born |-> None]

Thrown(kind, c, side, mws) ==
    [kind |-> kind, resp |-> None,
     born |-> [call |-> c, side |-> side, above |-> Range(mws)]]

\* isLocalError of mw-error-reporting
IsLocalError(v) == v.resp.errorSource = v.resp.source

\* The middleware of metrics counts every rejection of a run.
TakesNote(mw, v) ==
    /\ v.kind # "result"
    /\ mw = "count" \/ (mw = "report" /\ IsLocalError(v))

\* What comes of a value that goes up through the middlewares mws of a run.
Noticed(mws, c, side, v) ==
    {[mw |-> mw, call |-> c, side |-> side, born |-> v.born] :
        mw \in {w \in Range(mws) : TakesNote(w, v)}}

\* The chain of a middleware that rejects instead of calling next().
Cuts(mws) == {SubSeq(mws, 1, i - 1) : i \in {j \in DOMAIN mws : mws[j] = "guard"}}

-----------------------------------------------------------------------------
\* The chain of StellarHandler ends with v; mws are the middlewares above.  An
\* answer goes where its headers say, and only the engine.io bridge sets them.
\* Nobody is sent the answer to a fireAndForget.
ServerEnds(c, v, mws, hop) ==
    LET up == Wrapped(To(c), c, v) IN
    /\ reply' = [reply EXCEPT ![c] = up]
    /\ running' = running \ {c}
    /\ seen' = seen \cup Noticed(mws, c, "handler", up)
    /\ wire' = wire \cup CASE route[c].forget -> {}
                           [] hop = "queue"  -> {up}
                           [] hop = "socket" -> {[up EXCEPT !.resp.requestId = c]}
                           [] OTHER -> {}

\* The chain of StellarRequest ends with v: the promise of the caller settles.
ClientEnds(c, v, mws) ==
    LET up == Wrapped(From(c), c, v) IN
    /\ outcome' = [outcome EXCEPT ![c] = up]
    /\ seen' = seen \cup Noticed(mws, c, "request", up)

Waiting(c) == sent[c] # None /\ outcome[c] = None

\* A bridge has session handlers instead of a chain.
HandlerChain(c) == IF To(c) \in Bridges THEN <<>> ELSE handler[c]
IsServed(c)     == HandlerChain(c) # None

\* use() of a StellarRequest or StellarHandler
Use(x, mw) ==
    /\ mw \in Usable[x] \ Range(chain[x])
    /\ chain' = [chain EXCEPT ![x] = Append(@, mw)]
    /\ UNCHANGED <<route, handler, callVars>>

\* handleRequest: the url gets the chain of this moment.
HandleRequest(c) ==
    /\ ~IsServed(c)
    /\ handler' = [handler EXCEPT ![c] = chain[<<To(c), "handler">>]]
    /\ UNCHANGED <<route, chain, callVars>>

\* mwLocalDispatch, where it is used and finds the handler in the transport of
\* the caller, or the transport
HopOf(c) ==
    IF /\ From(c) \in Optimized
       /\ IsServed(c)
       /\ route[c].via = "memory" \/ (route[c].via = "queue" /\ From(c) = To(c))
    THEN "local"
    ELSE route[c].via

InProcess == {"local", "memory"}
Timed     == {"queue", "http", "socket"}

Make(c, hop) ==
    /\ sent[c] = None
    /\ Parent[c] # None => Parent[c] \in running
    /\ sent' = [sent EXCEPT ![c] = [mws |-> chain[<<From(c), "request">>], hop |-> hop]]
    /\ UNCHANGED <<route, chain, handler>>

\* Down the handler's chain: a middleware may reject, or the handler starts.
Enter(c, hop) ==
    /\ IsServed(c)
    /\ reply[c] = None
    /\ \/ /\ running' = running \cup {c}
          /\ UNCHANGED <<reply, wire, seen>>
       \/ \E cut \in Cuts(HandlerChain(c)) :
             ServerEnds(c, Thrown("error", c, "handler", cut), cut, hop)

\* A request that the caller's own chain rejects, for a middleware or because
\* MemoryTransport found no handler (it returns the TypeError, and .catch of
\* what is no promise throws another).
RequestFails(c) ==
    LET mws == chain[<<From(c), "request">>] IN
    /\ Make(c, "none")
    /\ \E cut \in Cuts(mws) \cup {m \in {mws} : /\ HopOf(c) = "memory" /\ ~IsServed(c)
                                                /\ ~route[c].forget} :
         ClientEnds(c, Thrown("error", c, "request", cut), cut)
    /\ UNCHANGED <<running, reply, wire>>

\* A request that reaches the handler in the same process, at once.
RequestInProcess(c) ==
    /\ ~route[c].forget
    /\ HopOf(c) \in InProcess
    /\ Make(c, HopOf(c))
    /\ Enter(c, HopOf(c))
    /\ UNCHANGED outcome

RequestLeaves(c) ==
    /\ ~route[c].forget
    /\ HopOf(c) \in Timed
    /\ Make(c, HopOf(c))
    /\ UNCHANGED <<running, reply, wire, outcome, seen>>

\* fireAndForget: whatever becomes of it, the caller's promise does not wait for the
\* handler and says nothing of it.  MemoryTransport logs that it found no handler.
FireAndForget(c) ==
    /\ route[c].forget
    /\ Make(c, HopOf(c))
    /\ outcome' = [outcome EXCEPT ![c] = Wrapped(From(c), c, Result)]
    /\ IF HopOf(c) \in InProcess /\ IsServed(c) THEN Enter(c, HopOf(c))
       ELSE UNCHANGED <<running, reply, wire, seen>>

\* The request arrives at its worker, its Express route or its bridge.
Serve(c) ==
    /\ sent[c] # None /\ sent[c].hop \in Timed
    /\ c \notin running
    /\ Enter(c, sent[c].hop)
    /\ UNCHANGED <<route, chain, handler, sent, outcome>>

\* What a handler may end with: something of its own, or what a request k that it
\* made gave it (rethrown, or returned as the raw response).
Children(c) == {k \in Calls : Parent[k] = c /\ outcome[k] # None}

HandlerEnds(c, v) ==
    /\ c \in running
    /\ ServerEnds(c, v, HandlerChain(c), sent[c].hop)
    /\ UNCHANGED <<route, chain, handler, sent, outcome>>

Returns(c) == "result" \in Endings /\ HandlerEnds(c, Result)

Throws(c) ==
    \E kind \in {"error", "other"} \cap Endings :
        HandlerEnds(c, Thrown(kind, c, "handler", HandlerChain(c)))

Rethrows(c) ==
    /\ "rethrow" \in Endings
    /\ \E k \in Children(c) : outcome[k].kind # "result" /\ HandlerEnds(c, outcome[k])

Raw(v) == [v EXCEPT !.kind = "result"]

ReturnsRaw(c) ==
    /\ "raw" \in Endings
    /\ \E k \in Children(c) : HandlerEnds(c, Raw(outcome[k]))

UserHandler(c) ==
    /\ To(c) \notin Bridges
    /\ Returns(c) \/ Throws(c) \/ Rethrows(c) \/ ReturnsRaw(c)

\* handleMessage of a bridge: the raw response of the request that it makes for
\* the client; on HTTP the session handlers may fail before that.
BridgeForwards(c) ==
    /\ To(c) \in Bridges
    /\ \E k \in Children(c) : HandlerEnds(c, Raw(outcome[k]))

BridgeRefuses(c) ==
    /\ c \in running /\ To(c) \in Bridges
    /\ sent[c].hop = "http"
    /\ \A k \in Calls : Parent[k] = c => sent[k] = None
    /\ HandlerEnds(c, Thrown("error", c, "handler", <<>>))

Settles(c, v) ==
    /\ Waiting(c)
    /\ ClientEnds(c, v, sent[c].mws)
    /\ UNCHANGED <<route, chain, handler, sent, running, reply>>

\* The handler's promise is the caller's (mwLocalDispatch).
SettlesLocally(c) ==
    /\ sent[c] # None /\ sent[c].hop = "local" /\ reply[c] # None
    /\ Settles(c, reply[c])
    /\ UNCHANGED wire

\* It passes through the catch of the request (MemoryTransport), or Express has
\* sent the result or error.__stellarResponse on the connection.
SettlesDirectly(c) ==
    /\ sent[c] # None /\ sent[c].hop \in {"memory", "http"} /\ reply[c] # None
    /\ Settles(c, Caught(From(c), c, reply[c]))
    /\ UNCHANGED wire

\* A response reaches a RemoteTransport, which looks for the request it names.
Deliver(v) ==
    LET c == v.resp.requestId IN
    /\ v \in wire
    /\ wire' = wire \ {v}
    /\ IF Waiting(c) THEN Settles(c, Received(v))
       ELSE UNCHANGED <<route, chain, handler, sent, running, reply, outcome, seen>>

TimesOut(c) ==
    /\ sent[c] # None /\ sent[c].hop \in Timed
    /\ Settles(c, Caught(From(c), c, Thrown("error", c, "request", sent[c].mws)))
    /\ UNCHANGED wire

Next ==
    \/ \E x \in Chains : \E mw \in Usable[x] : Use(x, mw)
    \/ \E c \in Calls :
          \/ HandleRequest(c) \/ RequestFails(c) \/ RequestInProcess(c) \/ RequestLeaves(c)
          \/ FireAndForget(c)
          \/ Serve(c) \/ UserHandler(c) \/ BridgeForwards(c) \/ BridgeRefuses(c)
          \/ SettlesLocally(c) \/ SettlesDirectly(c) \/ TimesOut(c)
    \/ \E v \in wire : Deliver(v)

Spec == Init /\ [][Next]_vars

-----------------------------------------------------------------------------
NodeOf(call, side) == IF side = "request" THEN From(call) ELSE To(call)
Birthplace(born)   == NodeOf(born.call, born.side)

\* However many hops and middlewares an error passes, each of which writes its own
\* headers over those it came with, the caller finds in errorSource the node where
\* it arose.
ErrorNamesItsOrigin ==
    \A c \in Calls :
        outcome[c] # None /\ outcome[c].kind = "error"
            => outcome[c].resp.errorSource = Birthplace(outcome[c].born)

\* Nobody reports an error of another node, and an error that a handler's chain
\* ended with (that of a fireAndForget too, which nobody hears of) or a caller is
\* told of was reported, and counted, by the middlewares above where it arose.
ReportedWhereItArose ==
    /\ \A e \in seen : e.mw = "report" => NodeOf(e.call, e.side) = Birthplace(e.born)
    /\ \A c \in Calls : \A v \in {reply[c], outcome[c]} \ {None} : v.kind = "error" =>
          \A mw \in v.born.above \ {"guard"} :
              [mw |-> mw, call |-> v.born.call, side |-> v.born.side, born |-> v.born] \in seen

\* A caller whose own chain and transport did not fail is told what the handler's
\* chain ended with, whichever way the request went.  A raw response stands for
\* what it says.  Two endings are excepted: a rejection with something that is no
\* Error, which every hop but a local dispatch turns into a result; and a raw
\* response with an error after a local dispatch, which stays a result.  Who
\* fires and forgets is told nothing of it.
OwnFailure(c) ==
    /\ outcome[c].born # None
    /\ outcome[c].born.call = c
    /\ outcome[c].born.side = "request"

Excepted(c) ==
    \/ reply[c].kind = "other"
    \/ sent[c].hop = "local" /\ reply[c].kind = "result"

CallerIsTold ==
    \A c \in Calls : outcome[c] # None =>
        \/ OwnFailure(c)
        \/ route[c].forget /\ outcome[c].born = None /\ outcome[c].kind = "result"
        \/ /\ reply[c] # None /\ ~route[c].forget
           /\ outcome[c].born = reply[c].born
           /\ Excepted(c) \/ outcome[c].kind = Received(reply[c]).kind
=============================================================================
