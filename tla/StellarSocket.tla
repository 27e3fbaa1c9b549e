---------------------------- MODULE StellarSocket ----------------------------
(***************************************************************************)
(* packages/client-engine.io/src/stellarSocket.js and exponentialBackoff.js:*)
(* the connection of a client to a bridge.  connect() opens an engine.io    *)
(* socket; when an established connection drops, or connect() fails, a      *)
(* backoff keeps trying.  Several sockets can exist at once, and all of them*)
(* share this.state, this.socket and this.retry.                            *)
(*                                                                          *)
(* A socket is numbered by the attempt that made it.  An engine.io socket   *)
(* emits 'error' and then 'close' when it fails; a server that goes away    *)
(* emits 'close' alone.  What surrounds the client is chosen once:          *)
(*   silent     a socket may do so during the handshake                     *)
(*   calm       the application calls connect() and close() on an           *)
(*              established connection only (and the first connect())       *)
(*   quick      a connection may close within 250 ms of being established   *)
(*   callers    bound: the calls of connect() that the application makes    *)
(*   oneShot    those with tryToReconnect: false                            *)
(*   refusable  tries that the bridge may refuse ('error' message)          *)
(*   sockets    bound on the attempts                                       *)
(***************************************************************************)
EXTENDS WebsocketTransport, FiniteSets

CONSTANTS
    Calls,       \* calls of connect()
    MaxRetries,  \* MAX_RETRIES
    MaxDrops,    \* bound on established connections that are lost
    MayClose,    \* whether the application calls close()
    Surroundings \* a set of records of the fields above

ASSUME StellarSocketAssumption ==
    /\ Sockets \subseteq Nat /\ MaxRetries \in Nat \ {0} /\ MaxDrops \in Nat
    /\ None \notin Calls \cup {"own"} /\ "own" \notin Calls
    /\ MayClose \in BOOLEAN
    /\ \A e \in Surroundings :
          {e.silent, e.calm, e.quick} \subseteq BOOLEAN /\ e.oneShot \subseteq Calls

VARIABLES
    env,         \* one of Surroundings; it never changes
    state,       \* this.state
    socket,      \* this.socket
    retry,       \* FALSE once this.retry is noop
    once,        \* this.connectedOnce
    link,        \* link[k]: readyState of socket k
    listener,    \* listener[k]: who hears its 'close': the attempt ("own") or a
                 \* call of connect() (_closeIfNeeded)
    outcome,     \* outcome[k]: the promise of _doConnect
    tries,       \* tries[k]: max of the backoff that made k, 0 for connect()
    caller,      \* caller[k]: the call of connect() that made k
    backoff,     \* sockets whose failure is followed by a running timer
    calls,       \* calls[c]
    reconnects,  \* 'reconnected' events
    drops,
    closed,      \* history: close() was called
    refused,     \* history: an 'error' message was received
    gaveUp       \* history: a backoff had its last try

socketVars == <<env, state, socket, retry, once, link, listener, outcome, tries, caller,
                backoff, calls, reconnects, drops, closed, refused, gaveUp>>
vars == <<transportVars, socketVars>>

TypeOK ==
    /\ TransportTypeOK
    /\ env \in Surroundings
    /\ state \in {"disconnected", "connecting", "connected"}
    /\ socket \in Sockets \cup {None}
    /\ retry \in BOOLEAN /\ once \in BOOLEAN
    /\ link \in [Sockets -> {"new", "connecting", "connected", "closing", "closed"}]
    /\ listener \in [Sockets -> {"own", None} \cup Calls]
    /\ outcome \in [Sockets -> {"pending", "resolved", "rejected", "handled"}]
    /\ tries \in [Sockets -> 0..MaxRetries]
    /\ caller \in [Sockets -> Calls \cup {None}]
    /\ backoff \subseteq {k \in Sockets : tries[k] > 1 /\ outcome[k] = "handled"}
    /\ calls \in [Calls -> {"idle", "closing", "ready", "waiting", "ok", "failed", "retrying"}]
    /\ reconnects \in Nat /\ drops \in 0..MaxDrops
    /\ closed \in BOOLEAN /\ refused \in BOOLEAN /\ gaveUp \in BOOLEAN

Init ==
    /\ TransportInit
    /\ env \in Surroundings
    /\ state = "disconnected" /\ socket = None /\ retry = TRUE /\ once = FALSE
    /\ link = [k \in Sockets |-> "new"]
    /\ listener = [k \in Sockets |-> "own"]
    /\ outcome = [k \in Sockets |-> "pending"]
    /\ tries = [k \in Sockets |-> 0]
    /\ caller = [k \in Sockets |-> None]
    /\ backoff = {}
    /\ calls = [c \in Calls |-> "idle"]
    /\ reconnects = 0 /\ drops = 0
    /\ closed = FALSE /\ refused = FALSE /\ gaveUp = FALSE

-----------------------------------------------------------------------------
Made == {k \in Sockets : link[k] # "new"}
Live == {k \in Sockets : link[k] \in {"connecting", "connected"}}
Open == {k \in Sockets : link[k] = "connected"}

\* Connected, and no call of connect() on its way.
Settled == state = "connected" /\ \A c \in Calls : calls[c] \notin {"closing", "ready"}

\* The bound on sockets leaves room for every attempt of the runs.
Fresh(k) == k \in Sockets \ Made /\ k <= env.sockets /\ \A j \in Sockets \ Made : k <= j

\* socket.close() of engine.io: nothing happens to one that is not open.
Closing(l, k) == IF k # None /\ l[k] \in {"connecting", "connected"}
                 THEN [l EXCEPT ![k] = "closing"] ELSE l

\* _doConnect, with the retries left to the backoff that calls it.
Attempt(l, n, c) ==
    \E k \in Sockets :
        /\ Fresh(k)
        /\ state' = "connecting"
        /\ link' = [l EXCEPT ![k] = "connecting"]
        /\ tries' = [tries EXCEPT ![k] = n]
        /\ caller' = [caller EXCEPT ![k] = c]

\* _reconnect: the backoff tries at once.
Reconnect(l, otherwise) ==
    IF retry THEN Attempt(l, MaxRetries, None)
    ELSE /\ state' = otherwise
         /\ link' = l
         /\ UNCHANGED <<tries, caller>>

MayDrop(k) ==
    /\ env.quick \/ k \notin timers
    /\ \/ link[k] = "closing"
       \/ link[k] = "connected" /\ drops < MaxDrops
       \/ link[k] = "connecting"

CountDrop(k) == drops' = IF link[k] = "connected" THEN drops + 1 ELSE drops

\* Slips in this code, one for each property (PROJECT.json, "mutants").
TryFailedOnceMore(k) ==
    /\ outcome[k] = "rejected"
    /\ tries[k] > 0
    /\ outcome' = [outcome EXCEPT ![k] = "handled"]
    /\ backoff' = backoff \cup {k}
    /\ UNCHANGED <<transportVars, state, socket, retry, once, link, listener, tries,
                   caller, calls, reconnects, drops, closed, refused, gaveUp, env>>

AppCloseRetrying ==
    /\ MayClose
    /\ ~closed
    /\ env.calm => Settled
    /\ closed' = TRUE
    /\ link' = Closing(link, socket)
    /\ UNCHANGED <<transportVars, state, socket, retry, once, listener, outcome, tries,
                   caller, backoff, calls, reconnects, drops, refused, gaveUp, env>>

\* _closeIfNeeded takes the listeners off and adds none.
ConnectDeaf(c) ==
    /\ calls[c] = "idle" /\ c \in env.callers
    /\ env.calm => Settled \/ \A d \in Calls : calls[d] = "idle"
    /\ retry' = (retry /\ c \notin env.oneShot)
    /\ IF socket = None
       THEN /\ state' = "connecting"
            /\ calls' = [calls EXCEPT ![c] = "ready"]
            /\ UNCHANGED <<link, listener>>
       ELSE /\ link' = Closing(link, socket)
            /\ listener' = [listener EXCEPT ![socket] = None]
            /\ calls' = [calls EXCEPT ![c] = "closing"]
            /\ UNCHANGED state
    /\ UNCHANGED <<transportVars, socket, once, outcome, tries, caller, backoff,
                   reconnects, drops, closed, refused, gaveUp, env>>

-----------------------------------------------------------------------------
\* connect, up to and including _closeIfNeeded: this.socket may be a dead one.
Connect(c) ==
    /\ calls[c] = "idle" /\ c \in env.callers
    /\ env.calm => Settled \/ \A d \in Calls : calls[d] = "idle"
    /\ retry' = (retry /\ c \notin env.oneShot)
    /\ IF socket = None
       THEN /\ state' = "connecting"
            /\ calls' = [calls EXCEPT ![c] = "ready"]
            /\ UNCHANGED <<link, listener>>
       ELSE /\ link' = Closing(link, socket)
            /\ listener' = [listener EXCEPT ![socket] = c]
            /\ calls' = [calls EXCEPT ![c] = "closing"]
            /\ UNCHANGED state
    /\ UNCHANGED <<transportVars, socket, once, outcome, tries, caller, backoff,
                   reconnects, drops, closed, refused, gaveUp, env>>

DoConnect(c) ==
    /\ calls[c] = "ready"
    /\ calls' = [calls EXCEPT ![c] = "waiting"]
    /\ once' = FALSE
    /\ Attempt(link, 0, c)
    /\ UNCHANGED <<transportVars, socket, retry, listener, outcome, backoff,
                   reconnects, drops, closed, refused, gaveUp, env>>

\* The 'connected' message of the bridge.
Connected(k) ==
    /\ link[k] = "connecting"
    /\ link' = [link EXCEPT ![k] = "connected"]
    /\ state' = "connected"
    /\ SetSocket(k)
    /\ socket' = k
    /\ reconnects' = IF once THEN reconnects + 1 ELSE reconnects
    /\ once' = TRUE
    /\ outcome' = [outcome EXCEPT ![k] = "resolved"]
    /\ calls' = IF tries[k] = 0
                THEN [calls EXCEPT ![caller[k]] = "ok"] ELSE calls
    /\ UNCHANGED <<retry, listener, tries, caller, backoff, drops, closed, refused, gaveUp, env>>

\* The 'error' message of the bridge: a new session handler failed.
Refused(k) ==
    /\ link[k] = "connecting"
    /\ tries[k] \in env.refusable
    /\ retry' = FALSE
    /\ refused' = TRUE
    /\ link' = Closing(link, k)
    /\ outcome' = [outcome EXCEPT ![k] = "rejected"]
    /\ UNCHANGED <<transportVars, state, socket, once, listener, tries, caller, backoff,
                   calls, reconnects, drops, closed, gaveUp, env>>

\* Slips, as above: _closeIfNeeded leaves this.state as it is.
CallHearsStateless(k, l) ==
    /\ listener[k] \in Calls
    /\ link' = l
    /\ IF socket # None
       THEN /\ OnClose
            /\ calls' = [calls EXCEPT ![listener[k]] = "ready"]
            /\ listener' = [listener EXCEPT ![socket] = None]
       ELSE UNCHANGED <<transportVars, calls, listener>>
    /\ UNCHANGED <<state, socket, tries, caller>>

\* Every close reconnects, that of a failed attempt too.
AttemptHearsEager(k, l) ==
    /\ listener[k] = "own"
    /\ OnClose
    /\ socket' = None
    /\ Reconnect(l, "disconnected")
    /\ UNCHANGED <<calls, listener>>

\* The listener of _closeIfNeeded takes the listeners off this.socket, which need
\* not be the socket that closed; without one it throws before anything else.
CallHears(k, l) ==
    /\ listener[k] \in Calls
    /\ link' = l
    /\ IF socket # None
       THEN /\ OnClose
            /\ state' = "connecting"
            /\ calls' = [calls EXCEPT ![listener[k]] = "ready"]
            /\ listener' = [listener EXCEPT ![socket] = None]
       ELSE UNCHANGED <<transportVars, state, calls, listener>>
    /\ UNCHANGED <<socket, tries, caller>>

\* The listener of the attempt itself.
AttemptHears(k, l) ==
    /\ listener[k] = "own"
    /\ OnClose
    /\ IF state = "connected"
       THEN /\ socket' = None
            /\ Reconnect(l, "disconnected")
       ELSE /\ link' = l
            /\ UNCHANGED <<state, socket, tries, caller>>
    /\ UNCHANGED <<calls, listener>>

\* Who hears that a socket closed.
CloseHandler(k, l) ==
    \/ CallHears(k, l)
    \/ AttemptHears(k, l)
    \/ /\ listener[k] = None
       /\ link' = l
       /\ UNCHANGED <<transportVars, state, socket, calls, listener, tries, caller>>

\* A slip, as above: the reject() of the 'error' listener is missing.
FailUnnoticed(k) ==
    /\ MayDrop(k)
    /\ link[k] # "closing"
    /\ CountDrop(k)
    /\ CloseHandler(k, [link EXCEPT ![k] = "closed"])
    /\ UNCHANGED <<retry, once, outcome, backoff, reconnects, closed, refused, gaveUp, env>>

\* 'close' alone.
Close(k) ==
    /\ MayDrop(k)
    /\ link[k] = "connecting" => env.silent
    /\ CountDrop(k)
    /\ CloseHandler(k, [link EXCEPT ![k] = "closed"])
    /\ UNCHANGED <<retry, once, outcome, backoff, reconnects, closed, refused, gaveUp, env>>

\* 'error', then 'close'.  The rejection looks at this.state, not at the attempt.
Fail(k) ==
    /\ MayDrop(k)
    /\ link[k] # "closing"
    /\ CountDrop(k)
    /\ outcome' = [outcome EXCEPT ![k] =
                     IF state = "connecting" /\ @ = "pending" THEN "rejected" ELSE @]
    /\ CloseHandler(k, [link EXCEPT ![k] = "closed"])
    /\ UNCHANGED <<retry, once, backoff, reconnects, closed, refused, gaveUp, env>>

\* The catch of connect().
ConnectFailed(k) ==
    /\ outcome[k] = "rejected"
    /\ tries[k] = 0
    /\ outcome' = [outcome EXCEPT ![k] = "handled"]
    /\ calls' = [calls EXCEPT ![caller[k]] = IF retry THEN "retrying" ELSE "failed"]
    /\ Reconnect(link, state)
    /\ UNCHANGED <<transportVars, socket, retry, once, listener, backoff, reconnects,
                   drops, closed, refused, gaveUp, env>>

\* The catch of exponentialBackoff, which knows nothing of this.retry.
TryFailed(k) ==
    /\ outcome[k] = "rejected"
    /\ tries[k] > 0
    /\ outcome' = [outcome EXCEPT ![k] = "handled"]
    /\ IF tries[k] > 1
       THEN /\ backoff' = backoff \cup {k}
            /\ UNCHANGED gaveUp
       ELSE /\ gaveUp' = TRUE
            /\ UNCHANGED backoff
    /\ UNCHANGED <<transportVars, state, socket, retry, once, link, listener, tries,
                   caller, calls, reconnects, drops, closed, refused, env>>

\* Its timer.  RECONNECT_INTERVAL is 3 seconds at least: engine.io has closed
\* by then what it was closing.
TryAgain(k) ==
    /\ k \in backoff
    /\ \A j \in Sockets : link[j] # "closing"
    /\ backoff' = backoff \ {k}
    /\ Attempt(link, tries[k] - 1, None)
    /\ UNCHANGED <<transportVars, socket, retry, once, listener, outcome, calls,
                   reconnects, drops, closed, refused, gaveUp, env>>

\* close
AppClose ==
    /\ MayClose
    /\ ~closed
    /\ env.calm => Settled
    /\ closed' = TRUE
    /\ retry' = FALSE
    /\ link' = Closing(link, socket)
    /\ UNCHANGED <<transportVars, state, socket, once, listener, outcome, tries, caller,
                   backoff, calls, reconnects, drops, refused, gaveUp, env>>

SendMessage(m) == Send(m, Open) /\ UNCHANGED socketVars
Settle(k) == Resolve(k, Open) /\ UNCHANGED socketVars

Next ==
    \/ \E c \in Calls : Connect(c) \/ DoConnect(c)
    \/ \E k \in Sockets : \/ Connected(k) \/ Refused(k) \/ Close(k) \/ Fail(k)
                          \/ ConnectFailed(k) \/ TryFailed(k) \/ TryAgain(k) \/ Settle(k)
    \/ AppClose
    \/ \E m \in Messages : SendMessage(m)

Spec == Init /\ [][Next]_vars

\* Promises and timers run; the network answers every handshake in some way, and
\* engine.io closes what it is asked to close.
FairSpec ==
    /\ Spec
    /\ \A c \in Calls : WF_vars(DoConnect(c))
    /\ \A k \in Sockets :
        /\ WF_vars(ConnectFailed(k)) /\ WF_vars(TryFailed(k)) /\ WF_vars(TryAgain(k))
        /\ WF_vars(Settle(k))
        /\ WF_vars(Connected(k) \/ Refused(k) \/ Fail(k) \/ (Close(k) /\ link[k] = "connecting"))
        /\ WF_vars(Close(k) /\ link[k] = "closing")

-----------------------------------------------------------------------------
\* Whatever sockets close, fail and connect in whatever order: while the client
\* says it is connected, this.socket is a socket that was established and whose
\* 'close' is still to come.
ConnectedHasSocket ==
    state = "connected" =>
        /\ socket # None
        /\ link[socket] \in {"connected", "closing"}

\* The end of one socket takes the listeners off another (stellarSocket.js:91), but
\* never off the socket of a client that goes on saying it is connected: when that
\* one ends, the attempt or a call of connect() hears it.
DropIsHeard == state = "connected" /\ socket # None => listener[socket] # None

\* Every handshake ends in 'connected' or 'error', and only the first refuses.
Loud == env.calm /\ ~env.silent /\ env.refusable \subseteq {0}

\* A client whose application leaves a reconnection alone has one connection or
\* attempt or backoff at a time, and never two backoffs.
OneConnection ==
    env.calm =>
        Cardinality(Live) + Cardinality(backoff)
            + Cardinality({k \in Sockets : outcome[k] = "rejected"}) <= 1

\* Every send goes to a socket that is not closed, once a promise is settled:
\* a reconnection leaves nothing of the socket before it, if that lived for 250 ms.
PromiseIsLive ==
    env.calm /\ ~env.quick /\ promise # None => link[promise] \in {"connected", "closing"}

\* stellarSocket.test.js:149, "should not trigger a reconnect event if close is
\* called manually": not then, and not later.
ClosedStaysClosed == [][closed => reconnects' = reconnects]_vars

\* It does not when close() is called on an established connection.
CalmStaysClosed == [][env.calm /\ closed => reconnects' = reconnects]_vars

\* stellarSocket.test.js:166, "should trigger an reconnect event if a network
\* close occurs": a client that is connecting gets a connection, unless every
\* retry failed, the server refused it or the application closed it.
ComesBack ==
    (Loud /\ state = "connecting") ~> (state = "connected" \/ gaveUp \/ refused \/ closed)

\* What is sent meanwhile is handed over or abandoned when the connection is back.
WaitingIsSettled ==
    \A m \in Messages :
        (Loud /\ state = "connecting" /\ msg[m] = "waiting")
            ~> (msg[m] # "waiting" \/ gaveUp \/ refused \/ closed)
=============================================================================
