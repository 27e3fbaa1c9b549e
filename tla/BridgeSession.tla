---------------------------- MODULE BridgeSession ----------------------------
(***************************************************************************)
(* packages/server-bridge/src: the engine.io bridge.  A connection gets a   *)
(* session, the newSessionHandlers run one after the other, and then each   *)
(* message of the client is a request to the services, a subscription that  *)
(* is bridged to the client, or the end of one.  The socket may close       *)
(* between any two of these steps; onClose stops what the session has       *)
(* registered and calls the offlineFn that a handler provided.              *)
(*                                                                          *)
(* The newSessionHandlers merge into one session object, so there is one    *)
(* session per socket throughout.                                           *)
(***************************************************************************)
EXTENDS Naturals, Sequences, FiniteSets

CONSTANTS
    Sessions,    \* sockets that connect, each with its session
    Channels,
    Messages,    \* messages of the clients
    From,        \* From[m]: the session whose client sends m
    Kind,        \* Kind[m]: headers.type
    Channel,     \* Channel[m]: headers.channel (of any channel for a request)
    Named,       \* messages with a headers.id.  WebsocketTransport sends
                 \* 'subscribe' and 'stopReactive' without one
    Handlers,    \* number of newSessionHandlers
    OfflineAt,   \* the one that provides offlineFn
    None

Kinds == {"request", "fireAndForget", "subscribe", "reactive", "stopReactive"}

ASSUME BridgeSessionAssumption ==
    /\ From \in [Messages -> Sessions]
    /\ Kind \in [Messages -> Kinds]
    /\ Channel \in [Messages -> Channels]
    /\ Named \subseteq Messages
    /\ Handlers \in Nat \ {0} /\ OfflineAt \in 1..Handlers
    /\ None \notin Messages

VARIABLES
    phase,       \* phase[s]
    ran,         \* ran[s]: newSessionHandlers that are through
    open,        \* sockets that are open
    client,      \* sessions with a session.client
    sessions,    \* keys of the map of sessions
    offline,     \* offline[s]: calls of offlineFn
    stoppers,    \* stoppers[s][ch]: whose subscription is in reactiveStoppers
    sub,         \* sub[m]: the subscription m asked for
    asked,       \* subscriptions whose stopper was called
    tx,          \* tx[m]: the transaction of message m
    replies,     \* replies[m]: what was sent to the client for m
    running,     \* requests to the services under way
    failed,      \* messages whose handling failed
    reported     \* messages passed to reportError

sessionVars == <<phase, ran, open, client, sessions, offline>>
messageVars == <<stoppers, sub, asked, tx, replies, running, failed, reported>>
vars == <<sessionVars, messageVars>>

Answers == {"refusal", "response", "error"}

TypeOK ==
    /\ phase \in [Sessions -> {"none", "starting", "connected", "failed"}]
    /\ ran \in [Sessions -> 0..Handlers]
    /\ client \subseteq Sessions
    /\ open \subseteq client
    /\ sessions \subseteq {s \in Sessions : phase[s] = "connected"}
    /\ offline \in [Sessions -> Nat]
    /\ stoppers \in [Sessions -> [Channels -> Messages \cup {None}]]
    /\ sub \in [Messages -> {"none", "subscribing", "active", "stopped"}]
    /\ asked \subseteq {m \in Messages : sub[m] # "none"}
    /\ tx \in [Messages -> {"none", "open", "done"}]
    /\ replies \in [Messages -> Seq(Answers)]
    /\ running \subseteq {m \in Messages : tx[m] = "open"}
    /\ failed \subseteq Messages
    /\ reported \subseteq failed

Init ==
    /\ phase = [s \in Sessions |-> "none"]
    /\ ran = [s \in Sessions |-> 0]
    /\ open = {} /\ client = {} /\ sessions = {}
    /\ offline = [s \in Sessions |-> 0]
    /\ stoppers = [s \in Sessions |-> [ch \in Channels |-> None]]
    /\ sub = [m \in Messages |-> "none"]
    /\ asked = {}
    /\ tx = [m \in Messages |-> "none"]
    /\ replies = [m \in Messages |-> <<>>]
    /\ running = {} /\ failed = {} /\ reported = {}

-----------------------------------------------------------------------------
\* The handler of a subscription is there from the call of pubsub.subscribe until
\* the stopper that it gives has run, whenever that was asked for.
Hears(m) == sub[m] \in {"subscribing", "active"}
Kept(m)  == Hears(m) /\ m \notin asked

Registered(s) == {stoppers[s][ch] : ch \in Channels} \ {None}

\* Slips in this code, one for each property (PROJECT.json, "mutants"): a session
\* is in the map before its handlers ran.
OnConnectionListed(s) ==
    /\ phase[s] = "none"
    /\ phase' = [phase EXCEPT ![s] = "starting"]
    /\ open' = open \cup {s}
    /\ client' = client \cup {s}
    /\ sessions' = sessions \cup {s}
    /\ UNCHANGED <<ran, offline, messageVars>>

\* onConnection, up to callHandlersSerially
OnConnection(s) ==
    /\ phase[s] = "none"
    /\ phase' = [phase EXCEPT ![s] = "starting"]
    /\ open' = open \cup {s}
    /\ client' = client \cup {s}
    /\ UNCHANGED <<ran, sessions, offline, messageVars>>

\* doCallHandlers: the updates of one handler are merged.
HandlerReturns(s) ==
    /\ phase[s] = "starting"
    /\ ran[s] < Handlers
    /\ ran' = [ran EXCEPT ![s] = @ + 1]
    /\ UNCHANGED <<phase, open, client, sessions, offline, messageVars>>

HandlerFails(s) ==
    /\ phase[s] = "starting"
    /\ ran[s] < Handlers
    /\ phase' = [phase EXCEPT ![s] = "failed"]
    /\ UNCHANGED <<ran, open, client, sessions, offline, messageVars>>

\* The then of onConnection: it does not ask whether the socket is still open.
SessionStarted(s) ==
    /\ phase[s] = "starting"
    /\ ran[s] = Handlers
    /\ phase' = [phase EXCEPT ![s] = "connected"]
    /\ sessions' = sessions \cup {s}
    /\ UNCHANGED <<ran, open, client, offline, messageVars>>

\* What the end of a socket leaves of its session.
EndSession(s, stopped, calls) ==
    /\ s \in open
    /\ open' = open \ {s}
    /\ client' = client \ {s}
    /\ sessions' = sessions \ {s}
    /\ offline' = [offline EXCEPT ![s] = IF ran[s] >= OfflineAt THEN @ + calls ELSE @]
    /\ asked' = asked \cup stopped
    /\ stoppers' = [stoppers EXCEPT ![s] = [ch \in Channels |-> None]]
    /\ UNCHANGED <<phase, ran, sub, tx, replies, running, failed, reported>>

\* Slips: the stoppers are dropped uncalled; the first listener is not removed.
OnCloseKeepsSubscriptions(s) == EndSession(s, {}, 1)
OnCloseTwice(s) == EndSession(s, Registered(s), 2)

\* onClose, by whichever listener: both have the same session.
OnClose(s) == EndSession(s, Registered(s), 1)

-----------------------------------------------------------------------------
Received(m) ==
    /\ phase[From[m]] = "connected"
    /\ From[m] \in open
    /\ tx[m] = "none"

Begin(m) == tx' = [tx EXCEPT ![m] = "open"] /\ running' = running \cup {m}
Reply(m, a) == replies' = [replies EXCEPT ![m] = Append(@, a)]

\* A slip: nobody looks.
DuplicateUnseen(m) == FALSE

\* Does the session have a subscription to the channel?  The id of the message
\* that made it is what is looked at.
Duplicate(m) ==
    LET first == stoppers[From[m]][Channel[m]] IN first # None /\ first \in Named

\* subscribe, registerStopper
Subscribe(m) ==
    IF Duplicate(m)
    THEN /\ Reply(m, "refusal")
         /\ UNCHANGED <<stoppers, sub>>
    ELSE /\ stoppers' = [stoppers EXCEPT ![From[m]][Channel[m]] = m]
         /\ sub' = [sub EXCEPT ![m] = "subscribing"]
         /\ UNCHANGED replies

OnRequest(m) ==
    /\ Received(m)
    /\ Kind[m] \in {"request", "fireAndForget"}
    /\ Begin(m)
    /\ UNCHANGED <<sessionVars, stoppers, sub, asked, replies, failed, reported>>

OnSubscribe(m) ==
    /\ Received(m)
    /\ Kind[m] = "subscribe"
    /\ Subscribe(m)
    /\ tx' = [tx EXCEPT ![m] = "done"]
    /\ UNCHANGED <<sessionVars, asked, running, failed, reported>>

OnReactive(m) ==
    /\ Received(m)
    /\ Kind[m] = "reactive"
    /\ Begin(m)
    /\ Subscribe(m)
    /\ UNCHANGED <<sessionVars, asked, failed, reported>>

OnStopReactive(m) ==
    /\ Received(m)
    /\ Kind[m] = "stopReactive"
    /\ asked' = asked \cup ({stoppers[From[m]][Channel[m]]} \ {None})
    /\ stoppers' = [stoppers EXCEPT ![From[m]][Channel[m]] = None]
    /\ tx' = [tx EXCEPT ![m] = "done"]
    /\ UNCHANGED <<sessionVars, sub, replies, running, failed, reported>>

\* A slip: an answer that is not sent.
AnswerUnsent(m) ==
    /\ m \in running
    /\ running' = running \ {m}
    /\ tx' = [tx EXCEPT ![m] = "done"]
    /\ UNCHANGED <<sessionVars, stoppers, sub, asked, replies, failed, reported>>

\* The services answer.  Without a client sendResponse throws, and throws again
\* in the catch of onMessage, before done() and reportError().
Answer(m) ==
    /\ m \in running
    /\ running' = running \ {m}
    /\ IF Kind[m] = "fireAndForget" \/ From[m] \in client
       THEN /\ tx' = [tx EXCEPT ![m] = "done"]
            /\ IF Kind[m] = "fireAndForget" THEN UNCHANGED replies ELSE Reply(m, "response")
            /\ UNCHANGED failed
       ELSE /\ failed' = failed \cup {m}
            /\ UNCHANGED <<tx, replies>>
    /\ UNCHANGED <<sessionVars, stoppers, sub, asked, reported>>

\* handleMessage rejects.
Fail(m) ==
    /\ m \in running
    /\ running' = running \ {m}
    /\ failed' = failed \cup {m}
    /\ IF From[m] \in client
       THEN /\ Reply(m, "error")
            /\ tx' = [tx EXCEPT ![m] = "done"]
            /\ reported' = reported \cup {m}
       ELSE UNCHANGED <<replies, tx, reported>>
    /\ UNCHANGED <<sessionVars, stoppers, sub, asked>>

\* The promise of pubsub.subscribe, and the stopper it gives.
Subscribed(m) ==
    /\ sub[m] = "subscribing"
    /\ sub' = [sub EXCEPT ![m] = "active"]
    /\ UNCHANGED <<sessionVars, stoppers, asked, tx, replies, running, failed, reported>>

Stopped(m) ==
    /\ sub[m] = "active"
    /\ m \in asked
    /\ sub' = [sub EXCEPT ![m] = "stopped"]
    /\ UNCHANGED <<sessionVars, stoppers, asked, tx, replies, running, failed, reported>>

Next ==
    \/ \E s \in Sessions : \/ OnConnection(s) \/ HandlerReturns(s) \/ HandlerFails(s)
                           \/ SessionStarted(s) \/ OnClose(s)
    \/ \E m \in Messages : \/ OnRequest(m) \/ OnSubscribe(m) \/ OnReactive(m)
                           \/ OnStopReactive(m) \/ Answer(m) \/ Fail(m)
                           \/ Subscribed(m) \/ Stopped(m)

Spec == Init /\ [][Next]_vars

\* Requests have a timeout, handlers return, Redis answers.
FairSpec ==
    /\ Spec
    /\ \A m \in Messages : WF_vars(Answer(m) \/ Fail(m)) /\ WF_vars(Subscribed(m))
                              /\ WF_vars(Stopped(m))
    /\ \A s \in Sessions : WF_vars(HandlerReturns(s) \/ HandlerFails(s))
                              /\ WF_vars(SessionStarted(s))

-----------------------------------------------------------------------------
\* Subscriptions that no other one replaces in the map of stoppers: those with an
\* id, and those that are alone on the channel of their session.
Subscribing == {m \in Messages : Kind[m] \in {"subscribe", "reactive"}}
Lasting ==
    {m \in Messages :
        \/ m \in Named
        \/ \A n \in Subscribing : From[n] = From[m] /\ Channel[n] = Channel[m] => n = m}

\* handleMessageFactory.js:36, "Multiple subscriptions to same channel ... not
\* supported": two of a session hear a channel only until the stop that one of them
\* was asked for has waited for its registration and is done.
OneSubscriptionPerChannel ==
    \A m1, m2 \in Lasting :
        (/\ Hears(m1) /\ Hears(m2) /\ m1 # m2
         /\ From[m1] = From[m2] /\ Channel[m1] = Channel[m2])
            => m1 \in asked \/ m2 \in asked

\* When a session is gone, all its subscriptions that still hear were asked to
\* stop, at whatever moment of their registration it closed.
ClosedHearsNothing ==
    \A m \in Lasting : Hears(m) /\ From[m] \notin client => m \in asked

\* However the start of the session and the end of the socket interleave: offlineFn
\* is called once at most, only when the session is gone, and always when a session
\* leaves the map.
OfflineOnce ==
    \A s \in Sessions :
        /\ offline[s] <= 1 /\ (offline[s] = 1 => s \notin client)
        /\ phase[s] = "connected" /\ s \notin sessions => offline[s] = 1

\* attachEngineIoBridgeToServer.test.js:504, "should call offlineFn when the
\* socket closes".
ClosedIsOffline ==
    \A s \in Sessions : phase[s] = "connected" => (s \in open <=> offline[s] = 0)

\* Whoever stays gets an answer.
StayingIsAnswered ==
    \A m \in Messages :
        (m \in running /\ Kind[m] # "fireAndForget")
            ~> (m \notin running /\ (replies[m] # <<>> \/ From[m] \notin open))

\* The subscriptions of a session that closed stop, those whose registration was
\* under way included.
ClosedIsForgotten ==
    \A s \in Sessions :
        (phase[s] = "connected" /\ s \notin open)
            ~> \A m \in Lasting : From[m] = s => ~Hears(m)
=============================================================================
