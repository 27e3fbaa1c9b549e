------------------------- MODULE BridgedSubscription -------------------------
(***************************************************************************)
(* One client's subscriptions to one channel, from the application through  *)
(* the bridge and back: getReactive of StellarRequest or subscribe of       *)
(* StellarPubSub (packages/core), also by way of client-redux, over the     *)
(* client's WebsocketTransport, to the sessions of BridgeSession.           *)
(*                                                                          *)
(* Connections are numbered in the order in which the client makes them.    *)
(* A connection may end on either side first, and the other side notices    *)
(* later.  How the client decides to connect is in StellarSocket, what it   *)
(* does with a refused session too: here session handlers accept, and a     *)
(* connection lives for 250 ms after it is established.                     *)
(*                                                                          *)
(* A plain subscribe is made when nobody else is subscribed, and nobody     *)
(* joins it (the bridge loses the first of two: README, section 4).  The    *)
(* client has no asynchronous middlewares.                                  *)
(***************************************************************************)
EXTENDS Naturals, Sequences, FiniteSets

CONSTANTS
    Subs,          \* subscriptions that the application makes
    Casts,         \* how it may make them: functions from Subs to Ways
    Sessions,      \* connections: 1..n
    Publications,
    Jobs,          \* bound: how often a bridge is given the job of a publication
    None

\* getReactive of StellarRequest, the same by client-redux, subscribe of StellarPubSub.
Ways == {"getReactive", "redux", "subscribe"}

\* The messages of the client, each as sent over one connection.
Messages == Subs \X {"subscribe", "reactive", "stopReactive"} \X Sessions
From     == [m \in Messages |-> m[3]]
Kind     == [m \in Messages |-> m[2]]
Channels == {"channel"}
Channel  == [m \in Messages |-> "channel"]
Named    == {m \in Messages : m[2] = "reactive"}
Handlers == 1
OfflineAt == 1

\* Each bridge has a job of its own for a publication (QueuePubSub), and the queue
\* gives one again whose bridge stalls or dies (QueueRpc).
Deliveries == Publications \X (1..Jobs)

ASSUME BridgedSubscriptionAssumption ==
    /\ IsFiniteSet(Subs) /\ IsFiniteSet(Sessions)
    /\ Casts \subseteq [Subs -> Ways]
    /\ Sessions \subseteq Nat \ {0}
    /\ Jobs \in Nat
    /\ None \notin Sessions /\ None \notin Deliveries /\ None \notin Messages

VARIABLES
    way,        \* way[s]: how s is made
    status,     \* status[s]
    result,     \* result[s]: the promise of its request, which client-redux awaits
    link,       \* the connection of the client's transport
    stage,      \* how far it is: settled when sends no longer wait for it
    parked,     \* sends that wait for this.socket
    up, down,   \* up[k], down[k]: what is on its way over connection k
    relayed,    \* deliveries that a bridge handled
    heard,      \* heard[s][d]: calls of the handler of s because of d
    shared,     \* history: made while another one was live
    robbed      \* history: live while another one was stopped

clientVars == <<way, status, result, link, stage, parked, heard, shared, robbed>>

VARIABLES phase, ran, open, client, sessions, offline,
          stoppers, sub, asked, tx, replies, running, failed, reported

bridgeVars == <<phase, ran, open, client, sessions, offline,
                stoppers, sub, asked, tx, replies, running, failed, reported>>
vars == <<clientVars, up, down, relayed, bridgeVars>>

Bridge == INSTANCE BridgeSession

Events == [sub : Subs, answer : Bridge!Answers, pub : {None}]
            \cup [sub : {None}, answer : {None}, pub : Deliveries]

TypeOK ==
    /\ Bridge!TypeOK
    /\ way \in [Subs -> Ways]
    /\ status \in [Subs -> {"idle", "live", "stopped"}]
    /\ result \in [Subs -> {"none", "pending", "ok", "failed"}]
    /\ link \in Sessions \cup {None}
    /\ stage \in {"none", "connecting", "connected", "settled"}
    /\ link = None <=> stage = "none"
    /\ parked \in Seq(Subs \X {"subscribe", "reactive", "stopReactive"})
    /\ stage = "settled" => parked = <<>>
    /\ up \in [Sessions -> Seq(Messages)] /\ down \in [Sessions -> Seq(Events)]
    /\ relayed \subseteq Deliveries
    /\ heard \in [Subs -> [Deliveries -> Nat]]
    /\ shared \subseteq Subs /\ robbed \subseteq Subs

Init ==
    /\ Bridge!Init
    /\ way \in Casts
    /\ status = [s \in Subs |-> "idle"]
    /\ result = [s \in Subs |-> "none"]
    /\ link = None /\ stage = "none" /\ parked = <<>>
    /\ up = [k \in Sessions |-> <<>>]
    /\ down = [k \in Sessions |-> <<>>]
    /\ relayed = {}
    /\ heard = [s \in Subs |-> [d \in Deliveries |-> 0]]
    /\ shared = {} /\ robbed = {}

-----------------------------------------------------------------------------
Live  == {s \in Subs : status[s] = "live"}
Plain == {s \in Subs : way[s] = "subscribe"}
Redux == {s \in Subs : way[s] = "redux"}

On(k, sends) == [i \in DOMAIN sends |-> <<sends[i][1], sends[i][2], k>>]

\* What is on its way when its end of the connection is gone is lost.
Up(k, sends) == [up EXCEPT ![k] = IF k \in open THEN @ \o On(k, sends) ELSE @]
Down(k, events) == IF k = link THEN down[k] \o events ELSE <<>>

\* send: what comes before the promise of the socket is settled waits for it.
Send(sends) ==
    IF stage = "settled"
    THEN up' = Up(link, sends) /\ UNCHANGED parked
    ELSE parked' = parked \o sends /\ UNCHANGED up

\* getReactive sends its request, then pubsub.subscribe sends 'subscribe'.
Opening(s) == IF s \in Plain THEN <<<<s, "subscribe">>>>
              ELSE <<<<s, "reactive">>, <<s, "subscribe">>>>

Subscribe(s) ==
    /\ status[s] = "idle"
    /\ s \in Plain => Live = {}
    /\ Live \cap Plain = {}
    /\ status' = [status EXCEPT ![s] = "live"]
    /\ result' = [result EXCEPT ![s] = IF s \in Redux THEN "pending" ELSE "none"]
    /\ shared' = IF Live = {} THEN shared ELSE shared \cup {s}
    /\ Send(Opening(s))
    /\ UNCHANGED <<way, link, stage, down, relayed, heard, robbed, bridgeVars>>

\* client-redux has a stopper once the results have arrived.
Stoppable(s) == status[s] = "live" /\ (s \in Redux => result[s] = "ok")

Stopping(s) ==
    /\ Stoppable(s)
    /\ status' = [status EXCEPT ![s] = "stopped"]
    /\ robbed' = robbed \cup (Live \ {s})
    /\ UNCHANGED <<way, result, link, stage, down, relayed, heard, shared, bridgeVars>>

\* Slips in this code (PROJECT.json, "mutants"): the stopper only removes the
\* listener.
StopQuiet(s) == Stopping(s) /\ UNCHANGED <<parked, up>>

Stop(s) == Stopping(s) /\ Send(<<<<s, "stopReactive">>>>)

\* The caller's timeout, or the services answer with an error; an answer that
\* comes later finds no request.
TimesOut(s) ==
    /\ result[s] = "pending"
    /\ result' = [result EXCEPT ![s] = "failed"]
    /\ UNCHANGED <<way, status, link, stage, parked, heard, shared, robbed,
                   up, down, relayed, bridgeVars>>

-----------------------------------------------------------------------------
ClientUnchanged == UNCHANGED <<way, status, result, heard, shared, robbed, relayed>>

Connect(k) ==
    /\ stage = "none"
    /\ \A j \in Sessions : j < k => phase[j] # "none"
    /\ Bridge!OnConnection(k)
    /\ link' = k /\ stage' = "connecting"
    /\ UNCHANGED <<parked, up, down>> /\ ClientUnchanged

\* The 'connected' message, setSocket.
Connected ==
    /\ stage = "connecting" /\ phase[link] = "connected"
    /\ stage' = "connected"
    /\ UNCHANGED <<link, parked, up, down, bridgeVars>> /\ ClientUnchanged

\* A slip: setSocket forgets that sends wait.
SettleUnflushed ==
    /\ stage = "connected" /\ stage' = "settled"
    /\ UNCHANGED <<link, parked, up, down, bridgeVars>> /\ ClientUnchanged

\* Its timer: what waits is sent.
Settle ==
    /\ stage = "connected" /\ stage' = "settled"
    /\ up' = Up(link, parked)
    /\ parked' = <<>>
    /\ UNCHANGED <<link, down, bridgeVars>> /\ ClientUnchanged

\* onClose: a promise that was pending is replaced with the sends that wait for it.
Drop ==
    /\ stage # "none"
    /\ link' = None /\ stage' = "none" /\ parked' = <<>>
    /\ down' = [down EXCEPT ![link] = <<>>]
    /\ UNCHANGED <<up, bridgeVars>> /\ ClientUnchanged

-----------------------------------------------------------------------------
\* What the bridge answers goes down (the refusal of a 'subscribe' names no
\* request, and finds none).
Answered(k) == {m \in Named : m[1] \in Redux /\ From[m] = k /\ replies'[m] # replies[m]}

Forward ==
    down' = [k \in Sessions |->
               IF Answered(k) = {} THEN down[k]
               ELSE LET m == CHOOSE m \in Answered(k) : TRUE IN
                    Down(k, <<[sub |-> m[1], pub |-> None,
                               answer |-> replies'[m][Len(replies'[m])]]>>)]

Handle(m) == Bridge!OnReactive(m) \/ Bridge!OnSubscribe(m) \/ Bridge!OnStopReactive(m)

\* A slip: the messages of a client are handled in another order.
ReceiveLast(k) ==
    /\ up[k] # <<>>
    /\ Handle(up[k][Len(up[k])])
    /\ up' = [up EXCEPT ![k] = SubSeq(@, 1, Len(@) - 1)]
    /\ Forward /\ UNCHANGED <<clientVars, relayed>>

Receive(k) ==
    /\ up[k] # <<>>
    /\ Handle(Head(up[k]))
    /\ up' = [up EXCEPT ![k] = Tail(@)]
    /\ Forward /\ UNCHANGED <<clientVars, relayed>>

SessionStep(k) ==
    /\ \/ (Bridge!HandlerReturns(k) \/ Bridge!SessionStarted(k)) /\ UNCHANGED up
       \/ Bridge!OnClose(k) /\ up' = [up EXCEPT ![k] = <<>>]
    /\ UNCHANGED <<clientVars, down, relayed>>

MessageStep(m) ==
    /\ Bridge!Answer(m) \/ Bridge!Subscribed(m) \/ Bridge!Stopped(m)
    /\ Forward
    /\ UNCHANGED <<clientVars, up, relayed>>

\* bridgeSubscribe: the handlers of the channel on the bridge of connection k.
Relays(k) == {m \in Messages : From[m] = k /\ k \in client /\ Bridge!Hears(m)}

\* A bridge handles a job: it relays the publication to the sessions that it has, K
\* of this client.  Which of the connections are to one bridge is left open.
Relay(d, K) ==
    /\ d \notin relayed
    /\ \A n \in 1..(d[2] - 1) : <<d[1], n>> \in relayed
    /\ \E k \in K : Relays(k) # {}
    /\ relayed' = relayed \cup {d}
    /\ down' = [k \in Sessions |->
                  IF k \notin K THEN down[k]
                  ELSE Down(k, [i \in 1..Cardinality(Relays(k)) |->
                                  [sub |-> None, answer |-> None, pub |-> d]])]
    /\ UNCHANGED <<clientVars, up, bridgeVars>>

\* The 'message' listener of setSocket: a publication goes to every local
\* subscription, an answer to the request that waits for it.
Hear ==
    /\ stage \in {"connected", "settled"} /\ down[link] # <<>>
    /\ down' = [down EXCEPT ![link] = Tail(@)]
    /\ LET e == Head(down[link]) IN
       IF e.pub # None
       THEN /\ heard' = [s \in Subs |-> IF s \in Live THEN [heard[s] EXCEPT ![e.pub] = @ + 1]
                                        ELSE heard[s]]
            /\ UNCHANGED result
       ELSE /\ result' = [result EXCEPT ![e.sub] =
                  IF @ # "pending" THEN @ ELSE IF e.answer = "response" THEN "ok" ELSE "failed"]
            /\ UNCHANGED heard
    /\ UNCHANGED <<way, status, link, stage, parked, shared, robbed, up, relayed, bridgeVars>>

Next ==
    \/ \E s \in Subs : Subscribe(s) \/ Stop(s) \/ TimesOut(s)
    \/ \E k \in Sessions : Connect(k) \/ Receive(k) \/ SessionStep(k)
    \/ Connected \/ Settle \/ Drop \/ Hear
    \/ \E m \in Messages : MessageStep(m)
    \/ \E d \in Deliveries, K \in SUBSET Sessions : Relay(d, K)

Spec == Init /\ [][Next]_vars

-----------------------------------------------------------------------------
Opener(s, k) == <<s, IF s \in Plain THEN "subscribe" ELSE "reactive", k>>

\* Whoever is subscribed over the present connection is bridged there, by its own
\* registration or by that of another subscription, unless another one was
\* stopped meanwhile (the bridge has one subscription for all): no refusal, no
\* stop that was sent before, no end of an earlier session takes it away.
LiveIsBridged ==
    \A s \in Live \ robbed :
        (link # None /\ link \in open /\ tx[Opener(s, link)] # "none")
            => \E m \in Messages : From[m] = link /\ Bridge!Kept(m)

\* handleMessageFactory.js:34: a getReactive is refused only when the application
\* had another subscription when it was made; one that was stopped before, over
\* whatever connection, is no reason.
RefusedWhileShared ==
    \A m \in Named : (\E i \in DOMAIN replies[m] : replies[m][i] = "refusal") => m[1] \in shared

\* Each job that a bridge handles is heard once by each subscription, however many
\* share the channel and whatever connections it is relayed to: a publication is
\* heard as often as its job was given, to whichever bridge.  More often only when
\* another subscription was stopped: its registration may still be under way on the
\* bridge (startSessionFactory.js:31).
HeardOnce ==
    \A s \in Subs, d \in Deliveries :
        heard[s][d] > 1 => \E t \in Subs \ {s} : status[t] = "stopped"

\* Nothing is on its way, both sides know which connection there is, and the bridge
\* has registered and stopped what it was asked to.  Without a step of the client
\* such a state is always reached: each of these steps happens once.
Quiet ==
    /\ \A k \in Sessions : up[k] = <<>> /\ (k \in open => k = link)
    /\ \A m \in Messages : sub[m] # "subscribing" /\ (m \in asked => sub[m] = "stopped")

\* When the application has stopped its subscriptions, the bridge hears nothing
\* for it in the end, whether the stop was sent over the connection of the
\* subscription, over a later one, or was lost.
StoppedIsForgotten == (Live = {} /\ Quiet) => \A m \in Messages : ~Bridge!Hears(m)
=============================================================================
