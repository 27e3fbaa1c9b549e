------------------------ MODULE BridgeSessionProofs -------------------------
(***************************************************************************)
(* Proofs about BridgeSession, for any sessions, channels and messages and  *)
(* any number of session handlers.                                          *)
(*                                                                          *)
(* The bridge knows the subscriptions of a session by their stoppers only.  *)
(* So everything rests on one fact: what hears, and was not asked to stop,   *)
(* has its stopper in the map (KeptByItsStopper).  It is not true of a plain *)
(* subscribe to a channel to which its session subscribes again: the check  *)
(* for duplicates looks at an id that it does not have, and its stopper is  *)
(* replaced.  Lasting leaves out those messages, and no others.             *)
(***************************************************************************)
EXTENDS BridgeSession, TLAPS

-----------------------------------------------------------------------------
\* A stopper is kept under the session and the channel of its subscription, as long
\* as the session has a client, and has not been called.
StoppersAreFiled ==
    \A s \in Sessions, ch \in Channels, m \in Messages :
        stoppers[s][ch] = m => /\ From[m] = s /\ Channel[m] = ch
                               /\ Kept(m)
                               /\ s \in client

\* What hears and was not asked to stop has its stopper in the map.
KeptByItsStopper ==
    \A m \in Lasting : Kept(m) => stoppers[From[m]][Channel[m]] = m

\* Only messages that ask for a subscription, and were handled, have one.
SubscriptionsWereAsked ==
    \A m \in Messages : sub[m] # "none" => m \in Subscribing /\ tx[m] # "none"

\* A client is there exactly as long as its socket, and not before it.
ClientsAreOpen ==
    /\ client = open
    /\ \A s \in Sessions : phase[s] = "none" => s \notin open

\* offlineFn was called when the socket closed, by as many handlers as had run.
OfflineByClosing ==
    \A s \in Sessions :
        /\ s \in open \/ phase[s] = "none" => offline[s] = 0
        /\ offline[s] \in {0, 1}
        /\ phase[s] = "connected" => ran[s] = Handlers
        /\ phase[s] = "connected" /\ s \notin sessions => offline[s] = 1

IInv ==
    /\ TypeOK
    /\ StoppersAreFiled
    /\ KeptByItsStopper
    /\ SubscriptionsWereAsked
    /\ ClientsAreOpen
    /\ OfflineByClosing

-----------------------------------------------------------------------------
USE BridgeSessionAssumption

\* An answer is put behind the others.
LEMMA ReplyKeepsType ==
    ASSUME TypeOK, NEW m \in Messages, NEW a \in Answers, Reply(m, a)
    PROVE  replies' \in [Messages -> Seq(Answers)]
  <1>1. replies[m] \in Seq(Answers)
    BY DEF TypeOK
  <1>2. Append(replies[m], a) \in Seq(Answers)
    BY <1>1
  <1>3. replies' = [replies EXCEPT ![m] = Append(replies[m], a)]
    BY DEF Reply
  <1> QED
    BY <1>2, <1>3 DEF TypeOK

\* The bridge before the first connection.
LEMMA InitIInv == Init => IInv
  <1> SUFFICES ASSUME Init PROVE IInv
    OBVIOUS
  <1>1. TypeOK
    BY DEF Init, TypeOK
  <1>2. StoppersAreFiled
    BY DEF Init, StoppersAreFiled
  <1>3. KeptByItsStopper /\ SubscriptionsWereAsked
    BY DEF Init, KeptByItsStopper, Lasting, Kept, Hears, SubscriptionsWereAsked
  <1>4. ClientsAreOpen /\ OfflineByClosing
    BY DEF Init, ClientsAreOpen, OfflineByClosing
  <1> QED
    BY <1>1, <1>2, <1>3, <1>4 DEF IInv

\* A session begins, or gets on with its handlers: its subscriptions do not change.
LEMMA StartingKeepsIInv ==
    ASSUME IInv, NEW s \in Sessions,
           OnConnection(s) \/ HandlerReturns(s) \/ HandlerFails(s) \/ SessionStarted(s)
    PROVE  IInv'
  <1>1. /\ UNCHANGED messageVars /\ UNCHANGED offline
        /\ client \subseteq client'
    BY DEF OnConnection, HandlerReturns, HandlerFails, SessionStarted
  <1>2. TypeOK'
    <2>1. CASE OnConnection(s)
      BY <2>1 DEF OnConnection, messageVars, IInv, TypeOK
    <2>2. CASE HandlerReturns(s)
      BY <2>2 DEF HandlerReturns, messageVars, IInv, TypeOK
    <2>3. CASE HandlerFails(s)
      BY <2>3 DEF HandlerFails, messageVars, IInv, TypeOK
    <2>4. CASE SessionStarted(s)
      BY <2>4 DEF SessionStarted, messageVars, IInv, TypeOK
    <2> QED
      BY <2>1, <2>2, <2>3, <2>4
  <1>3. StoppersAreFiled'
    BY <1>1 DEF messageVars, IInv, StoppersAreFiled, Kept, Hears
  <1>4. KeptByItsStopper' /\ SubscriptionsWereAsked'
    BY <1>1 DEF messageVars, IInv, KeptByItsStopper, Kept, Hears, SubscriptionsWereAsked
  <1>5. ClientsAreOpen'
    BY DEF OnConnection, HandlerReturns, HandlerFails, SessionStarted,
           IInv, TypeOK, ClientsAreOpen
  <1>6. OfflineByClosing'
    <2>1. CASE OnConnection(s)
      BY <2>1, <1>1 DEF OnConnection, IInv, TypeOK, ClientsAreOpen, OfflineByClosing
    <2>2. CASE HandlerReturns(s)
      BY <2>2, <1>1 DEF HandlerReturns, IInv, TypeOK, OfflineByClosing
    <2>3. CASE HandlerFails(s)
      BY <2>3, <1>1 DEF HandlerFails, IInv, TypeOK, OfflineByClosing
    <2>4. CASE SessionStarted(s)
      BY <2>4, <1>1 DEF SessionStarted, IInv, TypeOK, OfflineByClosing
    <2> QED
      BY <2>1, <2>2, <2>3, <2>4
  <1> QED
    BY <1>2, <1>3, <1>4, <1>5, <1>6 DEF IInv

\* The end of a socket calls the stoppers it finds, and forgets them: nothing that
\* they do not know is left in its session.
LEMMA CloseKeepsIInv ==
    ASSUME IInv, NEW s \in Sessions, OnClose(s)
    PROVE  IInv'
  <1>1. /\ s \in open
        /\ open' = open \ {s} /\ client' = client \ {s} /\ sessions' = sessions \ {s}
        /\ asked' = asked \cup Registered(s)
        /\ stoppers' = [stoppers EXCEPT ![s] = [ch \in Channels |-> None]]
        /\ UNCHANGED <<phase, ran, sub, tx, replies, running, failed, reported>>
    BY DEF OnClose, EndSession
  <1>2. /\ offline' = [offline EXCEPT ![s] = IF ran[s] >= OfflineAt THEN @ + 1 ELSE @]
    BY DEF OnClose, EndSession
  <1>3. TypeOK /\ StoppersAreFiled /\ KeptByItsStopper
    BY DEF IInv
  <1>4. \A m \in Registered(s) : m \in Messages /\ From[m] = s /\ sub[m] # "none"
    <2> SUFFICES ASSUME NEW ch \in Channels, stoppers[s][ch] # None
                 PROVE  LET m == stoppers[s][ch]
                        IN  m \in Messages /\ From[m] = s /\ sub[m] # "none"
      BY DEF Registered
    <2>1. s \in Sessions /\ stoppers[s][ch] \in Messages
      BY <1>3 DEF TypeOK
    <2> QED
      BY <2>1, <1>3 DEF StoppersAreFiled, Kept, Hears
  <1>5. TypeOK'
    BY <1>1, <1>2, <1>3, <1>4 DEF TypeOK
  <1>7. StoppersAreFiled'
    <2> SUFFICES ASSUME NEW t \in Sessions, NEW ch \in Channels, NEW m \in Messages,
                        stoppers'[t][ch] = m
                 PROVE  /\ From[m] = t /\ Channel[m] = ch
                        /\ Kept(m)' /\ t \in client'
      BY DEF StoppersAreFiled
    <2>1. t # s /\ stoppers[t][ch] = m
      BY <1>1, <1>3, BridgeSessionAssumption DEF TypeOK
    <2>2. m \notin Registered(s)
      BY <2>1, <1>3, <1>4 DEF StoppersAreFiled
    <2> QED
      BY <2>1, <2>2, <1>1, <1>3 DEF StoppersAreFiled, Kept, Hears
  <1>8. KeptByItsStopper'
    <2> SUFFICES ASSUME NEW m \in Lasting, Kept(m)'
                 PROVE  stoppers'[From[m]][Channel[m]] = m
      BY DEF KeptByItsStopper
    <2>1. m \in Messages /\ Kept(m) /\ m \notin Registered(s)
      BY <1>1 DEF Kept, Hears, Lasting
    <2>2. stoppers[From[m]][Channel[m]] = m
      BY <2>1, <1>3 DEF KeptByItsStopper
    <2>3. From[m] # s
      BY <2>1, <2>2 DEF Registered
    <2> QED
      BY <2>1, <2>2, <2>3, <1>1, <1>3 DEF TypeOK
  <1>9. SubscriptionsWereAsked'
    BY <1>1 DEF IInv, SubscriptionsWereAsked
  <1>10. ClientsAreOpen'
    BY <1>1 DEF IInv, ClientsAreOpen
  <1>11. OfflineByClosing'
    BY <1>1, <1>2, <1>3 DEF IInv, TypeOK, ClientsAreOpen, OfflineByClosing
  <1> QED
    BY <1>5, <1>7, <1>8, <1>9, <1>10, <1>11 DEF IInv

\* What concerns requests alone.
LEMMA RequestKeepsIInv ==
    ASSUME IInv, NEW m \in Messages, OnRequest(m) \/ Answer(m) \/ Fail(m)
    PROVE  IInv'
  <1>1. UNCHANGED <<sessionVars, stoppers, sub, asked>>
    BY DEF OnRequest, Answer, Fail
  <1>2. /\ tx \in [Messages -> {"none", "open", "done"}]
        /\ \A n \in Messages : n # m => tx'[n] = tx[n]
        /\ tx'[m] # "none"
    BY DEF OnRequest, Answer, Fail, Begin, IInv, TypeOK
  <1>3. TypeOK'
    <2>1. CASE OnRequest(m)
      BY <2>1 DEF OnRequest, Begin, Received, sessionVars, IInv, TypeOK
    <2>2. CASE Answer(m)
      <3>1. replies' \in [Messages -> Seq(Answers)]
        BY <2>2, ReplyKeepsType DEF Answer, Answers, IInv, TypeOK
      <3> QED
        BY <2>2, <3>1 DEF Answer, sessionVars, IInv, TypeOK
    <2>3. CASE Fail(m)
      <3>1. replies' \in [Messages -> Seq(Answers)]
        BY <2>3, ReplyKeepsType DEF Fail, Answers, IInv, TypeOK
      <3> QED
        BY <2>3, <3>1 DEF Fail, sessionVars, IInv, TypeOK
    <2> QED
      BY <2>1, <2>2, <2>3
  <1>4. StoppersAreFiled' /\ KeptByItsStopper'
    BY <1>1 DEF sessionVars, IInv, StoppersAreFiled, KeptByItsStopper, Kept, Hears
  <1>5. SubscriptionsWereAsked'
    BY <1>1, <1>2 DEF sessionVars, IInv, SubscriptionsWereAsked
  <1>6. ClientsAreOpen' /\ OfflineByClosing'
    BY <1>1 DEF sessionVars, IInv, ClientsAreOpen, OfflineByClosing
  <1> QED
    BY <1>3, <1>4, <1>5, <1>6 DEF IInv

\* A new subscription, unless its channel has one with an id: the one it replaces
\* was not to last.
LEMMA SubscribeKeepsIInv ==
    ASSUME IInv, NEW m \in Messages, OnSubscribe(m) \/ OnReactive(m)
    PROVE  IInv'
  <1>1. /\ Received(m) /\ m \in Subscribing /\ Subscribe(m)
        /\ UNCHANGED <<sessionVars, asked, failed, reported>>
    BY DEF OnSubscribe, OnReactive, Subscribing
  <1>2. TypeOK /\ StoppersAreFiled /\ KeptByItsStopper /\ SubscriptionsWereAsked
    BY DEF IInv
  <1>3. /\ From[m] \in Sessions /\ Channel[m] \in Channels /\ From[m] \in client
        /\ sub[m] = "none" /\ m \notin asked /\ m # None
    BY <1>1, <1>2 DEF Received, TypeOK, SubscriptionsWereAsked
  <1>4. /\ \A n \in Messages : n # m => tx'[n] = tx[n]
        /\ tx'[m] # "none"
    BY <1>2 DEF OnSubscribe, OnReactive, Begin, TypeOK
  <1>5. TypeOK'
    <2>1. tx' \in [Messages -> {"none", "open", "done"}]
          /\ running' \subseteq {n \in Messages : tx'[n] = "open"}
      <3>1. /\ tx \in [Messages -> {"none", "open", "done"}]
            /\ running \subseteq {n \in Messages : tx[n] = "open"}
            /\ tx[m] = "none"
        BY <1>1, <1>2 DEF Received, TypeOK
      <3>2. CASE OnSubscribe(m)
        BY <3>1, <3>2 DEF OnSubscribe
      <3>3. CASE OnReactive(m)
        BY <3>1, <3>3 DEF OnReactive, Begin
      <3> QED
        BY <3>2, <3>3
    <2>2. replies' \in [Messages -> Seq(Answers)]
      BY <1>1, <1>2, ReplyKeepsType DEF Subscribe, Answers, TypeOK
    <2>3. /\ stoppers' \in [Sessions -> [Channels -> Messages \cup {None}]]
          /\ sub' \in [Messages -> {"none", "subscribing", "active", "stopped"}]
          /\ asked' \subseteq {n \in Messages : sub'[n] # "none"}
      <3>1. CASE UNCHANGED <<stoppers, sub>>
        BY <3>1, <1>1, <1>2 DEF TypeOK
      <3>2. CASE /\ stoppers' = [stoppers EXCEPT ![From[m]][Channel[m]] = m]
                 /\ sub' = [sub EXCEPT ![m] = "subscribing"]
        <4>1. stoppers' \in [Sessions -> [Channels -> Messages \cup {None}]]
          BY <3>2, <1>2, <1>3 DEF TypeOK
        <4> QED
          BY <4>1, <3>2, <1>1, <1>2 DEF TypeOK
      <3> QED
        BY <3>1, <3>2, <1>1 DEF Subscribe
    <2> QED
      BY <2>1, <2>2, <2>3, <1>1, <1>2 DEF sessionVars, TypeOK
  <1>6. CASE Duplicate(m)
    <2>1. UNCHANGED <<stoppers, sub>>
      BY <1>1, <1>6 DEF Subscribe
    <2>2. StoppersAreFiled' /\ KeptByItsStopper'
      BY <1>1, <1>2, <2>1 DEF sessionVars, StoppersAreFiled, KeptByItsStopper, Kept, Hears
    <2>3. SubscriptionsWereAsked'
      BY <1>2, <1>4, <2>1 DEF SubscriptionsWereAsked
    <2> QED
      BY <1>1, <1>5, <2>2, <2>3 DEF sessionVars, IInv, ClientsAreOpen, OfflineByClosing
  <1>7. CASE ~Duplicate(m)
    <2> DEFINE s == From[m]
               ch == Channel[m]
    <2>1. /\ stoppers' = [stoppers EXCEPT ![s][ch] = m]
          /\ sub' = [sub EXCEPT ![m] = "subscribing"]
      BY <1>1, <1>7 DEF Subscribe
    <2>2. /\ stoppers'[s][ch] = m
          /\ \A t \in Sessions, c \in Channels :
                <<t, c>> # <<s, ch>> => stoppers'[t][c] = stoppers[t][c]
      BY <1>2, <1>3, <2>1 DEF TypeOK
    <2>3. sub'[m] = "subscribing" /\ \A n \in Messages : n # m => sub'[n] = sub[n]
      BY <1>2, <2>1 DEF TypeOK
    <2>4. Kept(m)' /\ \A n \in Messages : n # m => Kept(n)' = Kept(n)
      BY <1>1, <1>3, <2>3 DEF Kept, Hears
    <2>5. StoppersAreFiled'
      <3> SUFFICES ASSUME NEW t \in Sessions, NEW c \in Channels, NEW n \in Messages,
                          stoppers'[t][c] = n
                   PROVE  /\ From[n] = t /\ Channel[n] = c
                          /\ Kept(n)' /\ t \in client'
        BY DEF StoppersAreFiled
      <3>1. CASE t = s /\ c = ch
        BY <3>1, <1>1, <1>3, <2>2, <2>4 DEF sessionVars
      <3>2. CASE <<t, c>> # <<s, ch>>
        <4>1. stoppers[t][c] = n /\ Kept(n)
          BY <3>2, <1>2, <2>2 DEF StoppersAreFiled
        <4>2. n # m
          BY <4>1, <1>3 DEF Kept, Hears
        <4> QED
          BY <4>1, <4>2, <1>1, <1>2, <2>4 DEF StoppersAreFiled, sessionVars
      <3> QED
        BY <3>1, <3>2
    <2>6. KeptByItsStopper'
      <3> SUFFICES ASSUME NEW n \in Lasting, Kept(n)', n # m
                   PROVE  stoppers'[From[n]][Channel[n]] = n
        BY <2>2 DEF KeptByItsStopper
      <3>1. n \in Messages /\ Kept(n) /\ stoppers[From[n]][Channel[n]] = n
        BY <1>2, <2>4 DEF Lasting, KeptByItsStopper
      <3>2. ~(From[n] = s /\ Channel[n] = ch)
        BY <3>1, <1>1, <1>7 DEF Lasting, Duplicate
      <3> QED
        BY <3>1, <3>2, <2>2
    <2>7. SubscriptionsWereAsked'
      BY <1>1, <1>2, <1>4, <2>3 DEF SubscriptionsWereAsked
    <2> QED
      BY <1>1, <1>5, <2>5, <2>6, <2>7 DEF sessionVars, IInv, ClientsAreOpen, OfflineByClosing
  <1> QED
    BY <1>6, <1>7

\* The stopper of a channel is called and taken away.
LEMMA StopKeepsIInv ==
    ASSUME IInv, NEW m \in Messages, OnStopReactive(m)
    PROVE  IInv'
  <1> DEFINE s == From[m]
             ch == Channel[m]
  <1>1. /\ asked' = asked \cup ({stoppers[s][ch]} \ {None})
        /\ stoppers' = [stoppers EXCEPT ![s][ch] = None]
        /\ tx' = [tx EXCEPT ![m] = "done"]
        /\ tx[m] = "none"
        /\ UNCHANGED <<sessionVars, sub, replies, running, failed, reported>>
    BY DEF OnStopReactive, Received
  <1>2. TypeOK /\ StoppersAreFiled /\ KeptByItsStopper /\ SubscriptionsWereAsked
    BY DEF IInv
  <1>3. s \in Sessions /\ ch \in Channels
    OBVIOUS
  <1>4. /\ stoppers' \in [Sessions -> [Channels -> Messages \cup {None}]]
        /\ stoppers'[s][ch] = None
        /\ \A t \in Sessions, c \in Channels :
              <<t, c>> # <<s, ch>> => stoppers'[t][c] = stoppers[t][c]
    BY <1>1, <1>2, <1>3 DEF TypeOK
  <1>5. stoppers[s][ch] # None =>
            stoppers[s][ch] \in {n \in Messages : sub[n] # "none"}
    <2>1. stoppers[s][ch] \in Messages \cup {None}
      BY <1>2, <1>3 DEF TypeOK
    <2> QED
      BY <2>1, <1>2, <1>3 DEF StoppersAreFiled, Kept, Hears
  <1>6. TypeOK'
    <2>1. asked' \subseteq {n \in Messages : sub'[n] # "none"}
      BY <1>1, <1>2, <1>5 DEF TypeOK
    <2>2. /\ tx' \in [Messages -> {"none", "open", "done"}]
          /\ running' \subseteq {n \in Messages : tx'[n] = "open"}
      BY <1>1, <1>2 DEF TypeOK
    <2> QED
      BY <2>1, <2>2, <1>1, <1>2, <1>4 DEF sessionVars, TypeOK
  <1>7. StoppersAreFiled'
    <2> SUFFICES ASSUME NEW t \in Sessions, NEW c \in Channels, NEW n \in Messages,
                        stoppers'[t][c] = n
                 PROVE  /\ From[n] = t /\ Channel[n] = c
                        /\ Kept(n)' /\ t \in client'
      BY DEF StoppersAreFiled
    <2>1. <<t, c>> # <<s, ch>> /\ stoppers[t][c] = n
      BY <1>4
    <2>2. From[n] = t /\ Channel[n] = c /\ Kept(n) /\ t \in client
      BY <2>1, <1>2 DEF StoppersAreFiled
    <2>3. n # stoppers[s][ch]
      BY <2>1, <2>2, <1>2, <1>3 DEF StoppersAreFiled
    <2> QED
      BY <2>2, <2>3, <1>1 DEF sessionVars, Kept, Hears
  <1>8. KeptByItsStopper'
    <2> SUFFICES ASSUME NEW n \in Lasting, Kept(n)'
                 PROVE  stoppers'[From[n]][Channel[n]] = n
      BY DEF KeptByItsStopper
    <2>1. n \in Messages /\ Kept(n) /\ n # stoppers[s][ch]
      BY <1>1 DEF Lasting, Kept, Hears
    <2>2. stoppers[From[n]][Channel[n]] = n
      BY <2>1, <1>2 DEF KeptByItsStopper
    <2> QED
      BY <2>1, <2>2, <1>4
  <1>9. SubscriptionsWereAsked'
    BY <1>1, <1>2 DEF SubscriptionsWereAsked, TypeOK
  <1> QED
    BY <1>1, <1>6, <1>7, <1>8, <1>9 DEF sessionVars, IInv, ClientsAreOpen, OfflineByClosing

\* A subscription that is on its way becomes active and one whose stopper was
\* called ends: neither changes who hears.
LEMMA ProgressKeepsIInv ==
    ASSUME IInv, NEW m \in Messages, Subscribed(m) \/ Stopped(m)
    PROVE  IInv'
  <1>1. UNCHANGED <<sessionVars, stoppers, asked, tx, replies, running, failed, reported>>
    BY DEF Subscribed, Stopped
  <1>2. /\ sub' \in [Messages -> {"none", "subscribing", "active", "stopped"}]
        /\ \A n \in Messages : (sub'[n] = "none" <=> sub[n] = "none")
    BY DEF Subscribed, Stopped, IInv, TypeOK
  <1>3. \A n \in Messages : Kept(n)' <=> Kept(n)
    BY <1>1 DEF Subscribed, Stopped, IInv, TypeOK, Kept, Hears
  <1>4. TypeOK'
    BY <1>1, <1>2 DEF sessionVars, IInv, TypeOK
  <1>5. StoppersAreFiled' /\ KeptByItsStopper'
    BY <1>1, <1>3 DEF sessionVars, IInv, StoppersAreFiled, KeptByItsStopper, Lasting
  <1>6. SubscriptionsWereAsked' /\ ClientsAreOpen' /\ OfflineByClosing'
    BY <1>1, <1>2 DEF sessionVars, IInv, SubscriptionsWereAsked, ClientsAreOpen,
                      OfflineByClosing
  <1> QED
    BY <1>4, <1>5, <1>6 DEF IInv

\* Every step of the bridge.
LEMMA NextKeepsIInv == IInv /\ [Next]_vars => IInv'
  <1> SUFFICES ASSUME IInv, [Next]_vars PROVE IInv'
    OBVIOUS
  <1>1. CASE UNCHANGED vars
    BY <1>1 DEF vars, sessionVars, messageVars, IInv, TypeOK, StoppersAreFiled,
                KeptByItsStopper, Kept, Hears, SubscriptionsWereAsked, ClientsAreOpen,
                OfflineByClosing
  <1>2. CASE Next
    BY <1>2, StartingKeepsIInv, CloseKeepsIInv, RequestKeepsIInv, SubscribeKeepsIInv,
       StopKeepsIInv, ProgressKeepsIInv DEF Next
  <1> QED
    BY <1>1, <1>2

-----------------------------------------------------------------------------
\* The invariant of the bridge, of its types and of its stoppers.
THEOREM Invariance == Spec => []IInv
  <1> QED
    BY InitIInv, NextKeepsIInv, PTL DEF Spec

\* Every variable has its type (BridgeSession.TypeOK).
THEOREM TypeCorrect == Spec => []TypeOK
  <1>1. IInv => TypeOK
    BY DEF IInv
  <1> QED
    BY <1>1, Invariance, PTL

\* onConnection and onClose: however the handlers of a session and the end of its
\* socket interleave, offlineFn is called at most once, when the session is gone, and
\* always when a session that was started leaves the map.
THEOREM OfflineIsCalledOnce == Spec => []OfflineOnce
  <1>1. IInv => OfflineOnce
    BY DEF IInv, ClientsAreOpen, OfflineByClosing, OfflineOnce, TypeOK
  <1> QED
    BY <1>1, Invariance, PTL

\* subscribe and registerStopper: two subscriptions of a session to a channel hear
\* only while the stop of one of them waits for its registration, whichever messages
\* came in between (OneSubscriptionPerChannel).
THEOREM TwoHearWhileOneStops == Spec => []OneSubscriptionPerChannel
  <1>1. ASSUME IInv, NEW m1 \in Lasting, NEW m2 \in Lasting, Hears(m1), Hears(m2),
               From[m1] = From[m2], Channel[m1] = Channel[m2],
               m1 \notin asked, m2 \notin asked
        PROVE  m1 = m2
    BY <1>1 DEF IInv, KeptByItsStopper, Kept
  <1>2. IInv => OneSubscriptionPerChannel
    BY <1>1 DEF OneSubscriptionPerChannel
  <1> QED
    BY <1>2, Invariance, PTL

\* onClose: the subscriptions of a session are asked to stop when it ends, those
\* that were on their way included (ClosedHearsNothing).
THEOREM SubscriptionsEndWithSession == Spec => []ClosedHearsNothing
  <1>1. ASSUME IInv, NEW m \in Lasting, Hears(m), m \notin asked
        PROVE  From[m] \in client
    <2>1. m \in Messages /\ stoppers[From[m]][Channel[m]] = m
      BY <1>1 DEF IInv, KeptByItsStopper, Kept, Lasting
    <2> QED
      BY <1>1, <2>1 DEF IInv, StoppersAreFiled
  <1>2. IInv => ClosedHearsNothing
    BY <1>1 DEF ClosedHearsNothing
  <1> QED
    BY <1>2, Invariance, PTL
=============================================================================
