---------------------- MODULE BridgedSubscriptionProofs ----------------------
(***************************************************************************)
(* Proofs about BridgedSubscription, for any subscriptions of a client, any  *)
(* number of connections and any publications.                               *)
(*                                                                          *)
(* What BridgeSessionProofs proves of a bridge holds of this one.  The rest   *)
(* is about order: the messages on one connection are handled as they were    *)
(* sent, so what a session holds when a message is handled is what the        *)
(* application had when it sent it (QueuesAreInOrder, EndFollowsLive), and    *)
(* a connection that is new has nothing of an earlier one (NewIsBlank).       *)
(***************************************************************************)
EXTENDS BridgedSubscription, TLAPS, FiniteSetTheorems, SequenceTheorems

\* What is proved of the bridge.
Session == INSTANCE BridgeSessionProofs

Sends == Subs \X {"subscribe", "reactive", "stopReactive"}

StopperOf(k) == stoppers[k]["channel"]

\* What the session of connection k holds, and what one holds after the message x;
\* plain are the subscriptions made by a plain subscribe.
Held(k) == IF StopperOf(k) = None THEN "nothing"
           ELSE IF StopperOf(k) \in Named THEN "reactive" ELSE "plain"

Left(x, plain) ==
    IF x[2] = "stopReactive" THEN "nothing"
    ELSE IF x[2] = "subscribe" /\ x[1] \in plain THEN "plain" ELSE "reactive"

\* A session that holds h takes the message x as it was meant: a subscription that
\* was made alone finds nothing, a getReactive no plain one, and the 'subscribe' of a
\* getReactive finds its 'reactive' (or the one for which that was refused).
Fits(x, h, plain, joint) ==
    /\ x[2] = "reactive" => h # "plain" /\ (x[1] \notin joint => h = "nothing")
    /\ x[2] = "subscribe" => IF x[1] \in plain THEN h = "nothing" ELSE h = "reactive"

InOrder(q, h, plain, joint) ==
    \A i \in 1..Len(q) : Fits(q[i], IF i = 1 THEN h ELSE Left(q[i - 1], plain), plain, joint)

Final(q, h, plain) == IF q = <<>> THEN h ELSE Left(q[Len(q)], plain)

QueuesAreInOrder ==
    /\ \A k \in Sessions : k \in open => InOrder(up[k], Held(k), Plain, shared)
    /\ InOrder(parked, "nothing", Plain, shared)

\* What the next subscription will find.
End == IF stage = "settled" THEN Final(up[link], Held(link), Plain)
       ELSE Final(parked, "nothing", Plain)

EndFollowsLive ==
    (stage = "settled" => link \in open) =>
        /\ Live = {} => End = "nothing"
        /\ Live \cap Plain = {} => End # "plain"

\* Nothing was sent over a connection that was not made or not settled yet.
NewIsBlank ==
    /\ link # None => phase[link] # "none"
    /\ \A k \in Sessions : phase[k] = "none" \/ (k = link /\ stage # "settled") =>
          /\ up[k] = <<>>
          /\ \A m \in Messages : m[3] = k => tx[m] = "none"

SentByItself == \A k \in Sessions : \A i \in 1..Len(up[k]) : up[k][i][3] = k

IdleIsSilent ==
    \A s \in Subs : status[s] = "idle" =>
        /\ \A i \in 1..Len(parked) : parked[i][1] # s
        /\ \A k \in Sessions : \A i \in 1..Len(up[k]) : up[k][i][1] # s
        /\ \A m \in Messages : m[1] = s => tx[m] = "none"

\* A stop that was sent, or handled, is of a subscription that was stopped.
StopsWereMade ==
    /\ \A i \in 1..Len(parked) :
          parked[i][2] = "stopReactive" => status[parked[i][1]] = "stopped"
    /\ \A k \in Sessions : \A i \in 1..Len(up[k]) :
          up[k][i][2] = "stopReactive" => status[up[k][i][1]] = "stopped"
    /\ \A m \in asked : m[3] \in client => \E s \in Subs : status[s] = "stopped"

\* What hears and was not asked to stop is what the session holds, plain
\* subscriptions included.
KeptByItsStopper == \A m \in Messages : Bridge!Kept(m) => StopperOf(m[3]) = m

\* No stop is behind a message of s.
NoStopBehind(q, s) ==
    \A i, j \in 1..Len(q) : i < j /\ q[i][1] = s => q[j][2] # "stopReactive"

\* What is live while no other subscription is stopped is ended by nothing on its way.
LiveAreLeftAlone ==
    \A s \in Live \ robbed :
        /\ NoStopBehind(parked, s)
        /\ link # None =>
              /\ NoStopBehind(up[link], s)
              /\ tx[Opener(s, link)] # "none" =>
                    /\ \A i \in 1..Len(up[link]) : up[link][i][2] # "stopReactive"
                    /\ link \in open => StopperOf(link) # None

OneConnectionHears == \A k \in Sessions : k # link => down[k] = <<>>

\* A delivery is on its way once, and is heard when it is no longer, as long as
\* nothing was stopped.
RelayedOnce ==
    /\ \A p \in Deliveries \ relayed :
          /\ \A s \in Subs : heard[s][p] = 0
          /\ \A k \in Sessions : \A i \in 1..Len(down[k]) : down[k][i].pub # p
    /\ (\A s \in Subs : status[s] # "stopped") =>
          \A p \in Deliveries, k \in Sessions :
              /\ \A i, j \in 1..Len(down[k]) :
                    down[k][i].pub = p /\ down[k][j].pub = p => i = j
              /\ \A s \in Subs :
                    /\ heard[s][p] <= 1
                    /\ heard[s][p] = 1 => \A i \in 1..Len(down[k]) : down[k][i].pub # p

QueueInv ==
    /\ QueuesAreInOrder /\ EndFollowsLive /\ NewIsBlank
    /\ SentByItself /\ IdleIsSilent /\ StopsWereMade
    /\ KeptByItsStopper /\ LiveAreLeftAlone
    /\ RefusedWhileShared

HearInv == OneConnectionHears /\ RelayedOnce /\ HeardOnce

IInv == TypeOK /\ Session!IInv /\ QueueInv /\ HearInv

-----------------------------------------------------------------------------
USE BridgedSubscriptionAssumption

\* The fields of a message.
LEMMA MessageFields ==
    ASSUME NEW m \in Messages
    PROVE  /\ m = <<m[1], m[2], m[3]>>
           /\ m[1] \in Subs /\ m[3] \in Sessions
           /\ m[2] \in {"subscribe", "reactive", "stopReactive"}
           /\ From[m] = m[3] /\ Kind[m] = m[2] /\ Channel[m] = "channel"
           /\ (m \in Named <=> m[2] = "reactive")
           /\ m # None
  BY DEF Messages, From, Kind, Channel, Named

\* The assumption of BridgeSession holds of this instance of it.
LEMMA BridgeAssumption == Session!BridgeSessionAssumption
  <1>1. From \in [Messages -> Sessions]
    BY DEF From, Messages
  <1>2. Kind \in [Messages -> Session!Kinds]
    BY DEF Kind, Messages, Session!Kinds
  <1>3. Channel \in [Messages -> Channels] /\ Named \subseteq Messages
    BY DEF Channel, Channels, Named
  <1>4. Handlers \in Nat \ {0} /\ OfflineAt \in 1..Handlers
    BY DEF Handlers, OfflineAt
  <1> QED
    BY <1>1, <1>2, <1>3, <1>4

LEMMA BridgeTypes == (Session!IInv => Bridge!TypeOK) /\ (Session!IInv' => Bridge!TypeOK')
  BY DEF Session!IInv, Session!TypeOK, Bridge!TypeOK, Session!Answers, Bridge!Answers

\* Every step is one of the bridge, or leaves the bridge alone.
LEMMA BridgeKeepsIInv == TypeOK /\ Session!IInv /\ [Next]_vars => Session!IInv'
  <1> SUFFICES ASSUME TypeOK, Session!IInv, [Next]_vars PROVE Session!IInv'
    OBVIOUS
  <1>1. CASE UNCHANGED bridgeVars
    <2>1. UNCHANGED Session!vars
      BY <1>1 DEF bridgeVars, Session!vars, Session!sessionVars, Session!messageVars
    <2> QED
      BY <2>1, BridgeAssumption, Session!NextKeepsIInv
  <1>2. ASSUME NEW k \in Sessions, Connect(k) PROVE Session!Next
    BY <1>2 DEF Connect, Bridge!OnConnection, Session!OnConnection, Session!Next,
                Bridge!messageVars, Session!messageVars
  <1>3. ASSUME NEW k \in Sessions, SessionStep(k) PROVE Session!Next
    BY <1>3 DEF SessionStep, Bridge!HandlerReturns, Bridge!SessionStarted, Bridge!OnClose,
                Session!HandlerReturns, Session!SessionStarted, Session!OnClose, Session!Next,
                Bridge!EndSession, Session!EndSession, Bridge!Registered, Session!Registered,
                Bridge!messageVars, Session!messageVars
  <1>4. ASSUME NEW m \in Messages, Handle(m) PROVE Session!Next
    BY <1>4 DEF Handle, Bridge!OnReactive, Bridge!OnSubscribe, Bridge!OnStopReactive,
                Session!OnReactive, Session!OnSubscribe, Session!OnStopReactive, Session!Next,
                Bridge!Received, Session!Received, Bridge!Begin, Session!Begin,
                Bridge!Subscribe, Session!Subscribe, Bridge!Reply, Session!Reply,
                Bridge!Duplicate, Session!Duplicate, Bridge!sessionVars, Session!sessionVars
  <1>5. ASSUME NEW m \in Messages, MessageStep(m) PROVE Session!Next
    BY <1>5 DEF MessageStep, Bridge!Answer, Bridge!Subscribed, Bridge!Stopped,
                Session!Answer, Session!Subscribed, Session!Stopped, Session!Next,
                Bridge!Reply, Session!Reply, Bridge!sessionVars, Session!sessionVars
  <1>6. ASSUME NEW k \in Sessions, Receive(k) PROVE Session!Next
    <2>1. Head(up[k]) \in Messages
      BY <1>6 DEF Receive, TypeOK
    <2> QED
      BY <2>1, <1>4, <1>6 DEF Receive
  <1>7. UNCHANGED bridgeVars \/ Session!Next
    <2>1. CASE UNCHANGED vars
      BY <2>1 DEF vars
    <2>2. ASSUME NEW s \in Subs, Subscribe(s) \/ Stop(s) \/ TimesOut(s) PROVE UNCHANGED bridgeVars
      BY <2>2 DEF Subscribe, Stop, Stopping, TimesOut
    <2>3. CASE Connected \/ Settle \/ Drop \/ Hear
      BY <2>3 DEF Connected, Settle, Drop, Hear
    <2>4. ASSUME NEW p \in Deliveries, NEW K \in SUBSET Sessions, Relay(p, K) PROVE UNCHANGED bridgeVars
      BY <2>4 DEF Relay
    <2> QED
      BY <1>2, <1>3, <1>5, <1>6, <2>1, <2>2, <2>3, <2>4 DEF Next
  <1> QED
    BY <1>1, <1>7, BridgeAssumption, Session!NextKeepsIInv

-----------------------------------------------------------------------------
\* The messages of one opening or stop, sent over connection k.
LEMMA OnFields ==
    ASSUME NEW k \in Sessions, NEW q \in Seq(Sends)
    PROVE  /\ On(k, q) \in Seq(Messages)
           /\ Len(On(k, q)) = Len(q)
           /\ \A i \in 1..Len(q) : /\ q[i] \in Sends
                                   /\ On(k, q)[i] = <<q[i][1], q[i][2], k>>
                                   /\ On(k, q)[i][1] = q[i][1]
                                   /\ On(k, q)[i][2] = q[i][2]
                                   /\ On(k, q)[i][3] = k
  <1>1. Len(q) \in Nat /\ DOMAIN q = 1..Len(q)
    OBVIOUS
  <1>2. \A i \in 1..Len(q) : q[i] \in Sends /\ <<q[i][1], q[i][2], k>> \in Messages
    BY DEF Sends, Messages
  <1>3. On(k, q) = [i \in 1..Len(q) |-> <<q[i][1], q[i][2], k>>]
    BY <1>1 DEF On
  <1> QED
    BY <1>1, <1>2, <1>3

LEMMA OnIsInOrder ==
    ASSUME NEW k \in Sessions, NEW q \in Seq(Sends), NEW h, NEW plain, NEW joint
    PROVE  /\ InOrder(q, h, plain, joint) => InOrder(On(k, q), h, plain, joint)
           /\ Final(On(k, q), h, plain) = Final(q, h, plain)
  <1>1. \A i \in 1..Len(q) : Left(On(k, q)[i], plain) = Left(q[i], plain)
    BY OnFields DEF Left
  <1>2. \A i \in 1..Len(q) : \A g : Fits(q[i], g, plain, joint)
                                  => Fits(On(k, q)[i], g, plain, joint)
    BY OnFields DEF Fits
  <1>3. On(k, q) = <<>> <=> q = <<>>
    BY OnFields
  <1>4. Len(q) \in Nat /\ Len(On(k, q)) = Len(q)
    BY OnFields
  <1>5. q # <<>> => Len(q) \in 1..Len(q)
    BY <1>4
  <1>6. Final(On(k, q), h, plain) = Final(q, h, plain)
    BY <1>1, <1>3, <1>4, <1>5 DEF Final
  <1>7. ASSUME InOrder(q, h, plain, joint), NEW i \in 1..Len(q)
        PROVE  Fits(On(k, q)[i], IF i = 1 THEN h ELSE Left(On(k, q)[i - 1], plain), plain, joint)
    <2>1. Fits(q[i], IF i = 1 THEN h ELSE Left(q[i - 1], plain), plain, joint)
      BY <1>7 DEF InOrder
    <2>2. i # 1 => i - 1 \in 1..Len(q)
      BY <1>4
    <2> QED
      BY <1>1, <1>2, <2>1, <2>2
  <1> QED
    BY <1>4, <1>6, <1>7 DEF InOrder

\* One sequence of messages behind another.
LEMMA ConcatIsInOrder ==
    ASSUME NEW T, NEW q \in Seq(T), NEW r \in Seq(T), NEW h, NEW plain, NEW joint
    PROVE  /\ InOrder(q, h, plain, joint) /\ InOrder(r, Final(q, h, plain), plain, joint)
                  => InOrder(q \o r, h, plain, joint)
           /\ Final(q \o r, h, plain) = Final(r, Final(q, h, plain), plain)
  <1>1. /\ q \o r \in Seq(T)
        /\ Len(q) \in Nat /\ Len(r) \in Nat /\ Len(q \o r) = Len(q) + Len(r)
        /\ \A i \in 1..(Len(q) + Len(r)) :
              (q \o r)[i] = IF i <= Len(q) THEN q[i] ELSE r[i - Len(q)]
    BY ConcatProperties
  <1>2. (q = <<>> <=> Len(q) = 0) /\ (r = <<>> <=> Len(r) = 0)
        /\ (q \o r = <<>> <=> Len(q) + Len(r) = 0)
    BY <1>1
  <1>3. Final(q \o r, h, plain) = Final(r, Final(q, h, plain), plain)
    <2>1. CASE r = <<>>
      <3>1. q \o r = q
        BY <2>1
      <3> QED
        BY <2>1, <3>1 DEF Final
    <2>2. CASE r # <<>>
      <3>1. (q \o r)[Len(q) + Len(r)] = r[Len(r)]
        BY <2>2, <1>1, <1>2
      <3> QED
        BY <2>2, <3>1, <1>1, <1>2 DEF Final
    <2> QED
      BY <2>1, <2>2
  <1>4. ASSUME InOrder(q, h, plain, joint), InOrder(r, Final(q, h, plain), plain, joint),
               NEW i \in 1..(Len(q) + Len(r))
        PROVE  Fits((q \o r)[i], IF i = 1 THEN h ELSE Left((q \o r)[i - 1], plain), plain, joint)
    <2>1. CASE i <= Len(q)
      <3>1. i \in 1..Len(q) /\ (q \o r)[i] = q[i]
        BY <2>1, <1>1
      <3>2. i # 1 => (q \o r)[i - 1] = q[i - 1]
        BY <2>1, <1>1
      <3> QED
        BY <3>1, <3>2, <1>4 DEF InOrder
    <2>2. CASE i = Len(q) + 1
      <3>1. 1 \in 1..Len(r) /\ (q \o r)[i] = r[1]
        BY <2>2, <1>1
      <3>2. Fits(r[1], Final(q, h, plain), plain, joint)
        BY <3>1, <1>4 DEF InOrder
      <3>3. i # 1 => (q \o r)[i - 1] = q[Len(q)] /\ q # <<>>
        BY <2>2, <1>1, <1>2
      <3>4. i = 1 => q = <<>>
        BY <2>2, <1>1, <1>2
      <3> QED
        BY <3>1, <3>2, <3>3, <3>4 DEF Final
    <2>3. CASE i > Len(q) + 1
      <3>1. i - Len(q) \in 1..Len(r) /\ i - Len(q) # 1 /\ i # 1
        BY <2>3, <1>1
      <3>2. (q \o r)[i] = r[i - Len(q)] /\ (q \o r)[i - 1] = r[(i - Len(q)) - 1]
        BY <2>3, <1>1
      <3>3. Fits(r[i - Len(q)], Left(r[(i - Len(q)) - 1], plain), plain, joint)
        BY <3>1, <1>4 DEF InOrder
      <3> QED
        BY <3>1, <3>2, <3>3
    <2> QED
      BY <2>1, <2>2, <2>3, <1>1
  <1> QED
    BY <1>1, <1>3, <1>4 DEF InOrder

\* The first message is handled.
LEMMA TailIsInOrder ==
    ASSUME NEW T, NEW q \in Seq(T), q # <<>>, NEW h, NEW plain, NEW joint,
           InOrder(q, h, plain, joint)
    PROVE  /\ Fits(Head(q), h, plain, joint)
           /\ InOrder(Tail(q), Left(Head(q), plain), plain, joint)
           /\ Final(Tail(q), Left(Head(q), plain), plain) = Final(q, h, plain)
  <1>1. /\ Tail(q) \in Seq(T) /\ Len(q) \in Nat \ {0}
        /\ Len(Tail(q)) = Len(q) - 1
        /\ \A i \in 1..Len(Tail(q)) : Tail(q)[i] = q[i + 1]
        /\ Head(q) = q[1]
    BY HeadTailProperties, EmptySeq
  <1>2. Fits(Head(q), h, plain, joint)
    BY <1>1 DEF InOrder
  <1>3. ASSUME NEW i \in 1..Len(Tail(q))
        PROVE  Fits(Tail(q)[i], IF i = 1 THEN Left(Head(q), plain)
                                ELSE Left(Tail(q)[i - 1], plain), plain, joint)
    <2>1. i + 1 \in 1..Len(q) /\ i + 1 # 1 /\ (i + 1) - 1 = i /\ Tail(q)[i] = q[i + 1]
      BY <1>1
    <2>2. Fits(q[i + 1], Left(q[i], plain), plain, joint)
      BY <2>1 DEF InOrder
    <2>3. i # 1 => Tail(q)[i - 1] = q[i]
      BY <1>1
    <2> QED
      BY <1>1, <2>1, <2>2, <2>3
  <1>4. Final(Tail(q), Left(Head(q), plain), plain) = Final(q, h, plain)
    <2>1. CASE Len(q) = 1
      <3>1. Len(Tail(q)) \notin Nat \ {0}
        BY <2>1, <1>1
      <3>2. Tail(q) = <<>>
        BY <3>1, <1>1, EmptySeq
      <3> QED
        BY <2>1, <3>2, <1>1 DEF Final
    <2>2. CASE Len(q) # 1
      <3>1. Tail(q) # <<>> /\ Tail(q)[Len(Tail(q))] = q[Len(q)]
        BY <2>2, <1>1
      <3> QED
        BY <3>1 DEF Final
    <2> QED
      BY <2>1, <2>2
  <1> QED
    BY <1>1, <1>2, <1>3, <1>4 DEF InOrder

\* More subscriptions that were not made alone ask for less.
LEMMA JointGrows ==
    ASSUME NEW q, NEW h, NEW plain, NEW joint, NEW more, joint \subseteq more,
           InOrder(q, h, plain, joint)
    PROVE  InOrder(q, h, plain, more)
  BY DEF InOrder, Fits

-----------------------------------------------------------------------------
\* What a send adds is behind what was sent before.
LEMMA SendFields ==
    ASSUME TypeOK, NEW q \in Seq(Sends), Send(q)
    PROVE  /\ up' \in [Sessions -> Seq(Messages)] /\ parked' \in Seq(Sends)
           /\ CASE stage = "settled" ->
                     /\ parked' = parked /\ parked = <<>> /\ link \in Sessions
                     /\ \A k \in Sessions :
                           up'[k] = IF k = link /\ k \in open THEN up[k] \o On(k, q) ELSE up[k]
                [] OTHER -> up' = up /\ parked' = parked \o q
  <1>1. up \in [Sessions -> Seq(Messages)] /\ parked \in Seq(Sends)
    BY DEF TypeOK, Sends
  <1>2. CASE stage = "settled"
    <2>1. link \in Sessions /\ parked = <<>>
      BY <1>2 DEF TypeOK
    <2>2. parked' = parked /\ up' = Up(link, q)
      BY <1>2 DEF Send
    <2>3. up[link] \o On(link, q) \in Seq(Messages)
      BY <1>1, <2>1, OnFields
    <2>4. /\ up' \in [Sessions -> Seq(Messages)]
          /\ \A k \in Sessions :
                up'[k] = IF k = link /\ k \in open THEN up[k] \o On(k, q) ELSE up[k]
      BY <1>1, <2>1, <2>2, <2>3 DEF Up
    <2> QED
      BY <1>1, <1>2, <2>1, <2>2, <2>4
  <1>3. CASE stage # "settled"
    <2>1. up' = up /\ parked' = parked \o q
      BY <1>3 DEF Send
    <2> QED
      BY <1>1, <1>3, <2>1
  <1> QED
    BY <1>2, <1>3

LEMMA SendPositions ==
    ASSUME TypeOK, NEW q \in Seq(Sends), Send(q)
    PROVE  /\ \A k \in Sessions : \A i \in 1..Len(up'[k]) :
                 \/ i \in 1..Len(up[k]) /\ up'[k][i] = up[k][i]
                 \/ /\ k = link /\ stage = "settled" /\ i \in Nat /\ i > Len(up[k])
                    /\ \E j \in 1..Len(q) : up'[k][i] = <<q[j][1], q[j][2], k>>
           /\ \A i \in 1..Len(parked') :
                 \/ i \in 1..Len(parked) /\ parked'[i] = parked[i]
                 \/ /\ stage # "settled" /\ i \in Nat /\ i > Len(parked)
                    /\ \E j \in 1..Len(q) : parked'[i] = q[j]
  <1>1. up \in [Sessions -> Seq(Messages)] /\ parked \in Seq(Sends)
    BY DEF TypeOK, Sends
  <1>2. ASSUME NEW k \in Sessions, NEW i \in 1..Len(up'[k])
        PROVE  \/ i \in 1..Len(up[k]) /\ up'[k][i] = up[k][i]
               \/ /\ k = link /\ stage = "settled" /\ i \in Nat /\ i > Len(up[k])
                  /\ \E j \in 1..Len(q) : up'[k][i] = <<q[j][1], q[j][2], k>>
    <2>1. CASE up'[k] = up[k]
      BY <2>1, <1>2
    <2>2. CASE up'[k] # up[k]
      <3>1. k = link /\ stage = "settled" /\ up'[k] = up[k] \o On(k, q)
        BY <2>2, SendFields
      <3> DEFINE r == On(k, q)
                 u == up[k]
      <3>2. /\ r \in Seq(Messages) /\ Len(r) = Len(q)
            /\ \A j \in 1..Len(q) : r[j] = <<q[j][1], q[j][2], k>>
        BY OnFields
      <3>3. u \in Seq(Messages) /\ Len(u) \in Nat /\ Len(q) \in Nat
        BY <1>1
      <3> HIDE DEF r, u
      <3>6. /\ Len(u \o r) = Len(u) + Len(r)
            /\ \A j \in 1..(Len(u) + Len(r)) :
                  (u \o r)[j] = IF j <= Len(u) THEN u[j] ELSE r[j - Len(u)]
        BY <3>2, <3>3, ConcatProperties
      <3>7. i \in 1..(Len(u) + Len(q)) /\ up'[k] = u \o r
        BY <3>1, <3>2, <3>6, <1>2 DEF u, r
      <3>4. CASE i <= Len(u)
        BY <3>2, <3>3, <3>4, <3>6, <3>7 DEF u
      <3>5. CASE i > Len(u)
        <4>1. i - Len(u) \in 1..Len(q)
          BY <3>3, <3>5, <3>7
        <4>2. up'[k][i] = r[i - Len(u)]
          BY <3>2, <3>3, <3>5, <3>6, <3>7
        <4>3. up'[k][i] = <<q[i - Len(u)][1], q[i - Len(u)][2], k>>
          BY <4>1, <4>2, <3>2
        <4>4. i \in Nat
          BY <3>3, <3>7
        <4> QED
          BY <4>1, <4>3, <4>4, <3>1, <3>5 DEF u
      <3>8. i <= Len(u) \/ i > Len(u)
        BY <3>3, <3>7
      <3> QED
        BY <3>4, <3>5, <3>8
    <2> QED
      BY <2>1, <2>2
  <1>3. ASSUME NEW i \in 1..Len(parked')
        PROVE  \/ i \in 1..Len(parked) /\ parked'[i] = parked[i]
               \/ /\ stage # "settled" /\ i \in Nat /\ i > Len(parked)
                  /\ \E j \in 1..Len(q) : parked'[i] = q[j]
    <2>1. CASE stage = "settled"
      BY <2>1, <1>3, SendFields
    <2>2. CASE stage # "settled"
      <3>1. parked' = parked \o q /\ Len(parked) \in Nat /\ Len(q) \in Nat
        BY <2>2, <1>1, SendFields
      <3>2. /\ Len(parked') = Len(parked) + Len(q)
            /\ parked'[i] = IF i <= Len(parked) THEN parked[i] ELSE q[i - Len(parked)]
        BY <3>1, <1>1, <1>3, ConcatProperties
      <3>3. i > Len(parked) => i - Len(parked) \in 1..Len(q)
        BY <3>1, <3>2
      <3> QED
        BY <2>2, <3>1, <3>2, <3>3
    <2> QED
      BY <2>1, <2>2
  <1> QED
    BY <1>2, <1>3

\* What is behind everything else, and is no stop, comes behind no opening.
LEMMA SendKeepsNoStopBehind ==
    ASSUME TypeOK, NEW q \in Seq(Sends), Send(q), NEW s \in Subs,
           \A j \in 1..Len(q) : q[j][2] # "stopReactive"
    PROVE  /\ NoStopBehind(parked, s) => NoStopBehind(parked', s)
           /\ \A k \in Sessions : NoStopBehind(up[k], s) => NoStopBehind(up'[k], s)
  <1>1. ASSUME NoStopBehind(parked, s), NEW i \in 1..Len(parked'), NEW j \in 1..Len(parked'),
               i < j, parked'[i][1] = s
        PROVE  parked'[j][2] # "stopReactive"
    <2>1. CASE j \in 1..Len(parked) /\ parked'[j] = parked[j]
      <3>1. i \in 1..Len(parked) /\ parked'[i] = parked[i]
        BY <2>1, <1>1, SendPositions
      <3> QED
        BY <2>1, <3>1, <1>1 DEF NoStopBehind
    <2>2. CASE \E n \in 1..Len(q) : parked'[j] = q[n]
      BY <2>2
    <2> QED
      BY <2>1, <2>2, SendPositions
  <1>2. ASSUME NEW k \in Sessions, NoStopBehind(up[k], s), NEW i \in 1..Len(up'[k]),
               NEW j \in 1..Len(up'[k]), i < j, up'[k][i][1] = s
        PROVE  up'[k][j][2] # "stopReactive"
    <2>1. CASE j \in 1..Len(up[k]) /\ up'[k][j] = up[k][j]
      <3>1. i \in 1..Len(up[k]) /\ up'[k][i] = up[k][i]
        BY <2>1, <1>2, SendPositions
      <3> QED
        BY <2>1, <3>1, <1>2 DEF NoStopBehind
    <2>2. CASE \E n \in 1..Len(q) : up'[k][j] = <<q[n][1], q[n][2], k>>
      BY <2>2
    <2> QED
      BY <2>1, <2>2, SendPositions
  <1> QED
    BY <1>1, <1>2 DEF NoStopBehind

LEMMA OpeningFields ==
    ASSUME NEW s \in Subs
    PROVE  /\ Opening(s) \in Seq(Sends) /\ Opening(s) # <<>>
           /\ \A j \in 1..Len(Opening(s)) :
                 Opening(s)[j][1] = s /\ Opening(s)[j][2] # "stopReactive"
           /\ \A h, joint :
                 /\ IF s \in Plain THEN h = "nothing"
                    ELSE h # "plain" /\ (s \notin joint => h = "nothing")
                 => InOrder(Opening(s), h, Plain, joint)
           /\ \A h : Final(Opening(s), h, Plain) = IF s \in Plain THEN "plain" ELSE "reactive"
  <1>1. CASE s \in Plain
    <2>1. Opening(s) = <<<<s, "subscribe">>>>
      BY <1>1 DEF Opening
    <2>2. /\ Opening(s) \in Seq(Sends) /\ Len(Opening(s)) = 1 /\ Opening(s) # <<>>
          /\ Opening(s)[1] = <<s, "subscribe">>
      BY <2>1 DEF Sends
    <2> QED
      BY <1>1, <2>2 DEF InOrder, Fits, Final, Left
  <1>2. CASE s \notin Plain
    <2>1. Opening(s) = <<<<s, "reactive">>, <<s, "subscribe">>>>
      BY <1>2 DEF Opening
    <2>2. /\ Opening(s) \in Seq(Sends) /\ Len(Opening(s)) = 2 /\ Opening(s) # <<>>
          /\ Opening(s)[1] = <<s, "reactive">> /\ Opening(s)[2] = <<s, "subscribe">>
      BY <2>1 DEF Sends
    <2>3. \A j \in 1..Len(Opening(s)) : j = 1 \/ j = 2
      BY <2>2
    <2>4. ASSUME NEW h, NEW joint, h # "plain", s \notin joint => h = "nothing"
          PROVE  InOrder(Opening(s), h, Plain, joint)
      <3>1. Left(Opening(s)[1], Plain) = "reactive"
        BY <2>2 DEF Left
      <3>2. Fits(Opening(s)[1], h, Plain, joint) /\ Fits(Opening(s)[2], "reactive", Plain, joint)
        BY <1>2, <2>2, <2>4 DEF Fits
      <3> QED
        BY <2>3, <3>1, <3>2 DEF InOrder
    <2>5. \A h : Final(Opening(s), h, Plain) = "reactive"
      BY <1>2, <2>2 DEF Final, Left
    <2> QED
      BY <1>2, <2>2, <2>3, <2>4, <2>5
  <1> QED
    BY <1>1, <1>2

LEMMA StopFields ==
    ASSUME NEW s \in Subs, NEW q, q = <<<<s, "stopReactive">>>>
    PROVE  /\ q \in Seq(Sends) /\ q # <<>> /\ Len(q) = 1
           /\ q[1] = <<s, "stopReactive">>
           /\ \A h, plain, joint : InOrder(q, h, plain, joint)
           /\ \A h, plain : Final(q, h, plain) = "nothing"
  <1>1. /\ q \in Seq(Sends) /\ q # <<>> /\ Len(q) = 1
        /\ q[1] = <<s, "stopReactive">>
    BY DEF Sends
  <1> QED
    BY <1>1 DEF InOrder, Fits, Final, Left

\* A send that fits what was sent before keeps the queues in order.
LEMMA SendKeepsOrder ==
    ASSUME IInv, NEW q \in Seq(Sends), Send(q), q # <<>>,
           UNCHANGED <<way, link, stage, bridgeVars>>, shared \subseteq shared',
           (stage = "settled" => link \in open) => InOrder(q, End, Plain, shared'),
           NEW h, \A g : Final(q, g, Plain) = h
    PROVE  /\ QueuesAreInOrder'
           /\ (stage = "settled" => link \in open) => End' = h
  <1>1. /\ Plain' = Plain /\ open' = open
        /\ \A k \in Sessions : Held(k)' = Held(k)
    BY DEF Plain, bridgeVars, Held, StopperOf
  <1>2. up \in [Sessions -> Seq(Messages)] /\ parked \in Seq(Sends)
    BY DEF IInv, TypeOK, Sends
  <1>3. QueuesAreInOrder
    BY DEF IInv, QueueInv
  <1>4. CASE stage # "settled"
    <2>1. up' = up /\ parked' = parked \o q
      BY <1>4, SendFields DEF IInv
    <2>2. InOrder(parked, "nothing", Plain, shared')
      BY <1>3, JointGrows DEF QueuesAreInOrder
    <2>3. InOrder(q, Final(parked, "nothing", Plain), Plain, shared')
      BY <1>4 DEF End
    <2>4. /\ InOrder(parked', "nothing", Plain, shared')
          /\ Final(parked', "nothing", Plain) = h
      BY <2>1, <2>2, <2>3, <1>2, ConcatIsInOrder
    <2>5. \A k \in Sessions : k \in open => InOrder(up'[k], Held(k), Plain, shared')
      BY <2>1, <1>3, JointGrows DEF QueuesAreInOrder
    <2> QED
      BY <2>4, <2>5, <1>1, <1>4 DEF QueuesAreInOrder, End
  <1>5. CASE stage = "settled"
    <2>1. /\ parked' = parked /\ link \in Sessions
          /\ \A k \in Sessions :
                up'[k] = IF k = link /\ k \in open THEN up[k] \o On(k, q) ELSE up[k]
      BY <1>5, SendFields DEF IInv
    <2>2. InOrder(parked', "nothing", Plain, shared')
      BY <2>1, <1>3, JointGrows DEF QueuesAreInOrder
    <2>3. \A k \in Sessions : k \in open => InOrder(up[k], Held(k), Plain, shared')
      BY <1>3, JointGrows DEF QueuesAreInOrder
    <2>4. ASSUME link \in open
          PROVE  /\ InOrder(up'[link], Held(link), Plain, shared')
                 /\ Final(up'[link], Held(link), Plain) = h
      <3>1. up'[link] = up[link] \o On(link, q)
        BY <2>1, <2>4
      <3>2. /\ up[link] \in Seq(Messages) /\ On(link, q) \in Seq(Messages)
            /\ InOrder(up[link], Held(link), Plain, shared')
        BY <1>2, <2>1, <2>3, <2>4, OnFields
      <3>3. /\ InOrder(On(link, q), Final(up[link], Held(link), Plain), Plain, shared')
            /\ \A g : Final(On(link, q), g, Plain) = h
        BY <1>5, <2>1, <2>4, OnIsInOrder DEF End
      <3> QED
        BY <3>1, <3>2, <3>3, ConcatIsInOrder
    <2> QED
      BY <1>1, <1>5, <2>1, <2>2, <2>3, <2>4 DEF QueuesAreInOrder, End
  <1> QED
    BY <1>4, <1>5

\* Who sends something over the connection that is settled is not idle.
LEMMA SendIsByItself ==
    ASSUME IInv, NEW q \in Seq(Sends), Send(q), UNCHANGED <<link, stage, bridgeVars>>,
           NEW s \in Subs, \A j \in 1..Len(q) : q[j][1] = s,
           status'[s] # "idle", \A t \in Subs : t # s => status'[t] = status[t]
    PROVE  NewIsBlank' /\ SentByItself' /\ IdleIsSilent'
  <1>1. TypeOK /\ NewIsBlank /\ SentByItself /\ IdleIsSilent
    BY DEF IInv, QueueInv
  <1>2. /\ \A k \in Sessions : \A i \in 1..Len(up'[k]) :
              \/ i \in 1..Len(up[k]) /\ up'[k][i] = up[k][i]
              \/ up'[k][i][1] = s /\ up'[k][i][3] = k
        /\ \A i \in 1..Len(parked') :
              \/ i \in 1..Len(parked) /\ parked'[i] = parked[i]
              \/ parked'[i][1] = s
    <2>1. ASSUME NEW k \in Sessions, NEW i \in 1..Len(up'[k])
          PROVE  \/ i \in 1..Len(up[k]) /\ up'[k][i] = up[k][i]
                 \/ up'[k][i][1] = s /\ up'[k][i][3] = k
      <3>1. CASE \E j \in 1..Len(q) : up'[k][i] = <<q[j][1], q[j][2], k>>
        <4>1. PICK j \in 1..Len(q) : up'[k][i] = <<q[j][1], q[j][2], k>>
          BY <3>1
        <4> QED
          BY <4>1
      <3>2. CASE i \in 1..Len(up[k]) /\ up'[k][i] = up[k][i]
        BY <3>2
      <3> QED
        BY <3>1, <3>2, <1>1, SendPositions
    <2>2. ASSUME NEW i \in 1..Len(parked')
          PROVE  \/ i \in 1..Len(parked) /\ parked'[i] = parked[i]
                 \/ parked'[i][1] = s
      <3>1. CASE \E j \in 1..Len(q) : parked'[i] = q[j]
        BY <3>1
      <3>2. CASE i \in 1..Len(parked) /\ parked'[i] = parked[i]
        BY <3>2
      <3> QED
        BY <3>1, <3>2, <1>1, SendPositions
    <2> QED
      BY <2>1, <2>2
  <1>3. NewIsBlank'
    <2>1. \A k \in Sessions : k = link /\ stage = "settled" => phase[k] # "none"
      BY <1>1 DEF NewIsBlank, TypeOK
    <2>2. \A k \in Sessions : ~(k = link /\ stage = "settled") => up'[k] = up[k]
      BY <1>1, SendFields
    <2> QED
      BY <2>1, <2>2, <1>1 DEF NewIsBlank, bridgeVars
  <1>4. SentByItself'
    BY <1>1, <1>2 DEF SentByItself
  <1>5. IdleIsSilent'
    <2> SUFFICES ASSUME NEW t \in Subs, status'[t] = "idle"
                 PROVE  /\ \A i \in 1..Len(parked') : parked'[i][1] # t
                        /\ \A k \in Sessions : \A i \in 1..Len(up'[k]) : up'[k][i][1] # t
                        /\ \A m \in Messages : m[1] = t => tx'[m] = "none"
      BY DEF IdleIsSilent
    <2>1. t # s /\ status[t] = "idle"
      OBVIOUS
    <2> QED
      BY <2>1, <1>1, <1>2 DEF IdleIsSilent, bridgeVars
  <1> QED
    BY <1>3, <1>4, <1>5

-----------------------------------------------------------------------------
\* getReactive and subscribe.
LEMMA SubscribeKeepsQueues ==
    ASSUME IInv, NEW s \in Subs, Subscribe(s)
    PROVE  QueueInv'
  <1> DEFINE q == Opening(s)
  <1>1. /\ status[s] = "idle" /\ (s \in Plain => Live = {}) /\ Live \cap Plain = {}
        /\ status' = [status EXCEPT ![s] = "live"]
        /\ shared' = IF Live = {} THEN shared ELSE shared \cup {s}
        /\ Send(q)
        /\ UNCHANGED <<way, link, stage, down, relayed, heard, robbed, bridgeVars>>
    BY DEF Subscribe
  <1>2. /\ TypeOK
        /\ EndFollowsLive /\ NewIsBlank /\ SentByItself /\ IdleIsSilent /\ StopsWereMade
        /\ KeptByItsStopper /\ LiveAreLeftAlone /\ RefusedWhileShared
    BY DEF IInv, QueueInv
  <1>3. /\ q \in Seq(Sends) /\ q # <<>>
        /\ \A j \in 1..Len(q) : q[j][1] = s /\ q[j][2] # "stopReactive"
    BY OpeningFields
  <1>4. /\ \A t \in Subs : t # s => status'[t] = status[t]
        /\ status'[s] = "live"
        /\ Live' = Live \cup {s} /\ Plain' = Plain /\ s \notin Live
    BY <1>1, <1>2 DEF TypeOK, Live, Plain
  <1>5. QueuesAreInOrder' /\ EndFollowsLive'
    <2>1. ASSUME stage = "settled" => link \in open
          PROVE  IF s \in Plain THEN End = "nothing"
                 ELSE End # "plain" /\ (s \notin shared' => End = "nothing")
      BY <2>1, <1>1, <1>2 DEF EndFollowsLive
    <2>2. (stage = "settled" => link \in open) => InOrder(q, End, Plain, shared')
      BY <2>1, OpeningFields
    <2>3. \A g : Final(q, g, Plain) = IF s \in Plain THEN "plain" ELSE "reactive"
      BY OpeningFields
    <2>4. shared \subseteq shared'
      BY <1>1
    <2>5. /\ QueuesAreInOrder'
          /\ (stage = "settled" => link \in open)
                => End' = IF s \in Plain THEN "plain" ELSE "reactive"
      BY <2>2, <2>3, <2>4, <1>1, <1>3, SendKeepsOrder
    <2> QED
      BY <2>5, <1>1, <1>4 DEF EndFollowsLive, bridgeVars
  <1>6. NewIsBlank' /\ SentByItself' /\ IdleIsSilent'
    BY <1>1, <1>3, <1>4, SendIsByItself
  <1>7. /\ \A k \in Sessions : \A i \in 1..Len(up'[k]) :
              \/ i \in 1..Len(up[k]) /\ up'[k][i] = up[k][i]
              \/ up'[k][i][1] = s /\ up'[k][i][2] # "stopReactive"
        /\ \A i \in 1..Len(parked') :
              \/ i \in 1..Len(parked) /\ parked'[i] = parked[i]
              \/ parked'[i][1] = s /\ parked'[i][2] # "stopReactive"
    <2> HIDE DEF q
    <2>1. ASSUME NEW k \in Sessions, NEW i \in 1..Len(up'[k])
          PROVE  \/ i \in 1..Len(up[k]) /\ up'[k][i] = up[k][i]
                 \/ up'[k][i][1] = s /\ up'[k][i][2] # "stopReactive"
      <3>1. CASE \E j \in 1..Len(q) : up'[k][i] = <<q[j][1], q[j][2], k>>
        BY <3>1, <1>3
      <3> QED
        BY <3>1, <1>1, <1>2, <1>3, SendPositions
    <2>2. ASSUME NEW i \in 1..Len(parked')
          PROVE  \/ i \in 1..Len(parked) /\ parked'[i] = parked[i]
                 \/ parked'[i][1] = s /\ parked'[i][2] # "stopReactive"
      <3>1. CASE \E j \in 1..Len(q) : parked'[i] = q[j]
        BY <3>1, <1>3
      <3> QED
        BY <3>1, <1>1, <1>2, <1>3, SendPositions
    <2> QED
      BY <2>1, <2>2
  <1>9. StopsWereMade'
    <2>1. \A t \in Subs : status[t] = "stopped" => status'[t] = "stopped"
      BY <1>1, <1>4
    <2>2. ASSUME NEW i \in 1..Len(parked'), parked'[i][2] = "stopReactive"
          PROVE  status'[parked'[i][1]] = "stopped"
      <3>1. i \in 1..Len(parked) /\ parked'[i] = parked[i]
        BY <2>2, <1>7
      <3>2. parked[i][1] \in Subs
        BY <3>1, <1>2 DEF TypeOK
      <3> QED
        BY <2>1, <2>2, <3>1, <3>2, <1>2 DEF StopsWereMade
    <2>3. ASSUME NEW k \in Sessions, NEW i \in 1..Len(up'[k]), up'[k][i][2] = "stopReactive"
          PROVE  status'[up'[k][i][1]] = "stopped"
      <3>1. i \in 1..Len(up[k]) /\ up'[k][i] = up[k][i]
        BY <2>3, <1>7
      <3>2. up[k][i] \in Messages
        BY <3>1, <1>2 DEF TypeOK
      <3> QED
        BY <2>1, <2>3, <3>1, <3>2, <1>2, MessageFields DEF StopsWereMade
    <2> QED
      BY <2>1, <2>2, <2>3, <1>1, <1>2 DEF StopsWereMade, bridgeVars
  <1>10. KeptByItsStopper'
    BY <1>1, <1>2 DEF KeptByItsStopper, bridgeVars, Bridge!Kept, Bridge!Hears, StopperOf
  <1>11. LiveAreLeftAlone'
    <2> SUFFICES ASSUME NEW t \in Live' \ robbed'
                 PROVE  /\ NoStopBehind(parked', t)
                        /\ link # None =>
                              /\ NoStopBehind(up'[link], t)
                              /\ tx[Opener(t, link)] # "none" =>
                                    /\ \A i \in 1..Len(up'[link]) : up'[link][i][2] # "stopReactive"
                                    /\ link \in open => StopperOf(link) # None
      BY <1>1, <1>4 DEF LiveAreLeftAlone, bridgeVars, Opener, StopperOf
    <2>1. t \in Subs /\ (t = s \/ t \in Live \ robbed) /\ (link # None => link \in Sessions)
      BY <1>1, <1>2, <1>4 DEF Live, TypeOK
    <2>2. NoStopBehind(parked, t) /\ (link # None => NoStopBehind(up[link], t))
      BY <2>1, <1>1, <1>2 DEF LiveAreLeftAlone, IdleIsSilent, NoStopBehind
    <2>3. NoStopBehind(parked', t) /\ (link # None => NoStopBehind(up'[link], t))
      BY <2>1, <2>2, <1>1, <1>2, <1>3, SendKeepsNoStopBehind
    <2>4. ASSUME link # None, tx[Opener(t, link)] # "none"
          PROVE  /\ \A i \in 1..Len(up'[link]) : up'[link][i][2] # "stopReactive"
                 /\ link \in open => StopperOf(link) # None
      <3>1. t # s
        <4>1. Opener(s, link) \in Messages /\ Opener(s, link)[1] = s
          BY <2>1, <2>4 DEF Opener, Messages
        <4> QED
          BY <4>1, <2>4, <1>1, <1>2 DEF IdleIsSilent
      <3>2. /\ \A i \in 1..Len(up[link]) : up[link][i][2] # "stopReactive"
            /\ link \in open => StopperOf(link) # None
        BY <3>1, <2>1, <2>4, <1>2 DEF LiveAreLeftAlone
      <3>3. \A i \in 1..Len(up'[link]) : up'[link][i][2] # "stopReactive"
        BY <3>2, <2>1, <2>4, <1>7
      <3> QED
        BY <3>2, <3>3
    <2> QED
      BY <2>3, <2>4
  <1>12. RefusedWhileShared'
    BY <1>1, <1>2 DEF RefusedWhileShared, bridgeVars
  <1> QED
    BY <1>5, <1>6, <1>9, <1>10, <1>11, <1>12 DEF QueueInv

\* The stopper.  It stops what is live besides, too.
LEMMA StopKeepsQueues ==
    ASSUME IInv, NEW s \in Subs, Stop(s)
    PROVE  QueueInv'
  <1> DEFINE q == <<<<s, "stopReactive">>>>
  <1>1. /\ status[s] = "live"
        /\ status' = [status EXCEPT ![s] = "stopped"]
        /\ robbed' = robbed \cup (Live \ {s})
        /\ Send(q)
        /\ UNCHANGED <<way, link, stage, down, relayed, heard, shared, bridgeVars>>
    BY DEF Stop, Stopping, Stoppable
  <1>2. /\ TypeOK
        /\ EndFollowsLive /\ NewIsBlank /\ SentByItself /\ IdleIsSilent /\ StopsWereMade
        /\ KeptByItsStopper /\ RefusedWhileShared
    BY DEF IInv, QueueInv
  <1>3. /\ q \in Seq(Sends) /\ q # <<>> /\ \A j \in 1..Len(q) : q[j][1] = s /\ q[j][2] = "stopReactive"
    BY StopFields
  <1>4. /\ \A t \in Subs : t # s => status'[t] = status[t]
        /\ status'[s] = "stopped"
        /\ Live' = Live \ {s}
    BY <1>1, <1>2 DEF TypeOK, Live
  <1>5. QueuesAreInOrder' /\ EndFollowsLive'
    <2>1. InOrder(q, End, Plain, shared') /\ \A g : Final(q, g, Plain) = "nothing"
      BY StopFields
    <2>2. QueuesAreInOrder' /\ ((stage = "settled" => link \in open) => End' = "nothing")
      BY <2>1, <1>1, <1>3, SendKeepsOrder
    <2> QED
      BY <2>2, <1>1 DEF EndFollowsLive, bridgeVars
  <1>6. NewIsBlank' /\ SentByItself' /\ IdleIsSilent'
    BY <1>1, <1>3, <1>4, SendIsByItself
  <1>7. /\ \A k \in Sessions : \A i \in 1..Len(up'[k]) :
              \/ i \in 1..Len(up[k]) /\ up'[k][i] = up[k][i]
              \/ up'[k][i][1] = s /\ up'[k][i][2] = "stopReactive"
        /\ \A i \in 1..Len(parked') :
              \/ i \in 1..Len(parked) /\ parked'[i] = parked[i]
              \/ parked'[i][1] = s /\ parked'[i][2] = "stopReactive"
    <2> HIDE DEF q
    <2>1. ASSUME NEW k \in Sessions, NEW i \in 1..Len(up'[k])
          PROVE  \/ i \in 1..Len(up[k]) /\ up'[k][i] = up[k][i]
                 \/ up'[k][i][1] = s /\ up'[k][i][2] = "stopReactive"
      <3>1. CASE \E j \in 1..Len(q) : up'[k][i] = <<q[j][1], q[j][2], k>>
        BY <3>1, <1>3
      <3> QED
        BY <3>1, <1>1, <1>2, <1>3, SendPositions
    <2>2. ASSUME NEW i \in 1..Len(parked')
          PROVE  \/ i \in 1..Len(parked) /\ parked'[i] = parked[i]
                 \/ parked'[i][1] = s /\ parked'[i][2] = "stopReactive"
      <3>1. CASE \E j \in 1..Len(q) : parked'[i] = q[j]
        BY <3>1, <1>3
      <3> QED
        BY <3>1, <1>1, <1>2, <1>3, SendPositions
    <2> QED
      BY <2>1, <2>2
  <1>9. StopsWereMade'
    <2>1. \A t \in Subs : status[t] = "stopped" => status'[t] = "stopped"
      BY <1>1, <1>4
    <2>2. ASSUME NEW i \in 1..Len(parked'), parked'[i][2] = "stopReactive"
          PROVE  status'[parked'[i][1]] = "stopped"
      <3>1. CASE i \in 1..Len(parked) /\ parked'[i] = parked[i]
        <4>1. parked[i][1] \in Subs
          BY <3>1, <1>2 DEF TypeOK
        <4> QED
          BY <2>1, <2>2, <3>1, <4>1, <1>2 DEF StopsWereMade
      <3>2. CASE parked'[i][1] = s
        BY <3>2, <1>4
      <3> QED
        BY <3>1, <3>2, <1>7
    <2>3. ASSUME NEW k \in Sessions, NEW i \in 1..Len(up'[k]), up'[k][i][2] = "stopReactive"
          PROVE  status'[up'[k][i][1]] = "stopped"
      <3>1. CASE i \in 1..Len(up[k]) /\ up'[k][i] = up[k][i]
        <4>1. up[k][i] \in Messages
          BY <3>1, <1>2 DEF TypeOK
        <4> QED
          BY <2>1, <2>3, <3>1, <4>1, <1>2, MessageFields DEF StopsWereMade
      <3>2. CASE up'[k][i][1] = s
        BY <3>2, <1>4
      <3> QED
        BY <3>1, <3>2, <1>7
    <2> QED
      BY <2>1, <2>2, <2>3, <1>1, <1>2 DEF StopsWereMade, bridgeVars
  <1>10. KeptByItsStopper'
    BY <1>1, <1>2 DEF KeptByItsStopper, bridgeVars, Bridge!Kept, Bridge!Hears, StopperOf
  <1>11. LiveAreLeftAlone'
    BY <1>1, <1>4 DEF LiveAreLeftAlone
  <1>12. RefusedWhileShared'
    BY <1>1, <1>2 DEF RefusedWhileShared, bridgeVars
  <1> QED
    BY <1>5, <1>6, <1>9, <1>10, <1>11, <1>12 DEF QueueInv

-----------------------------------------------------------------------------
Refused(m) == \E i \in DOMAIN replies[m] : replies[m][i] = "refusal"

\* Nothing was sent or handled, and what the bridge did ended no subscription but
\* one whose stopper was called.
LEMMA QueuesUnchanged ==
    ASSUME IInv,
           UNCHANGED <<way, status, shared, robbed, link, parked, up>>,
           stage' = stage \/ (stage # "settled" /\ stage' # "settled"),
           UNCHANGED <<open, client, stoppers, asked>>,
           \A k \in Sessions : phase'[k] = "none" <=> phase[k] = "none",
           \A m \in Messages : /\ tx'[m] = "none" <=> tx[m] = "none"
                               /\ Bridge!Kept(m)' => Bridge!Kept(m)
                               /\ Refused(m)' => Refused(m)
    PROVE  QueueInv'
  <1>1. /\ TypeOK /\ QueuesAreInOrder
        /\ EndFollowsLive /\ NewIsBlank /\ SentByItself /\ IdleIsSilent /\ StopsWereMade
        /\ KeptByItsStopper /\ LiveAreLeftAlone /\ RefusedWhileShared
    BY DEF IInv, QueueInv
  <1>2. /\ Plain' = Plain /\ Live' = Live /\ (link = None \/ link \in Sessions)
        /\ (\A k \in Sessions : Held(k)' = Held(k)) /\ (link \in Sessions => Held(link)' = Held(link))
    BY <1>1 DEF Plain, Live, Held, StopperOf, TypeOK
  <1>3. QueuesAreInOrder'
    BY <1>1, <1>2 DEF QueuesAreInOrder
  <1>4. EndFollowsLive'
    <2>1. (stage = "settled" <=> stage' = "settled") /\ (stage = "settled" => link \in Sessions)
      BY <1>1 DEF TypeOK
    <2>2. End' = End
      BY <2>1, <1>2 DEF End
    <2> QED
      BY <2>1, <2>2, <1>1, <1>2 DEF EndFollowsLive
  <1>5. NewIsBlank'
    BY <1>1, <1>2 DEF NewIsBlank
  <1>6. SentByItself' /\ IdleIsSilent'
    BY <1>1 DEF SentByItself, IdleIsSilent
  <1>7. StopsWereMade'
    BY <1>1 DEF StopsWereMade
  <1>8. KeptByItsStopper'
    BY <1>1 DEF KeptByItsStopper, StopperOf
  <1>9. LiveAreLeftAlone'
    <2> SUFFICES ASSUME NEW s \in Live \ robbed, link # None, tx'[Opener(s, link)] # "none"
                 PROVE  /\ \A i \in 1..Len(up[link]) : up[link][i][2] # "stopReactive"
                        /\ link \in open => StopperOf(link) # None
      BY <1>1, <1>2 DEF LiveAreLeftAlone, Opener, StopperOf
    <2>1. Opener(s, link) \in Messages
      BY <1>2 DEF Opener, Messages, Live
    <2> QED
      BY <2>1, <1>1 DEF LiveAreLeftAlone
  <1>10. RefusedWhileShared'
    BY <1>1 DEF RefusedWhileShared, Refused, Named
  <1> QED
    BY <1>3, <1>4, <1>5, <1>6, <1>7, <1>8, <1>9, <1>10 DEF QueueInv

\* A message that was not handled left nothing.
LEMMA UnhandledIsBlank ==
    ASSUME IInv
    PROVE  /\ \A m \in Messages : tx[m] = "none" => sub[m] = "none" /\ m \notin asked
           /\ \A k \in Sessions : (\A m \in Messages : m[3] = k => tx[m] = "none")
                                      => StopperOf(k) = None
           /\ \A k \in Sessions : StopperOf(k) # None =>
                 /\ StopperOf(k) \in Messages /\ StopperOf(k)[3] = k
                 /\ Bridge!Kept(StopperOf(k)) /\ k \in client
           /\ client = open
  <1>1. Session!TypeOK /\ Session!StoppersAreFiled /\ Session!SubscriptionsWereAsked
        /\ Session!ClientsAreOpen
    BY DEF IInv, Session!IInv
  <1>2. \A m \in Messages : tx[m] = "none" => sub[m] = "none" /\ m \notin asked
    BY <1>1 DEF Session!SubscriptionsWereAsked, Session!TypeOK
  <1>3. ASSUME NEW k \in Sessions, StopperOf(k) # None
        PROVE  /\ StopperOf(k) \in Messages /\ StopperOf(k)[3] = k
               /\ Bridge!Kept(StopperOf(k)) /\ k \in client
    <2>1. StopperOf(k) \in Messages
      BY <1>1, <1>3 DEF Session!TypeOK, StopperOf, Channels
    <2>2. From[StopperOf(k)] = k /\ Session!Kept(StopperOf(k)) /\ k \in client
      BY <1>1, <2>1 DEF Session!StoppersAreFiled, StopperOf, Channels
    <2> QED
      BY <2>1, <2>2, MessageFields DEF Bridge!Kept, Bridge!Hears, Session!Kept, Session!Hears
  <1>4. ASSUME NEW k \in Sessions, \A m \in Messages : m[3] = k => tx[m] = "none"
        PROVE  StopperOf(k) = None
    BY <1>2, <1>3, <1>4 DEF Bridge!Kept, Bridge!Hears
  <1> QED
    BY <1>1, <1>2, <1>3, <1>4 DEF Session!ClientsAreOpen

\* A new connection, with a session that holds nothing.
LEMMA ConnectKeepsQueues ==
    ASSUME IInv, NEW k \in Sessions, Connect(k)
    PROVE  QueueInv'
  <1>1. /\ stage = "none" /\ phase[k] = "none"
        /\ phase' = [phase EXCEPT ![k] = "starting"]
        /\ open' = open \cup {k} /\ client' = client \cup {k}
        /\ link' = k /\ stage' = "connecting"
        /\ UNCHANGED <<way, status, shared, robbed, parked, up, stoppers, sub, asked, tx, replies>>
    BY DEF Connect, ClientUnchanged, Bridge!OnConnection, Bridge!messageVars
  <1>2. /\ TypeOK /\ QueuesAreInOrder
        /\ EndFollowsLive /\ NewIsBlank /\ SentByItself /\ IdleIsSilent /\ StopsWereMade
        /\ KeptByItsStopper /\ LiveAreLeftAlone /\ RefusedWhileShared
    BY DEF IInv, QueueInv
  <1>3. up[k] = <<>> /\ \A m \in Messages : m[3] = k => tx[m] = "none" /\ m \notin asked
    BY <1>1, <1>2, UnhandledIsBlank DEF NewIsBlank
  <1>4. /\ Plain' = Plain /\ Live' = Live /\ k # None
        /\ \A j \in Sessions : Held(j)' = Held(j)
    BY <1>1 DEF Plain, Live, Held, StopperOf
  <1>5. QueuesAreInOrder'
    <2>1. InOrder(up[k], Held(k), Plain, shared)
      BY <1>3 DEF InOrder
    <2> QED
      BY <2>1, <1>1, <1>2, <1>4 DEF QueuesAreInOrder
  <1>6. EndFollowsLive'
    BY <1>1, <1>2, <1>4 DEF EndFollowsLive, End
  <1>7. NewIsBlank'
    <2>1. phase'[k] = "starting" /\ \A j \in Sessions : j # k => phase'[j] = phase[j]
      BY <1>1, <1>2, BridgeTypes DEF IInv, Bridge!TypeOK
    <2> QED
      BY <2>1, <1>1, <1>2, <1>3 DEF NewIsBlank
  <1>8. SentByItself' /\ IdleIsSilent'
    BY <1>1, <1>2 DEF SentByItself, IdleIsSilent
  <1>9. StopsWereMade'
    <2>1. \A m \in asked : m \in Messages
      BY BridgeTypes DEF IInv, Bridge!TypeOK
    <2> QED
      BY <2>1, <1>1, <1>2, <1>3 DEF StopsWereMade
  <1>10. KeptByItsStopper' /\ RefusedWhileShared'
    BY <1>1, <1>2 DEF KeptByItsStopper, Bridge!Kept, Bridge!Hears, StopperOf, RefusedWhileShared
  <1>11. LiveAreLeftAlone'
    <2> SUFFICES ASSUME NEW s \in Live \ robbed
                 PROVE  /\ NoStopBehind(parked, s) /\ NoStopBehind(up[k], s)
                        /\ tx[<<s, IF s \in Plain THEN "subscribe" ELSE "reactive", k>>] = "none"
      BY <1>1, <1>4 DEF LiveAreLeftAlone, Opener
    <2>1. <<s, IF s \in Plain THEN "subscribe" ELSE "reactive", k>> \in Messages
      BY DEF Messages, Live
    <2> QED
      BY <2>1, <1>2, <1>3, <1>4 DEF LiveAreLeftAlone, NoStopBehind
  <1> QED
    BY <1>5, <1>6, <1>7, <1>8, <1>9, <1>10, <1>11 DEF QueueInv

\* What waited is sent, over a connection that has nothing yet.
LEMMA SettleKeepsQueues ==
    ASSUME IInv, Settle
    PROVE  QueueInv'
  <1> DEFINE r == On(link, parked)
  <1>1. /\ stage = "connected" /\ stage' = "settled"
        /\ up' = Up(link, parked) /\ parked' = <<>>
        /\ UNCHANGED <<way, status, shared, robbed, link, bridgeVars>>
    BY DEF Settle, ClientUnchanged
  <1>2. /\ TypeOK /\ QueuesAreInOrder
        /\ EndFollowsLive /\ NewIsBlank /\ SentByItself /\ IdleIsSilent /\ StopsWereMade
        /\ KeptByItsStopper /\ LiveAreLeftAlone /\ RefusedWhileShared
    BY DEF IInv, QueueInv
  <1>3. /\ link \in Sessions /\ parked \in Seq(Sends)
        /\ up \in [Sessions -> Seq(Messages)]
    BY <1>1, <1>2 DEF TypeOK, Sends
  <1>4. up[link] = <<>> /\ \A m \in Messages : m[3] = link => tx[m] = "none"
    BY <1>1, <1>2, <1>3 DEF NewIsBlank
  <1>5. StopperOf(link) = None
    BY <1>3, <1>4, UnhandledIsBlank
  <1>6. /\ r \in Seq(Messages) /\ Len(r) = Len(parked)
        /\ \A i \in 1..Len(parked) : /\ r[i][1] = parked[i][1] /\ r[i][2] = parked[i][2]
                                     /\ r[i][3] = link
        /\ InOrder(r, "nothing", Plain, shared)
        /\ Final(r, "nothing", Plain) = Final(parked, "nothing", Plain)
    BY <1>2, <1>3, OnFields, OnIsInOrder DEF QueuesAreInOrder
  <1> HIDE DEF r
  <1>7. /\ \A k \in Sessions : k # link \/ link \notin open => up'[k] = up[k]
        /\ link \in open => up'[link] = r
    BY <1>1, <1>3, <1>4, <1>6 DEF Up, r
  <1>8. /\ Plain' = Plain /\ Live' = Live /\ Held(link) = "nothing"
        /\ \A k \in Sessions : Held(k)' = Held(k)
    BY <1>1, <1>5 DEF Plain, Live, Held, StopperOf, bridgeVars
  <1>9. QueuesAreInOrder'
    BY <1>1, <1>2, <1>3, <1>6, <1>7, <1>8 DEF QueuesAreInOrder, InOrder, bridgeVars
  <1>10. EndFollowsLive'
    <2>1. link \in open => End' = End
      BY <1>1, <1>3, <1>6, <1>7, <1>8 DEF End
    <2> QED
      BY <2>1, <1>1, <1>2, <1>8 DEF EndFollowsLive, bridgeVars
  <1>11. NewIsBlank'
    BY <1>1, <1>2, <1>3, <1>7 DEF NewIsBlank, bridgeVars
  <1>12. /\ \A k \in Sessions : \A i \in 1..Len(up'[k]) :
               \/ i \in 1..Len(up[k]) /\ up'[k][i] = up[k][i]
               \/ /\ k = link /\ i \in 1..Len(parked)
                  /\ up'[k][i][1] = parked[i][1] /\ up'[k][i][2] = parked[i][2]
                  /\ up'[k][i][3] = k
         /\ Len(parked') = 0
    BY <1>1, <1>6, <1>7
  <1>13. SentByItself'
    <2> SUFFICES ASSUME NEW k \in Sessions, NEW i \in 1..Len(up'[k])
                 PROVE  up'[k][i][3] = k
      BY DEF SentByItself
    <2>1. CASE i \in 1..Len(up[k]) /\ up'[k][i] = up[k][i]
      BY <2>1, <1>2 DEF SentByItself
    <2> QED
      BY <2>1, <1>12
  <1>14. IdleIsSilent'
    <2>1. ASSUME NEW s \in Subs, status[s] = "idle",
                 NEW k \in Sessions, NEW i \in 1..Len(up'[k])
          PROVE  up'[k][i][1] # s
      <3>1. CASE i \in 1..Len(up[k]) /\ up'[k][i] = up[k][i]
        BY <2>1, <3>1, <1>2 DEF IdleIsSilent
      <3>2. CASE i \in 1..Len(parked) /\ up'[k][i][1] = parked[i][1]
        BY <2>1, <3>2, <1>2 DEF IdleIsSilent
      <3> QED
        BY <3>1, <3>2, <1>12
    <2> QED
      BY <2>1, <1>1, <1>2, <1>12 DEF IdleIsSilent, bridgeVars
  <1>17. StopsWereMade'
    <2>1. ASSUME NEW k \in Sessions, NEW i \in 1..Len(up'[k]), up'[k][i][2] = "stopReactive"
          PROVE  status[up'[k][i][1]] = "stopped"
      <3>1. CASE i \in 1..Len(up[k]) /\ up'[k][i] = up[k][i]
        BY <2>1, <3>1, <1>2 DEF StopsWereMade
      <3>2. CASE /\ i \in 1..Len(parked)
                 /\ up'[k][i][1] = parked[i][1] /\ up'[k][i][2] = parked[i][2]
        BY <2>1, <3>2, <1>2 DEF StopsWereMade
      <3> QED
        BY <3>1, <3>2, <1>12
    <2> QED
      BY <2>1, <1>1, <1>2, <1>12 DEF StopsWereMade, bridgeVars
  <1>15. KeptByItsStopper' /\ RefusedWhileShared'
    BY <1>1, <1>2 DEF KeptByItsStopper, Bridge!Kept, Bridge!Hears, StopperOf, RefusedWhileShared, bridgeVars
  <1>16. LiveAreLeftAlone'
    <2> SUFFICES ASSUME NEW s \in Live \ robbed
                 PROVE  /\ NoStopBehind(<<>>, s) /\ NoStopBehind(up'[link], s)
                        /\ tx[<<s, IF s \in Plain THEN "subscribe" ELSE "reactive", link>>] = "none"
      BY <1>1, <1>8 DEF LiveAreLeftAlone, Opener, bridgeVars
    <2>1. <<s, IF s \in Plain THEN "subscribe" ELSE "reactive", link>> \in Messages
      BY <1>3 DEF Messages, Live
    <2>2. NoStopBehind(parked, s)
      BY <1>2 DEF LiveAreLeftAlone
    <2>3. NoStopBehind(up'[link], s)
      <3>1. CASE link \in open
        <4>1. up'[link] = r /\ Len(r) = Len(parked)
          BY <3>1, <1>6, <1>7
        <4> QED
          BY <4>1, <2>2, <1>6 DEF NoStopBehind
      <3>2. CASE link \notin open
        BY <3>2, <1>3, <1>4, <1>7 DEF NoStopBehind
      <3> QED
        BY <3>1, <3>2
    <2> QED
      BY <2>1, <2>3, <1>4 DEF NoStopBehind
  <1> QED
    BY <1>9, <1>10, <1>11, <1>13, <1>14, <1>15, <1>16, <1>17 DEF QueueInv

\* The end of a connection on the client's side.
LEMMA DropKeepsQueues ==
    ASSUME IInv, Drop
    PROVE  QueueInv'
  <1>1. /\ link' = None /\ stage' = "none" /\ parked' = <<>>
        /\ UNCHANGED <<way, status, shared, robbed, up, bridgeVars>>
    BY DEF Drop, ClientUnchanged
  <1>2. /\ TypeOK /\ QueuesAreInOrder
        /\ EndFollowsLive /\ NewIsBlank /\ SentByItself /\ IdleIsSilent /\ StopsWereMade
        /\ KeptByItsStopper /\ LiveAreLeftAlone /\ RefusedWhileShared
    BY DEF IInv, QueueInv
  <1>3. /\ Plain' = Plain /\ Live' = Live
        /\ \A k \in Sessions : Held(k)' = Held(k)
    BY <1>1 DEF Plain, Live, Held, StopperOf, bridgeVars
  <1>4. QueuesAreInOrder'
    BY <1>1, <1>2, <1>3 DEF QueuesAreInOrder, InOrder, bridgeVars
  <1>5. EndFollowsLive'
    BY <1>1 DEF EndFollowsLive, End, Final
  <1>6. NewIsBlank'
    BY <1>1, <1>2 DEF NewIsBlank, bridgeVars
  <1>7. SentByItself' /\ IdleIsSilent' /\ StopsWereMade'
    BY <1>1, <1>2 DEF SentByItself, IdleIsSilent, StopsWereMade, bridgeVars
  <1>8. KeptByItsStopper' /\ RefusedWhileShared'
    BY <1>1, <1>2 DEF KeptByItsStopper, Bridge!Kept, Bridge!Hears, StopperOf, RefusedWhileShared, bridgeVars
  <1>9. LiveAreLeftAlone'
    BY <1>1 DEF LiveAreLeftAlone, NoStopBehind
  <1> QED
    BY <1>4, <1>5, <1>6, <1>7, <1>8, <1>9 DEF QueueInv

-----------------------------------------------------------------------------
\* What the bridge does with a message: it ends the subscription that its session
\* holds, refuses, or holds the message.
Stops(m) ==
    /\ m[2] = "stopReactive"
    /\ StopperOf(m[3])' = None
    /\ asked' = asked \cup ({StopperOf(m[3])} \ {None})
    /\ UNCHANGED <<sub, replies>>

Refuses(m) ==
    /\ m[2] # "stopReactive" /\ StopperOf(m[3]) \in Named
    /\ StopperOf(m[3])' = StopperOf(m[3])
    /\ \A n \in Messages : n # m => replies'[n] = replies[n]
    /\ replies'[m] = Append(replies[m], "refusal")
    /\ UNCHANGED <<sub, asked>>

Holds(m) ==
    /\ m[2] # "stopReactive" /\ StopperOf(m[3]) \notin Named
    /\ StopperOf(m[3])' = m
    /\ sub'[m] = "subscribing"
    /\ \A n \in Messages : n # m => sub'[n] = sub[n]
    /\ UNCHANGED <<asked, replies>>

LEMMA StopperIsReplaced ==
    ASSUME Bridge!TypeOK, NEW k \in Sessions, NEW v,
           stoppers' = [stoppers EXCEPT ![k]["channel"] = v]
    PROVE  /\ StopperOf(k)' = v
           /\ \A j \in Sessions : j # k => StopperOf(j)' = StopperOf(j)
  <1>1. stoppers \in [Sessions -> [{"channel"} -> Messages \cup {None}]]
    BY DEF Bridge!TypeOK, Channels
  <1>2. stoppers'[k] = [stoppers[k] EXCEPT !["channel"] = v]
        /\ \A j \in Sessions : j # k => stoppers'[j] = stoppers[j]
    BY <1>1
  <1> QED
    BY <1>1, <1>2 DEF StopperOf

LEMMA HandleFields ==
    ASSUME IInv, NEW m \in Messages, Handle(m)
    PROVE  /\ m[3] \in open /\ phase[m[3]] = "connected"
           /\ UNCHANGED <<phase, open, client>>
           /\ tx[m] = "none" /\ tx'[m] # "none"
           /\ \A n \in Messages : n # m => tx'[n] = tx[n]
           /\ \A j \in Sessions : j # m[3] => StopperOf(j)' = StopperOf(j)
           /\ Stops(m) \/ Refuses(m) \/ Holds(m)
  <1> DEFINE k == m[3]
  <1>1. /\ Bridge!TypeOK
        /\ From[m] = k /\ Kind[m] = m[2] /\ Channel[m] = "channel" /\ m # None
        /\ k \in Sessions /\ None \notin Named
    BY BridgeTypes, MessageFields DEF IInv, Named
  <1>2. /\ k \in open /\ phase[k] = "connected" /\ tx[m] = "none"
        /\ UNCHANGED <<phase, ran, open, client, sessions, offline>>
    BY <1>1 DEF Handle, Bridge!OnReactive, Bridge!OnSubscribe, Bridge!OnStopReactive,
                Bridge!Received, Bridge!sessionVars
  <1>3. tx' = [tx EXCEPT ![m] = "open"] \/ tx' = [tx EXCEPT ![m] = "done"]
    BY DEF Handle, Bridge!OnReactive, Bridge!OnSubscribe, Bridge!OnStopReactive, Bridge!Begin
  <1>4. tx'[m] # "none" /\ \A n \in Messages : n # m => tx'[n] = tx[n]
    BY <1>1, <1>3 DEF Bridge!TypeOK
  <1>5. CASE Bridge!OnStopReactive(m)
    <2>1. /\ m[2] = "stopReactive"
          /\ asked' = asked \cup ({StopperOf(k)} \ {None})
          /\ stoppers' = [stoppers EXCEPT ![k]["channel"] = None]
          /\ UNCHANGED <<sub, replies>>
      BY <1>1, <1>5 DEF Bridge!OnStopReactive, StopperOf
    <2>2. StopperOf(k)' = None /\ \A j \in Sessions : j # k => StopperOf(j)' = StopperOf(j)
      BY <2>1, <1>1, StopperIsReplaced
    <2> QED
      BY <2>1, <2>2, <1>2, <1>4 DEF Stops
  <1>6. CASE Bridge!OnReactive(m) \/ Bridge!OnSubscribe(m)
    <2>1. /\ m[2] # "stopReactive" /\ Bridge!Subscribe(m) /\ UNCHANGED asked
      BY <1>1, <1>6 DEF Bridge!OnReactive, Bridge!OnSubscribe
    <2>2. CASE StopperOf(k) \in Named
      <3>1. /\ replies' = [replies EXCEPT ![m] = Append(@, "refusal")]
            /\ UNCHANGED <<stoppers, sub>>
        BY <2>1, <2>2, <1>1 DEF Bridge!Subscribe, Bridge!Duplicate, Bridge!Reply, StopperOf
      <3>2. /\ replies'[m] = Append(replies[m], "refusal")
            /\ \A n \in Messages : n # m => replies'[n] = replies[n]
        BY <3>1, <1>1 DEF Bridge!TypeOK
      <3> QED
        BY <2>1, <2>2, <3>1, <3>2, <1>2, <1>4 DEF Refuses, StopperOf
    <2>3. CASE StopperOf(k) \notin Named
      <3>1. /\ stoppers' = [stoppers EXCEPT ![k]["channel"] = m]
            /\ sub' = [sub EXCEPT ![m] = "subscribing"]
            /\ UNCHANGED replies
        BY <2>1, <2>3, <1>1 DEF Bridge!Subscribe, Bridge!Duplicate, StopperOf
      <3>2. StopperOf(k)' = m /\ \A j \in Sessions : j # k => StopperOf(j)' = StopperOf(j)
        BY <3>1, <1>1, StopperIsReplaced
      <3>3. sub'[m] = "subscribing" /\ \A n \in Messages : n # m => sub'[n] = sub[n]
        BY <3>1, <1>1 DEF Bridge!TypeOK
      <3> QED
        BY <2>1, <2>3, <3>1, <3>2, <3>3, <1>2, <1>4 DEF Holds
    <2> QED
      BY <2>2, <2>3
  <1> QED
    BY <1>5, <1>6 DEF Handle

\* A message that fits leaves the session with what it was meant to.
LEMMA FittingIsHeld ==
    ASSUME IInv, NEW m \in Messages, Fits(m, Held(m[3]), Plain, shared),
           Stops(m) \/ Refuses(m) \/ Holds(m)
    PROVE  /\ Held(m[3])' = Left(m, Plain)
           /\ Holds(m) => StopperOf(m[3]) = None
           /\ Refuses(m) /\ m \in Named => m[1] \in shared
           /\ m[2] # "stopReactive" => StopperOf(m[3])' # None
  <1>1. /\ m # None /\ (m \in Named <=> m[2] = "reactive")
        /\ m[2] \in {"subscribe", "reactive", "stopReactive"}
        /\ None \notin Named /\ Named' = Named
    BY MessageFields DEF Named
  <1>2. CASE Stops(m)
    BY <1>1, <1>2 DEF Stops, Refuses, Holds, Held, Left
  <1>3. CASE Refuses(m)
    <2>1. Held(m[3]) = "reactive" /\ Held(m[3])' = "reactive"
      BY <1>1, <1>3 DEF Refuses, Held, StopperOf
    <2>2. Left(m, Plain) = "reactive"
      BY <1>1, <1>3, <2>1 DEF Refuses, Fits, Left
    <2> QED
      BY <1>1, <1>3, <2>1, <2>2 DEF Refuses, Holds, Fits
  <1>4. CASE Holds(m)
    <2>1. Held(m[3]) # "reactive" /\ (Held(m[3]) = "nothing" <=> StopperOf(m[3]) = None)
      BY <1>1, <1>4 DEF Holds, Held
    <2>2. Held(m[3]) = "nothing"
      BY <1>1, <1>4, <2>1 DEF Holds, Fits, Held
    <2>3. Held(m[3])' = IF m[2] = "reactive" THEN "reactive" ELSE "plain"
      BY <1>1, <1>4 DEF Holds, Held, StopperOf
    <2>4. m[2] = "subscribe" => m[1] \in Plain
      BY <2>2 DEF Fits
    <2> QED
      BY <1>1, <1>4, <2>1, <2>2, <2>3, <2>4 DEF Holds, Refuses, Left
  <1> QED
    BY <1>2, <1>3, <1>4

\* The bridge handles the first message of a connection.
LEMMA ReceiveKeepsQueues ==
    ASSUME IInv, NEW k \in Sessions, Receive(k)
    PROVE  QueueInv'
  <1>0. PICK x \in Messages : x = Head(up[k])
    BY DEF IInv, TypeOK, Receive
  <1>1. /\ up[k] # <<>> /\ Handle(x)
        /\ up' = [up EXCEPT ![k] = Tail(@)]
        /\ UNCHANGED <<way, status, result, link, stage, parked, heard, shared, robbed>>
    BY <1>0 DEF Receive, clientVars
  <1>2. /\ TypeOK /\ QueuesAreInOrder
        /\ EndFollowsLive /\ NewIsBlank /\ SentByItself /\ IdleIsSilent /\ StopsWereMade
        /\ KeptByItsStopper /\ LiveAreLeftAlone /\ RefusedWhileShared
    BY DEF IInv, QueueInv
  <1>3. up \in [Sessions -> Seq(Messages)] /\ up[k] \in Seq(Messages)
    BY <1>2 DEF TypeOK
  <1>4. /\ x = up[k][1]
        /\ Tail(up[k]) \in Seq(Messages) /\ Len(up[k]) \in Nat \ {0}
        /\ Len(Tail(up[k])) = Len(up[k]) - 1
        /\ \A i \in 1..Len(Tail(up[k])) : Tail(up[k])[i] = up[k][i + 1]
    BY <1>0, <1>1, <1>3, HeadTailProperties, EmptySeq
  <1>5. /\ x[3] = k
        /\ up'[k] = Tail(up[k]) /\ \A j \in Sessions : j # k => up'[j] = up[j]
        /\ \A i \in 1..Len(up'[k]) : i + 1 \in 1..Len(up[k]) /\ up'[k][i] = up[k][i + 1]
    BY <1>1, <1>2, <1>3, <1>4 DEF SentByItself
  <1>6. \A j \in Sessions : \A i \in 1..Len(up'[j]) :
            \E n \in 1..Len(up[j]) : up'[j][i] = up[j][n]
    <2> TAKE j \in Sessions
    <2> TAKE i \in 1..Len(up'[j])
    <2>1. CASE j = k
      BY <2>1, <1>5
    <2>2. CASE j # k
      BY <2>2, <1>5
    <2> QED
      BY <2>1, <2>2
  <1>7. /\ k \in open /\ phase[k] = "connected"
        /\ UNCHANGED <<phase, open, client>>
        /\ tx[x] = "none" /\ tx'[x] # "none"
        /\ \A n \in Messages : n # x => tx'[n] = tx[n]
        /\ \A j \in Sessions : j # k => StopperOf(j)' = StopperOf(j)
        /\ Stops(x) \/ Refuses(x) \/ Holds(x)
    BY <1>1, <1>4, <1>5, HandleFields
  <1>8. /\ Fits(x, Held(k), Plain, shared)
        /\ InOrder(up'[k], Left(x, Plain), Plain, shared)
        /\ Final(up'[k], Left(x, Plain), Plain) = Final(up[k], Held(k), Plain)
    <2>1. InOrder(up[k], Held(k), Plain, shared)
      BY <1>2, <1>7 DEF QueuesAreInOrder
    <2>2. /\ Fits(Head(up[k]), Held(k), Plain, shared)
          /\ InOrder(Tail(up[k]), Left(Head(up[k]), Plain), Plain, shared)
          /\ Final(Tail(up[k]), Left(Head(up[k]), Plain), Plain) = Final(up[k], Held(k), Plain)
      BY <2>1, <1>1, <1>3, TailIsInOrder
    <2> QED
      BY <2>2, <1>0, <1>5
  <1>9. /\ Held(k)' = Left(x, Plain)
        /\ Holds(x) => StopperOf(k) = None
        /\ Refuses(x) /\ x \in Named => x[1] \in shared
        /\ x[2] # "stopReactive" => StopperOf(k)' # None
    BY <1>4, <1>5, <1>7, <1>8, FittingIsHeld
  <1>10. /\ Plain' = Plain /\ Live' = Live
         /\ \A j \in Sessions : j # k => Held(j)' = Held(j)
    BY <1>1, <1>7 DEF Plain, Live, Held
  <1>11. QueuesAreInOrder'
    BY <1>1, <1>2, <1>5, <1>7, <1>8, <1>9, <1>10 DEF QueuesAreInOrder
  <1>12. EndFollowsLive'
    <2>1. stage = "settled" => link \in Sessions
      BY <1>2 DEF TypeOK
    <2>5. End' = End
      <3>2. CASE stage = "settled" /\ link = k
        <4>1. End = Final(up[k], Held(k), Plain)
          BY <3>2 DEF End
        <4>2. End' = Final(up'[link'], Held(link)', Plain')
          BY <3>2, <1>1 DEF End
        <4>3. Held(link)' = Held(k)'
          BY <3>2, <1>1 DEF Held, StopperOf
        <4> QED
          BY <3>2, <4>1, <4>2, <4>3, <1>1, <1>8, <1>9, <1>10
      <3>3. CASE stage = "settled" /\ link # k
        <4>1. Held(link)' = Held(link) /\ up'[link] = up[link]
          BY <2>1, <3>3, <1>5, <1>7, <1>1 DEF Held, StopperOf
        <4> QED
          BY <3>3, <4>1, <1>1, <1>10 DEF End
      <3>4. CASE stage # "settled"
        <4>1. End = Final(parked, "nothing", Plain)
          BY <3>4 DEF End
        <4>2. End' = Final(parked', "nothing", Plain')
          BY <3>4, <1>1 DEF End
        <4> QED
          BY <4>1, <4>2, <1>1, <1>10
      <3> QED
        BY <3>2, <3>3, <3>4
    <2> QED
      BY <2>5, <1>1, <1>2, <1>7, <1>10 DEF EndFollowsLive
  <1>13. NewIsBlank'
    <2>1. ~(phase[k] = "none" \/ (k = link /\ stage # "settled"))
      BY <1>1, <1>2, <1>7 DEF NewIsBlank
    <2> QED
      BY <2>1, <1>1, <1>2, <1>5, <1>7 DEF NewIsBlank
  <1>14. SentByItself'
    <2> SUFFICES ASSUME NEW j \in Sessions, NEW i \in 1..Len(up'[j])
                 PROVE  up'[j][i][3] = j
      BY DEF SentByItself
    <2>1. PICK n \in 1..Len(up[j]) : up'[j][i] = up[j][n]
      BY <1>6
    <2> QED
      BY <2>1, <1>2 DEF SentByItself
  <1>15. status[x[1]] # "idle" /\ x[1] \in Subs
    BY <1>2, <1>4, MessageFields DEF IdleIsSilent
  <1>16. IdleIsSilent'
    <2> SUFFICES ASSUME NEW s \in Subs, status[s] = "idle"
                 PROVE  /\ \A j \in Sessions : \A i \in 1..Len(up'[j]) : up'[j][i][1] # s
                        /\ \A m \in Messages : m[1] = s => tx'[m] = "none"
      BY <1>1, <1>2 DEF IdleIsSilent
    <2>1. \A j \in Sessions : \A i \in 1..Len(up'[j]) : up'[j][i][1] # s
      BY <1>2, <1>6 DEF IdleIsSilent
    <2>2. \A m \in Messages : m[1] = s => tx'[m] = "none"
      BY <1>2, <1>7, <1>15 DEF IdleIsSilent
    <2> QED
      BY <2>1, <2>2
  <1>17. StopsWereMade'
    <2>1. ASSUME NEW j \in Sessions, NEW i \in 1..Len(up'[j]), up'[j][i][2] = "stopReactive"
          PROVE  status[up'[j][i][1]] = "stopped"
      <3>1. PICK n \in 1..Len(up[j]) : up'[j][i] = up[j][n]
        BY <1>6
      <3> QED
        BY <2>1, <3>1, <1>2 DEF StopsWereMade
    <2>2. \A m \in asked' : m[3] \in client => \E s \in Subs : status[s] = "stopped"
      <3>1. CASE Stops(x)
        <4>1. status[x[1]] = "stopped"
          BY <3>1, <1>2, <1>4 DEF Stops, StopsWereMade
        <4> QED
          BY <4>1, <1>15
      <3>2. CASE ~Stops(x)
        BY <3>2, <1>2, <1>7 DEF Refuses, Holds, StopsWereMade
      <3> QED
        BY <3>1, <3>2
    <2> QED
      BY <2>1, <2>2, <1>1, <1>2, <1>7 DEF StopsWereMade
  <1>18. KeptByItsStopper'
    <2> SUFFICES ASSUME NEW m \in Messages, Bridge!Kept(m)'
                 PROVE  StopperOf(m[3])' = m
      BY DEF KeptByItsStopper
    <2>1. m[3] \in Sessions
      BY MessageFields
    <2>2. CASE Stops(x)
      <3>1. Bridge!Kept(m) /\ (m # None => m # StopperOf(k))
        BY <2>2, <1>5 DEF Stops, Bridge!Kept, Bridge!Hears
      <3>2. StopperOf(m[3]) = m /\ m # None
        BY <3>1, <1>2, MessageFields DEF KeptByItsStopper
      <3> QED
        BY <2>1, <3>1, <3>2, <1>7
    <2>3. CASE Refuses(x)
      <3>1. Bridge!Kept(m)
        BY <2>3 DEF Refuses, Bridge!Kept, Bridge!Hears
      <3> QED
        BY <2>1, <2>3, <3>1, <1>2, <1>5, <1>7 DEF Refuses, KeptByItsStopper
    <2>4. CASE Holds(x) /\ m # x
      <3>1. Bridge!Kept(m)
        BY <2>4 DEF Holds, Bridge!Kept, Bridge!Hears
      <3>2. StopperOf(m[3]) = m /\ m # None
        BY <3>1, <1>2, MessageFields DEF KeptByItsStopper
      <3> QED
        BY <2>1, <2>4, <3>2, <1>7, <1>9
    <2>5. CASE Holds(x) /\ m = x
      BY <2>5, <1>5 DEF Holds
    <2> QED
      BY <2>2, <2>3, <2>4, <2>5, <1>7
  <1>19. LiveAreLeftAlone'
    <2> SUFFICES ASSUME NEW s \in Live \ robbed, link # None
                 PROVE  /\ NoStopBehind(up'[link], s)
                        /\ tx'[Opener(s, link)] # "none" =>
                              /\ \A i \in 1..Len(up'[link]) : up'[link][i][2] # "stopReactive"
                              /\ link \in open => StopperOf(link)' # None
      BY <1>1, <1>2, <1>7, <1>10 DEF LiveAreLeftAlone, Opener, StopperOf
    <2>1. /\ link \in Sessions /\ s \in Subs
          /\ Opener(s, link) \in Messages /\ Opener(s, link)[1] = s /\ Opener(s, link)[3] = link
      BY <1>2 DEF TypeOK, Opener, Messages, Live
    <2>2. /\ NoStopBehind(up[link], s)
          /\ tx[Opener(s, link)] # "none" =>
                /\ \A i \in 1..Len(up[link]) : up[link][i][2] # "stopReactive"
                /\ link \in open => StopperOf(link) # None
      BY <1>2 DEF LiveAreLeftAlone
    <2>3. CASE link # k
      <3>1. Opener(s, link) # x
        BY <2>1, <2>3, <1>5
      <3>2. /\ up'[link] = up[link] /\ StopperOf(link)' = StopperOf(link)
            /\ tx'[Opener(s, link)] = tx[Opener(s, link)]
        <4>1. StopperOf(link)' = StopperOf(link)
          BY <2>1, <2>3, <1>1, <1>7 DEF StopperOf
        <4> QED
          BY <4>1, <2>1, <2>3, <3>1, <1>5, <1>7
      <3> QED
        BY <2>2, <3>2
    <2>4. CASE link = k
      <3>1. NoStopBehind(up'[k], s)
        BY <2>2, <2>4, <1>4, <1>5 DEF NoStopBehind
      <3>2. ASSUME tx'[Opener(s, link)] # "none"
            PROVE  /\ \A i \in 1..Len(up'[k]) : up'[k][i][2] # "stopReactive"
                   /\ x[2] # "stopReactive"
        <4>1. CASE tx[Opener(s, link)] # "none"
          BY <4>1, <2>2, <2>4, <1>4, <1>5
        <4>2. CASE Opener(s, link) = x
          <5>1. x[1] = s /\ x[2] # "stopReactive"
            BY <4>2 DEF Opener
          <5>2. ASSUME NEW i \in 1..Len(up'[k])
                PROVE  up'[k][i][2] # "stopReactive"
            <6>1. 1 \in 1..Len(up[k]) /\ i + 1 \in 1..Len(up[k]) /\ 1 < i + 1
              BY <1>4, <1>5
            <6> QED
              BY <5>1, <6>1, <2>2, <2>4, <1>4, <1>5 DEF NoStopBehind
          <5> QED
            BY <5>1, <5>2
        <4> QED
          BY <4>1, <4>2, <3>2, <2>1, <1>7
      <3>3. StopperOf(link)' = StopperOf(k)'
        BY <2>4, <1>1 DEF StopperOf
      <3>4. tx'[Opener(s, link)] # "none" => StopperOf(link)' # None
        BY <3>2, <3>3, <1>9
      <3> QED
        BY <2>4, <3>1, <3>2, <3>4
    <2> QED
      BY <2>3, <2>4
  <1>20. RefusedWhileShared'
    <2> SUFFICES ASSUME NEW m \in Named, NEW i \in DOMAIN replies'[m], replies'[m][i] = "refusal"
                 PROVE  m[1] \in shared
      BY <1>1 DEF RefusedWhileShared
    <2>1. m \in Messages /\ replies[m] \in Seq(Bridge!Answers)
      BY BridgeTypes DEF Named, IInv, Bridge!TypeOK
    <2>2. CASE replies'[m] = replies[m]
      BY <2>2, <1>2 DEF RefusedWhileShared
    <2>3. CASE Refuses(x) /\ m = x
      BY <2>3, <1>9
    <2> QED
      BY <2>1, <2>2, <2>3, <1>7 DEF Stops, Refuses, Holds
  <1> QED
    BY <1>11, <1>12, <1>13, <1>14, <1>16, <1>17, <1>18, <1>19, <1>20 DEF QueueInv

\* The end of a connection on the bridge's side.
LEMMA CloseKeepsQueues ==
    ASSUME IInv, NEW k \in Sessions, Bridge!OnClose(k), up' = [up EXCEPT ![k] = <<>>],
           UNCHANGED clientVars
    PROVE  QueueInv'
  <1>1. /\ k \in open
        /\ open' = open \ {k} /\ client' = client \ {k}
        /\ asked' = asked \cup ({StopperOf(k)} \ {None})
        /\ stoppers' = [stoppers EXCEPT ![k] = [ch \in Channels |-> None]]
        /\ UNCHANGED <<phase, sub, tx, replies>>
        /\ UNCHANGED <<way, status, shared, robbed, link, stage, parked>>
    BY DEF Bridge!OnClose, Bridge!EndSession, Bridge!Registered, StopperOf, Channels, clientVars
  <1>2. /\ TypeOK /\ QueuesAreInOrder
        /\ EndFollowsLive /\ NewIsBlank /\ SentByItself /\ IdleIsSilent /\ StopsWereMade
        /\ KeptByItsStopper /\ LiveAreLeftAlone /\ RefusedWhileShared
    BY DEF IInv, QueueInv
  <1>3. /\ up'[k] = <<>>
        /\ \A j \in Sessions : j # k => up'[j] = up[j]
    BY <1>2 DEF TypeOK
  <1>4. /\ StopperOf(k)' = None
        /\ \A j \in Sessions : j # k => StopperOf(j)' = StopperOf(j)
    <2>1. stoppers \in [Sessions -> [Channels -> Messages \cup {None}]]
      BY BridgeTypes DEF IInv, Bridge!TypeOK
    <2> QED
      BY <2>1, <1>1 DEF StopperOf, Channels
  <1>5. /\ Plain' = Plain /\ Live' = Live
        /\ \A j \in Sessions : j # k => Held(j)' = Held(j)
    BY <1>1, <1>4 DEF Plain, Live, Held
  <1>6. client = open
    BY UnhandledIsBlank
  <1>7. QueuesAreInOrder'
    BY <1>1, <1>2, <1>3, <1>5 DEF QueuesAreInOrder
  <1>8. EndFollowsLive'
    <2> SUFFICES ASSUME stage = "settled" => link \in open'
                 PROVE  /\ Live = {} => End' = "nothing"
                        /\ Live \cap Plain = {} => End' # "plain"
      BY <1>1, <1>5 DEF EndFollowsLive
    <2>1. End' = End
      <3>1. CASE stage = "settled"
        <4>1. link \in Sessions /\ link # k /\ link' = link
          BY <3>1, <1>1, <1>2 DEF TypeOK
        <4>2. Held(link)' = Held(link) /\ up'[link] = up[link]
          BY <4>1, <1>3, <1>4 DEF Held, StopperOf
        <4>3. End = Final(up[link], Held(link), Plain)
          BY <3>1 DEF End
        <4>4. End' = Final(up'[link'], Held(link)', Plain')
          BY <3>1, <1>1 DEF End
        <4> QED
          BY <4>1, <4>2, <4>3, <4>4, <1>5
      <3>2. CASE stage # "settled"
        <4>1. End = Final(parked, "nothing", Plain)
          BY <3>2 DEF End
        <4>2. End' = Final(parked', "nothing", Plain')
          BY <3>2, <1>1 DEF End
        <4> QED
          BY <4>1, <4>2, <1>1, <1>5
      <3> QED
        BY <3>1, <3>2
    <2> QED
      BY <2>1, <1>1, <1>2 DEF EndFollowsLive
  <1>9. NewIsBlank'
    BY <1>1, <1>2, <1>3 DEF NewIsBlank
  <1>10. \A j \in Sessions : Len(up'[j]) = 0 \/ up'[j] = up[j]
    BY <1>3
  <1>11. SentByItself' /\ IdleIsSilent'
    <2>1. SentByItself'
      BY <1>2, <1>10 DEF SentByItself
    <2>2. IdleIsSilent'
      BY <1>1, <1>2, <1>10 DEF IdleIsSilent
    <2> QED
      BY <2>1, <2>2
  <1>12. StopsWereMade'
    <2>1. \A j \in Sessions : \A i \in 1..Len(up'[j]) :
             up'[j][i][2] = "stopReactive" => status[up'[j][i][1]] = "stopped"
      BY <1>2, <1>10 DEF StopsWereMade
    <2>2. ASSUME NEW m \in asked', m[3] \in client'
          PROVE  m \in asked /\ m[3] \in client
      BY <2>2, <1>1, UnhandledIsBlank
    <2> QED
      BY <2>1, <2>2, <1>1, <1>2 DEF StopsWereMade
  <1>13. KeptByItsStopper'
    <2> SUFFICES ASSUME NEW m \in Messages, Bridge!Kept(m)'
                 PROVE  StopperOf(m[3])' = m
      BY DEF KeptByItsStopper
    <2>1. Bridge!Kept(m) /\ m \notin asked'
      BY <1>1 DEF Bridge!Kept, Bridge!Hears
    <2>2. StopperOf(m[3]) = m /\ m # None /\ m[3] \in Sessions
      BY <2>1, <1>2, MessageFields DEF KeptByItsStopper
    <2>3. m[3] # k
      BY <2>1, <2>2, <1>1
    <2> QED
      BY <2>2, <2>3, <1>4
  <1>14. LiveAreLeftAlone'
    <2> SUFFICES ASSUME NEW s \in Live \ robbed, link # None
                 PROVE  /\ NoStopBehind(up'[link], s)
                        /\ tx[Opener(s, link)] # "none" =>
                              /\ \A i \in 1..Len(up'[link]) : up'[link][i][2] # "stopReactive"
                              /\ link \in open' => StopperOf(link)' # None
      BY <1>1, <1>2, <1>5 DEF LiveAreLeftAlone, Opener, StopperOf
    <2>1. link \in Sessions
      BY <1>2 DEF TypeOK
    <2>2. CASE link = k
      <3>1. Len(up'[link]) = 0 /\ link \notin open'
        BY <2>2, <1>1, <1>3
      <3> QED
        BY <3>1 DEF NoStopBehind
    <2>3. CASE link # k
      <3>1. up'[link] = up[link] /\ open' \subseteq open
        BY <2>1, <2>3, <1>1, <1>3
      <3>2. StopperOf(link)' = StopperOf(link)
        BY <2>1, <2>3, <1>1, <1>4 DEF StopperOf
      <3> QED
        BY <3>1, <3>2, <1>2 DEF LiveAreLeftAlone
    <2> QED
      BY <2>2, <2>3
  <1>15. RefusedWhileShared'
    BY <1>1, <1>2 DEF RefusedWhileShared
  <1> QED
    BY <1>7, <1>8, <1>9, <1>11, <1>12, <1>13, <1>14, <1>15 DEF QueueInv

-----------------------------------------------------------------------------
LEMMA SessionStepKeepsQueues ==
    ASSUME IInv, NEW k \in Sessions, SessionStep(k)
    PROVE  QueueInv'
  <1>1. CASE Bridge!OnClose(k) /\ up' = [up EXCEPT ![k] = <<>>]
    BY <1>1, CloseKeepsQueues DEF SessionStep
  <1>2. CASE (Bridge!HandlerReturns(k) \/ Bridge!SessionStarted(k)) /\ UNCHANGED up
    <2>1. /\ UNCHANGED <<way, status, shared, robbed, link, parked, up, stage>>
          /\ UNCHANGED <<open, client, stoppers, asked, sub, tx, replies>>
      BY <1>2 DEF SessionStep, clientVars, Bridge!HandlerReturns, Bridge!SessionStarted,
                  Bridge!messageVars
    <2>2. \A j \in Sessions : phase'[j] = "none" <=> phase[j] = "none"
      BY <1>2, BridgeTypes DEF IInv, Bridge!TypeOK, Bridge!HandlerReturns, Bridge!SessionStarted
    <2>3. \A m \in Messages : /\ tx'[m] = "none" <=> tx[m] = "none"
                              /\ Bridge!Kept(m)' => Bridge!Kept(m)
                              /\ Refused(m)' => Refused(m)
      BY <2>1 DEF Bridge!Kept, Bridge!Hears, Refused
    <2> QED
      BY <2>1, <2>2, <2>3, QueuesUnchanged
  <1> QED
    BY <1>1, <1>2 DEF SessionStep

LEMMA MessageStepKeepsQueues ==
    ASSUME IInv, NEW m \in Messages, MessageStep(m)
    PROVE  QueueInv'
  <1>1. /\ UNCHANGED <<way, status, shared, robbed, link, parked, up, stage>>
        /\ UNCHANGED <<open, client, stoppers, asked, phase>>
    BY DEF MessageStep, clientVars, Bridge!Answer, Bridge!Subscribed, Bridge!Stopped,
           Bridge!sessionVars
  <1>2. Bridge!TypeOK
    BY BridgeTypes DEF IInv
  <1>3. ASSUME NEW n \in Messages
        PROVE  /\ tx'[n] = "none" <=> tx[n] = "none"
               /\ Bridge!Kept(n)' => Bridge!Kept(n)
               /\ Refused(n)' => Refused(n)
    <2>1. CASE Bridge!Answer(m)
      <3>1. /\ m \in running /\ UNCHANGED sub
            /\ tx' = tx \/ tx' = [tx EXCEPT ![m] = "done"]
            /\ replies' = replies \/ replies' = [replies EXCEPT ![m] = Append(@, "response")]
        BY <2>1 DEF Bridge!Answer, Bridge!Reply
      <3>2. tx'[n] = "none" <=> tx[n] = "none"
        BY <3>1, <1>2 DEF Bridge!TypeOK
      <3>3. Refused(n)' => Refused(n)
        <4>1. replies[n] \in Seq(Bridge!Answers)
          BY <1>2 DEF Bridge!TypeOK
        <4>2. replies'[n] = replies[n] \/ replies'[n] = Append(replies[n], "response")
          BY <3>1, <1>2 DEF Bridge!TypeOK
        <4> QED
          BY <4>1, <4>2 DEF Refused
      <3> QED
        BY <3>1, <3>2, <3>3, <1>1 DEF Bridge!Kept, Bridge!Hears
    <2>2. CASE Bridge!Subscribed(m)
      BY <2>2, <1>1, <1>2 DEF Bridge!Subscribed, Bridge!TypeOK, Bridge!Kept, Bridge!Hears, Refused
    <2>3. CASE Bridge!Stopped(m)
      BY <2>3, <1>1, <1>2 DEF Bridge!Stopped, Bridge!TypeOK, Bridge!Kept, Bridge!Hears, Refused
    <2> QED
      BY <2>1, <2>2, <2>3 DEF MessageStep
  <1> QED
    BY <1>1, <1>3, QueuesUnchanged

LEMMA NextKeepsQueues ==
    ASSUME IInv, [Next]_vars
    PROVE  QueueInv'
  <1>1. ASSUME UNCHANGED <<way, status, shared, robbed, link, parked, up, bridgeVars>>,
               stage' = stage \/ (stage # "settled" /\ stage' # "settled")
        PROVE  QueueInv'
    <2>1. UNCHANGED <<open, client, stoppers, asked, phase, sub, tx, replies>>
      BY <1>1 DEF bridgeVars
    <2>2. \A m \in Messages : /\ tx'[m] = "none" <=> tx[m] = "none"
                              /\ Bridge!Kept(m)' => Bridge!Kept(m)
                              /\ Refused(m)' => Refused(m)
      BY <2>1 DEF Bridge!Kept, Bridge!Hears, Refused
    <2> QED
      BY <2>1, <2>2, <1>1, QueuesUnchanged
  <1>2. CASE UNCHANGED vars
    BY <1>1, <1>2 DEF vars, clientVars
  <1>3. ASSUME NEW s \in Subs, Subscribe(s) \/ Stop(s) \/ TimesOut(s)
        PROVE  QueueInv'
    <2>1. CASE TimesOut(s)
      BY <2>1, <1>1 DEF TimesOut
    <2> QED
      BY <2>1, <1>3, SubscribeKeepsQueues, StopKeepsQueues
  <1>4. ASSUME NEW k \in Sessions, Connect(k) \/ Receive(k) \/ SessionStep(k)
        PROVE  QueueInv'
    BY <1>4, ConnectKeepsQueues, ReceiveKeepsQueues, SessionStepKeepsQueues
  <1>5. CASE Connected
    BY <1>1, <1>5 DEF Connected, ClientUnchanged
  <1>6. CASE Hear
    BY <1>1, <1>6 DEF Hear
  <1>7. ASSUME NEW p \in Deliveries, NEW K \in SUBSET Sessions, Relay(p, K)
        PROVE  QueueInv'
    BY <1>1, <1>7 DEF Relay, clientVars
  <1> QED
    BY <1>2, <1>3, <1>4, <1>5, <1>6, <1>7, SettleKeepsQueues, DropKeepsQueues,
       MessageStepKeepsQueues DEF Next

-----------------------------------------------------------------------------
LEMMA MessagesAreFinite == IsFiniteSet(Messages)
  <1> DEFINE K == {"subscribe", "reactive", "stopReactive"}
             T == (Subs \X K) \X Sessions
             f == [m \in Messages |-> <<<<m[1], m[2]>>, m[3]>>]
  <1>1. IsFiniteSet(K)
    <2>1. IsFiniteSet({"subscribe"})
      BY FS_Singleton
    <2>2. IsFiniteSet({"subscribe"} \cup {"reactive"})
      BY <2>1, FS_AddElement
    <2>3. IsFiniteSet(({"subscribe"} \cup {"reactive"}) \cup {"stopReactive"})
      BY <2>2, FS_AddElement
    <2>4. K = ({"subscribe"} \cup {"reactive"}) \cup {"stopReactive"}
      OBVIOUS
    <2> QED
      BY <2>3, <2>4
  <1>2. IsFiniteSet(Subs \X K)
    BY <1>1, FS_Product
  <1>3. IsFiniteSet(T)
    BY <1>2, FS_Product
  <1>4. f \in [Messages -> T]
    BY DEF Messages
  <1>5. \A m, n \in Messages : f[m] = f[n] => m = n
    BY MessageFields
  <1>6. f \in Injection(Messages, T)
    BY <1>4, <1>5 DEF Injection, IsInjective
  <1> QED
    BY <1>3, <1>6, FS_Injection

\* An answer is added to the replies to a message.
RepliesGrow ==
    \A n \in Messages : replies'[n] = replies[n]
                          \/ \E a \in Bridge!Answers : replies'[n] = Append(replies[n], a)

\* What the bridge answers goes to the present connection, as one event.
LEMMA ForwardFields ==
    ASSUME TypeOK, Forward, RepliesGrow, NEW k \in Sessions
    PROVE  \/ down'[k] = down[k]
           \/ k # link /\ down'[k] = <<>>
           \/ /\ k = link
              /\ \E e \in Events : e.pub = None /\ down'[k] = down[k] \o <<e>>
  <1> DEFINE m == CHOOSE n \in Answered(k) : TRUE
             a == replies'[m][Len(replies'[m])]
             e == [sub |-> m[1], pub |-> None, answer |-> a]
  <1>1. down'[k] = IF Answered(k) = {} THEN down[k] ELSE Down(k, <<e>>)
    BY DEF Forward
  <1>2. CASE Answered(k) = {}
    BY <1>1, <1>2
  <1>3. CASE Answered(k) # {}
    <2>1. m \in Answered(k)
      BY <1>3
    <2>2. m \in Messages /\ replies'[m] # replies[m]
      BY <2>1 DEF Answered, Named
    <2> HIDE DEF m
    <2>3. PICK b \in Bridge!Answers : replies'[m] = Append(replies[m], b)
      BY <2>2 DEF RepliesGrow
    <2>4. replies[m] \in Seq(Bridge!Answers)
      BY <2>2 DEF TypeOK, Bridge!TypeOK
    <2>5. a \in Bridge!Answers
      BY <2>3, <2>4
    <2>6. m[1] \in Subs
      BY <2>2, MessageFields
    <2>7. e \in Events /\ e.pub = None
      BY <2>5, <2>6 DEF Events
    <2> HIDE DEF e
    <2> QED
      BY <1>1, <1>3, <2>7 DEF Down
  <1> QED
    BY <1>2, <1>3

LEMMA ForwardTypes ==
    ASSUME TypeOK, Forward, RepliesGrow
    PROVE  down' \in [Sessions -> Seq(Events)]
  <1>1. \A k \in Sessions : down'[k] \in Seq(Events)
    <2> TAKE k \in Sessions
    <2>1. down[k] \in Seq(Events)
      BY DEF TypeOK
    <2>2. CASE \E e \in Events : down'[k] = down[k] \o <<e>>
      BY <2>1, <2>2
    <2>3. CASE down'[k] = down[k]
      BY <2>1, <2>3
    <2>4. CASE down'[k] = <<>>
      BY <2>4
    <2>5. \/ down'[k] = down[k] \/ down'[k] = <<>>
          \/ \E e \in Events : down'[k] = down[k] \o <<e>>
      BY ForwardFields
    <2> QED
      BY <2>2, <2>3, <2>4, <2>5
  <1>2. down' = [k \in Sessions |-> down'[k]]
    BY DEF Forward
  <1> QED
    BY <1>1, <1>2

LEMMA HandleGrowsReplies ==
    ASSUME IInv, NEW m \in Messages, Handle(m)
    PROVE  RepliesGrow
  <1>1. Stops(m) \/ Refuses(m) \/ Holds(m)
    BY HandleFields
  <1>2. "refusal" \in Bridge!Answers
    BY DEF Bridge!Answers
  <1> QED
    BY <1>1, <1>2 DEF Stops, Refuses, Holds, RepliesGrow

LEMMA MessageStepGrowsReplies ==
    ASSUME IInv, NEW m \in Messages, MessageStep(m)
    PROVE  RepliesGrow
  <1>1. \/ replies' = replies
        \/ replies' = [replies EXCEPT ![m] = Append(@, "response")]
    BY DEF MessageStep, Bridge!Answer, Bridge!Subscribed, Bridge!Stopped, Bridge!Reply
  <1>2. replies \in [Messages -> Seq(Bridge!Answers)] /\ "response" \in Bridge!Answers
    BY DEF IInv, TypeOK, Bridge!TypeOK, Bridge!Answers
  <1> QED
    BY <1>1, <1>2 DEF RepliesGrow

\* As many events as there are registrations.
LEMMA RelayFields ==
    ASSUME TypeOK, NEW p \in Deliveries, NEW K \in SUBSET Sessions, Relay(p, K), NEW k \in Sessions
    PROVE  /\ Cardinality(Relays(k)) \in Nat
           /\ \/ k \notin K /\ down'[k] = down[k]
              \/ k # link /\ down'[k] = <<>>
              \/ /\ k = link
                 /\ \E r \in Seq(Events) :
                       /\ Len(r) = Cardinality(Relays(k))
                       /\ \A i \in 1..Len(r) : r[i].pub = p
                       /\ down'[k] = down[k] \o r
  <1> DEFINE n == Cardinality(Relays(k))
             e == [sub |-> None, answer |-> None, pub |-> p]
             r == [i \in 1..n |-> e]
  <1>1. n \in Nat
    <2>1. Relays(k) \in SUBSET Messages
      BY DEF Relays
    <2> QED
      BY <2>1, MessagesAreFinite, FS_Subset, FS_CardinalityType
  <1>2. down'[k] = IF k \notin K THEN down[k] ELSE Down(k, r)
    BY DEF Relay
  <1> HIDE DEF n
  <1>3. e \in Events /\ e.pub = p
    BY DEF Events
  <1> HIDE DEF e
  <1>4. r \in Seq(Events) /\ Len(r) = n /\ \A i \in 1..Len(r) : r[i].pub = p
    BY <1>1, <1>3
  <1> HIDE DEF r
  <1> QED
    BY <1>1, <1>2, <1>4 DEF Down, n

LEMMA NextKeepsTypeOK ==
    ASSUME IInv, [Next]_vars
    PROVE  TypeOK'
  <1>1. TypeOK /\ Session!IInv /\ Bridge!TypeOK'
    BY BridgeKeepsIInv, BridgeTypes DEF IInv
  <1>2. CASE UNCHANGED vars
    BY <1>1, <1>2 DEF vars, clientVars, TypeOK
  <1>3. ASSUME NEW s \in Subs, Subscribe(s)
        PROVE  TypeOK'
    <2>1. /\ status' = [status EXCEPT ![s] = "live"]
          /\ result' = [result EXCEPT ![s] = IF s \in Redux THEN "pending" ELSE "none"]
          /\ shared' \subseteq shared \cup {s}
          /\ Send(Opening(s))
          /\ UNCHANGED <<way, link, stage, down, relayed, heard, robbed>>
      BY <1>3 DEF Subscribe
    <2>2. /\ up' \in [Sessions -> Seq(Messages)] /\ parked' \in Seq(Sends)
          /\ stage = "settled" => parked' = <<>>
      BY <1>1, <2>1, OpeningFields, SendFields
    <2> QED
      BY <1>1, <2>1, <2>2 DEF TypeOK, Sends
  <1>4. ASSUME NEW s \in Subs, Stop(s)
        PROVE  TypeOK'
    <2>1. /\ status' = [status EXCEPT ![s] = "stopped"]
          /\ robbed' = robbed \cup (Live \ {s})
          /\ Send(<<<<s, "stopReactive">>>>)
          /\ UNCHANGED <<way, result, link, stage, down, relayed, heard, shared>>
      BY <1>4 DEF Stop, Stopping
    <2>2. /\ up' \in [Sessions -> Seq(Messages)] /\ parked' \in Seq(Sends)
          /\ stage = "settled" => parked' = <<>>
      BY <1>1, <2>1, StopFields, SendFields
    <2> QED
      BY <1>1, <2>1, <2>2 DEF TypeOK, Sends, Live
  <1>5. ASSUME NEW s \in Subs, TimesOut(s)
        PROVE  TypeOK'
    BY <1>1, <1>5 DEF TypeOK, TimesOut
  <1>6. ASSUME NEW k \in Sessions, Connect(k)
        PROVE  TypeOK'
    BY <1>1, <1>6 DEF TypeOK, Connect, ClientUnchanged
  <1>7. ASSUME NEW k \in Sessions, Receive(k)
        PROVE  TypeOK'
    <2>1. PICK x \in Messages : x = Head(up[k])
      BY <1>1, <1>7 DEF TypeOK, Receive
    <2>2. down' \in [Sessions -> Seq(Events)]
      BY <1>1, <1>7, <2>1, ForwardTypes, HandleGrowsReplies DEF Receive
    <2>3. up' \in [Sessions -> Seq(Messages)]
      BY <1>1, <1>7 DEF Receive, TypeOK
    <2> QED
      BY <1>1, <1>7, <2>2, <2>3 DEF TypeOK, Receive, clientVars
  <1>8. ASSUME NEW k \in Sessions, SessionStep(k)
        PROVE  TypeOK'
    <2>1. up' \in [Sessions -> Seq(Messages)]
      <3>1. CASE up' = [up EXCEPT ![k] = <<>>]
        <4>1. <<>> \in Seq(Messages)
          OBVIOUS
        <4> HIDE DEF Messages
        <4> QED
          BY <1>1, <3>1, <4>1 DEF TypeOK
      <3>2. CASE UNCHANGED up
        BY <1>1, <3>2 DEF TypeOK
      <3> QED
        BY <1>8, <3>1, <3>2 DEF SessionStep
    <2> QED
      BY <1>1, <1>8, <2>1 DEF TypeOK, SessionStep, clientVars
  <1>9. CASE Connected
    BY <1>1, <1>9 DEF TypeOK, Connected, ClientUnchanged
  <1>10. CASE Settle
    <2>1. link \in Sessions /\ On(link, parked) \in Seq(Messages)
      BY <1>1, <1>10, OnFields DEF Settle, TypeOK, Sends
    <2>2. up' \in [Sessions -> Seq(Messages)]
      BY <1>1, <1>10, <2>1 DEF Settle, Up, TypeOK
    <2> QED
      BY <1>1, <1>10, <2>1, <2>2 DEF TypeOK, Settle, ClientUnchanged
  <1>11. CASE Drop
    BY <1>1, <1>11 DEF TypeOK, Drop, ClientUnchanged
  <1>12. CASE Hear
    <2>1. /\ link \in Sessions /\ down[link] \in Seq(Events) /\ down[link] # <<>>
          /\ down' = [down EXCEPT ![link] = Tail(@)]
          /\ UNCHANGED <<way, status, link, stage, parked, shared, robbed, up, relayed>>
      BY <1>1, <1>12 DEF Hear, TypeOK
    <2>2. Head(down[link]) \in Events /\ Tail(down[link]) \in Seq(Events)
      BY <2>1
    <2>3. down' \in [Sessions -> Seq(Events)]
      BY <1>1, <2>1, <2>2 DEF TypeOK
    <2>4. PICK e \in Events : e = Head(down[link])
      BY <2>2
    <2>5. CASE e.pub # None
      <3>1. /\ heard' = [s \in Subs |-> IF s \in Live THEN [heard[s] EXCEPT ![e.pub] = @ + 1]
                                        ELSE heard[s]]
            /\ UNCHANGED result
        BY <1>12, <2>4, <2>5 DEF Hear
      <3>2. e.pub \in Deliveries
        BY <2>5 DEF Events
      <3>3. \A s \in Subs : [heard[s] EXCEPT ![e.pub] = @ + 1] \in [Deliveries -> Nat]
        BY <1>1, <3>2 DEF TypeOK
      <3> QED
        BY <1>1, <2>1, <2>3, <3>1, <3>3 DEF TypeOK
    <2>6. CASE e.pub = None
      <3>1. /\ result' = [result EXCEPT ![e.sub] =
                  IF @ # "pending" THEN @ ELSE IF e.answer = "response" THEN "ok" ELSE "failed"]
            /\ UNCHANGED heard
        BY <1>12, <2>4, <2>6 DEF Hear
      <3>2. result' \in [Subs -> {"none", "pending", "ok", "failed"}]
        BY <1>1, <3>1 DEF TypeOK
      <3> QED
        BY <1>1, <2>1, <2>3, <3>1, <3>2 DEF TypeOK
    <2> QED
      BY <2>5, <2>6
  <1>13. ASSUME NEW m \in Messages, MessageStep(m)
         PROVE  TypeOK'
    <2>1. down' \in [Sessions -> Seq(Events)]
      BY <1>1, <1>13, ForwardTypes, MessageStepGrowsReplies DEF MessageStep
    <2> QED
      BY <1>1, <1>13, <2>1 DEF TypeOK, MessageStep, clientVars
  <1>14. ASSUME NEW p \in Deliveries, NEW K \in SUBSET Sessions, Relay(p, K)
         PROVE  TypeOK'
    <2>1. ASSUME NEW k \in Sessions
          PROVE  down'[k] \in Seq(Events)
      <3>1. down[k] \in Seq(Events)
        BY <1>1 DEF TypeOK
      <3>2. CASE \E r \in Seq(Events) : down'[k] = down[k] \o r
        BY <3>1, <3>2
      <3>3. CASE down'[k] = <<>>
        BY <3>3
      <3>4. \/ \E r \in Seq(Events) : down'[k] = down[k] \o r
            \/ down'[k] = <<>> \/ down'[k] = down[k]
        BY <1>1, <1>14, RelayFields
      <3> QED
        BY <3>1, <3>2, <3>3, <3>4
    <2>2. down' = [k \in Sessions |-> down'[k]]
      BY <1>14 DEF Relay
    <2>3. down' \in [Sessions -> Seq(Events)]
      BY <2>1, <2>2
    <2> QED
      BY <1>1, <1>14, <2>3 DEF TypeOK, Relay, clientVars
  <1> QED
    BY <1>2, <1>3, <1>4, <1>5, <1>6, <1>7, <1>8, <1>9, <1>10, <1>11, <1>12, <1>13, <1>14 DEF Next

-----------------------------------------------------------------------------
NobodyStopped == \A s \in Subs : status[s] # "stopped"

\* Nothing is relayed or heard; what goes down is no publication, or nothing more.
LEMMA HearUnchanged ==
    ASSUME IInv, UNCHANGED <<heard, relayed>>,
           \A s \in Subs : status[s] = "stopped" => status'[s] = "stopped",
           \A k \in Sessions : k # link' => down'[k] = <<>>,
           \A k \in Sessions :
              \/ down'[k] = down[k] \/ down'[k] = <<>>
              \/ \E e \in Events : e.pub = None /\ down'[k] = down[k] \o <<e>>
    PROVE  HearInv'
  <1>1. TypeOK /\ OneConnectionHears /\ RelayedOnce /\ HeardOnce
    BY DEF IInv, HearInv
  <1>2. ASSUME NEW k \in Sessions, NEW i \in 1..Len(down'[k]), down'[k][i].pub \in Deliveries
        PROVE  i \in 1..Len(down[k]) /\ down'[k][i] = down[k][i]
    <2>1. CASE down'[k] = down[k]
      BY <1>2, <2>1
    <2>2. CASE down'[k] = <<>>
      BY <1>2, <2>2
    <2>3. ASSUME NEW e \in Events, e.pub = None, down'[k] = down[k] \o <<e>>
          PROVE  i \in 1..Len(down[k]) /\ down'[k][i] = down[k][i]
      <3>1. down[k] \in Seq(Events) /\ Len(down[k]) \in Nat
        BY <1>1 DEF TypeOK
      <3>2. i = Len(down[k]) + 1 => down'[k][i] = e
        BY <2>3, <3>1
      <3>3. i # Len(down[k]) + 1
        BY <3>2, <2>3, <1>2
      <3> QED
        BY <3>1, <3>3, <2>3, <1>2
    <2> QED
      BY <2>1, <2>2, <2>3
  <1>3. OneConnectionHears'
    BY DEF OneConnectionHears
  <1>4. RelayedOnce'
    <2>1. ASSUME NEW p \in Deliveries \ relayed
          PROVE  /\ \A s \in Subs : heard[s][p] = 0
                 /\ \A k \in Sessions : \A i \in 1..Len(down'[k]) : down'[k][i].pub # p
      BY <1>1, <1>2 DEF RelayedOnce
    <2>2. ASSUME NobodyStopped', NEW p \in Deliveries, NEW k \in Sessions
          PROVE  /\ \A i, j \in 1..Len(down'[k]) :
                       down'[k][i].pub = p /\ down'[k][j].pub = p => i = j
                 /\ \A s \in Subs :
                       /\ heard[s][p] <= 1
                       /\ heard[s][p] = 1 => \A i \in 1..Len(down'[k]) : down'[k][i].pub # p
      <3>1. \A s \in Subs : status[s] # "stopped"
        BY <2>2 DEF NobodyStopped
      <3>2. /\ \A i, j \in 1..Len(down[k]) : down[k][i].pub = p /\ down[k][j].pub = p => i = j
            /\ \A s \in Subs :
                  /\ heard[s][p] <= 1
                  /\ heard[s][p] = 1 => \A i \in 1..Len(down[k]) : down[k][i].pub # p
        BY <3>1, <1>1 DEF RelayedOnce
      <3>3. ASSUME NEW i \in 1..Len(down'[k]), down'[k][i].pub = p
            PROVE  i \in 1..Len(down[k]) /\ down[k][i].pub = p
        BY <3>3, <1>2
      <3>4. \A i, j \in 1..Len(down'[k]) :
               down'[k][i].pub = p /\ down'[k][j].pub = p => i = j
        BY <3>2, <3>3
      <3>5. ASSUME NEW s \in Subs, heard[s][p] = 1, NEW i \in 1..Len(down'[k])
            PROVE  down'[k][i].pub # p
        BY <3>2, <3>3, <3>5
      <3>6. \A s \in Subs : heard[s][p] <= 1
        BY <3>2
      <3>7. \A s \in Subs : heard[s][p] = 1 => \A i \in 1..Len(down'[k]) : down'[k][i].pub # p
        BY <3>5
      <3> QED
        BY <3>4, <3>6, <3>7
    <2>3. heard' = heard /\ relayed' = relayed
      OBVIOUS
    <2>4. \A p \in Deliveries \ relayed' :
             /\ \A s \in Subs : heard'[s][p] = 0
             /\ \A k \in Sessions : \A i \in 1..Len(down'[k]) : down'[k][i].pub # p
      BY <2>1, <2>3
    <2>5. ASSUME \A s \in Subs : status'[s] # "stopped", NEW p \in Deliveries, NEW k \in Sessions
          PROVE  /\ \A i, j \in 1..Len(down'[k]) :
                       down'[k][i].pub = p /\ down'[k][j].pub = p => i = j
                 /\ \A s \in Subs :
                       /\ heard'[s][p] <= 1
                       /\ heard'[s][p] = 1 => \A i \in 1..Len(down'[k]) : down'[k][i].pub # p
      <3>1. NobodyStopped'
        BY <2>5 DEF NobodyStopped
      <3> QED
        BY <3>1, <2>2, <2>3
    <2> QED
      BY <2>4, <2>5 DEF RelayedOnce
  <1>5. HeardOnce'
    BY <1>1 DEF HeardOnce
  <1> QED
    BY <1>3, <1>4, <1>5 DEF HearInv

\* As long as nobody stopped, a delivery is relayed for one registration.
LEMMA OneRegistration ==
    ASSUME IInv, NobodyStopped, NEW k \in Sessions
    PROVE  Cardinality(Relays(k)) <= 1
  <1>1. StopsWereMade /\ KeptByItsStopper
    BY DEF IInv, QueueInv
  <1>2. \A m \in Relays(k) : m = StopperOf(k)
    <2> TAKE m \in Relays(k)
    <2>1. m \in Messages /\ m[3] = k /\ k \in client /\ sub[m] \in {"subscribing", "active"}
      BY MessageFields DEF Relays, Bridge!Hears
    <2>2. m \notin asked
      BY <2>1, <1>1 DEF StopsWereMade, NobodyStopped
    <2> QED
      BY <2>1, <2>2, <1>1 DEF KeptByItsStopper, Bridge!Kept, Bridge!Hears
  <1>3. Relays(k) \in SUBSET {StopperOf(k)}
    BY <1>2
  <1>4. IsFiniteSet({StopperOf(k)}) /\ Cardinality({StopperOf(k)}) = 1
    BY FS_Singleton
  <1> QED
    BY <1>3, <1>4, FS_Subset

LEMMA RelayKeepsHearing ==
    ASSUME IInv, NEW p \in Deliveries, NEW K \in SUBSET Sessions, Relay(p, K)
    PROVE  HearInv'
  <1>1. TypeOK /\ OneConnectionHears /\ RelayedOnce /\ HeardOnce
    BY DEF IInv, HearInv
  <1>2. /\ p \notin relayed /\ relayed' = relayed \cup {p}
        /\ UNCHANGED <<status, heard, link>>
    BY DEF Relay, clientVars
  <1>3. ASSUME NEW k \in Sessions, NEW i \in 1..Len(down'[k])
        PROVE  \/ i \in 1..Len(down[k]) /\ down'[k][i] = down[k][i]
               \/ /\ down'[k][i].pub = p
                  /\ NobodyStopped => i = Len(down[k]) + 1
    <2>1. CASE k # link /\ down'[k] = <<>>
      BY <2>1, <1>3
    <2>2. ASSUME NEW r \in Seq(Events), Len(r) = Cardinality(Relays(k)),
                 \A j \in 1..Len(r) : r[j].pub = p, down'[k] = down[k] \o r
          PROVE  \/ i \in 1..Len(down[k]) /\ down'[k][i] = down[k][i]
                 \/ /\ down'[k][i].pub = p
                    /\ NobodyStopped => i = Len(down[k]) + 1
      <3>1. down[k] \in Seq(Events) /\ Len(down[k]) \in Nat /\ Len(r) \in Nat
        BY <1>1 DEF TypeOK
      <3>2. /\ Len(down'[k]) = Len(down[k]) + Len(r)
            /\ down'[k][i] = IF i <= Len(down[k]) THEN down[k][i] ELSE r[i - Len(down[k])]
        <4> DEFINE u == down[k]
        <4>1. /\ Len(u \o r) = Len(u) + Len(r)
              /\ \A j \in 1..(Len(u) + Len(r)) :
                    (u \o r)[j] = IF j <= Len(u) THEN u[j] ELSE r[j - Len(u)]
          BY <3>1, ConcatProperties
        <4>2. down'[k] = u \o r
          BY <2>2
        <4> HIDE DEF u
        <4>3. Len(down'[k]) = Len(u) + Len(r) /\ i \in 1..(Len(u) + Len(r))
          BY <4>1, <4>2, <1>3
        <4>4. down'[k][i] = IF i <= Len(u) THEN u[i] ELSE r[i - Len(u)]
          BY <4>1, <4>2, <4>3
        <4> QED
          BY <4>3, <4>4 DEF u
      <3>3. NobodyStopped => Len(r) <= 1
        BY <2>2, OneRegistration
      <3>4. CASE i <= Len(down[k])
        BY <3>1, <3>2, <3>4, <1>3
      <3>5. CASE ~(i <= Len(down[k]))
        <4>1. i - Len(down[k]) \in 1..Len(r)
          BY <3>1, <3>2, <3>5, <1>3
        <4> QED
          BY <2>2, <3>1, <3>2, <3>3, <3>5, <4>1
      <3> QED
        BY <3>4, <3>5
    <2>3. CASE down'[k] = down[k]
      BY <2>3, <1>3
    <2> QED
      BY <2>1, <2>2, <2>3, <1>1, RelayFields
  <1>4. OneConnectionHears'
    BY <1>1, <1>2, RelayFields DEF OneConnectionHears
  <1>5. RelayedOnce'
    <2>1. ASSUME NEW q \in Deliveries \ relayed'
          PROVE  /\ \A s \in Subs : heard[s][q] = 0
                 /\ \A k \in Sessions : \A i \in 1..Len(down'[k]) : down'[k][i].pub # q
      <3>1. q \notin relayed /\ q # p
        BY <1>2, <2>1
      <3> QED
        BY <3>1, <1>1, <1>3 DEF RelayedOnce
    <2>2. ASSUME NobodyStopped, NEW q \in Deliveries, NEW k \in Sessions
          PROVE  /\ \A i, j \in 1..Len(down'[k]) :
                       down'[k][i].pub = q /\ down'[k][j].pub = q => i = j
                 /\ \A s \in Subs :
                       /\ heard[s][q] <= 1
                       /\ heard[s][q] = 1 => \A i \in 1..Len(down'[k]) : down'[k][i].pub # q
      <3>1. /\ \A i, j \in 1..Len(down[k]) : down[k][i].pub = q /\ down[k][j].pub = q => i = j
            /\ \A s \in Subs :
                  /\ heard[s][q] <= 1
                  /\ heard[s][q] = 1 => \A i \in 1..Len(down[k]) : down[k][i].pub # q
        BY <2>2, <1>1 DEF RelayedOnce, NobodyStopped
      <3>2. q = p => /\ \A s \in Subs : heard[s][q] = 0
                     /\ \A i \in 1..Len(down[k]) : down[k][i].pub # q
        BY <1>1, <1>2 DEF RelayedOnce
      <3>3. CASE q = p
        <4>1. \A i \in 1..Len(down'[k]) : down'[k][i].pub = q => i = Len(down[k]) + 1
          BY <2>2, <3>2, <3>3, <1>3
        <4> QED
          BY <3>1, <3>2, <3>3, <4>1
      <3>4. CASE q # p
        BY <3>1, <3>4, <1>3
      <3> QED
        BY <3>3, <3>4
    <2> QED
      BY <2>1, <2>2, <1>2 DEF RelayedOnce, NobodyStopped
  <1>6. HeardOnce'
    BY <1>1, <1>2 DEF HeardOnce
  <1> QED
    BY <1>4, <1>5, <1>6 DEF HearInv

LEMMA HearKeepsHearing ==
    ASSUME IInv, Hear
    PROVE  HearInv'
  <1>1. TypeOK /\ OneConnectionHears /\ RelayedOnce /\ HeardOnce
    BY DEF IInv, HearInv
  <1>2. /\ link \in Sessions /\ down[link] \in Seq(Events) /\ down[link] # <<>>
        /\ down' = [down EXCEPT ![link] = Tail(@)]
        /\ UNCHANGED <<status, link, relayed>>
    BY <1>1 DEF Hear, TypeOK
  <1>3. PICK e \in Events : e = Head(down[link])
    BY <1>2
  <1>4. /\ Len(down[link]) \in Nat \ {0} /\ e = down[link][1]
        /\ down'[link] = Tail(down[link])
        /\ Len(down'[link]) = Len(down[link]) - 1
        /\ \A i \in 1..Len(down'[link]) : down'[link][i] = down[link][i + 1]
    BY <1>1, <1>2, <1>3, HeadTailProperties, EmptySeq DEF TypeOK
  <1>5. \A k \in Sessions : k # link => down'[k] = down[k] /\ down[k] = <<>>
    BY <1>1, <1>2 DEF OneConnectionHears, TypeOK
  <1>6. ASSUME NEW s \in Subs, NEW p \in Deliveries
        PROVE  /\ p # e.pub \/ s \notin Live => heard'[s][p] = heard[s][p]
               /\ p = e.pub /\ s \in Live => heard'[s][p] = heard[s][p] + 1
               /\ heard[s][p] \in Nat
    <2>1. heard \in [Subs -> [Deliveries -> Nat]]
      BY <1>1 DEF TypeOK
    <2>2. CASE e.pub = None
      <3>1. heard' = heard
        BY <2>2, <1>3 DEF Hear
      <3>2. p # e.pub
        BY <2>2
      <3> QED
        BY <2>1, <3>1, <3>2
    <2>3. CASE e.pub # None
      <3>1. heard' = [t \in Subs |-> IF t \in Live THEN [heard[t] EXCEPT ![e.pub] = @ + 1]
                                     ELSE heard[t]]
        BY <2>3, <1>3 DEF Hear
      <3> QED
        BY <2>1, <3>1
    <2> QED
      BY <2>2, <2>3
  <1>7. OneConnectionHears'
    BY <1>2, <1>5 DEF OneConnectionHears
  <1>8. ASSUME NEW k \in Sessions, NEW i \in 1..Len(down'[k])
        PROVE  k = link /\ i + 1 \in 1..Len(down[k]) /\ down'[k][i] = down[k][i + 1]
    <2>1. CASE k = link
      <3>1. i \in 1..(Len(down[k]) - 1)
        BY <2>1, <1>4, <1>8
      <3> QED
        BY <2>1, <3>1, <1>4, <1>8
    <2>2. CASE k # link
      <3>1. Len(down'[k]) = 0
        BY <2>2, <1>5
      <3> QED
        BY <3>1, <1>8
    <2> QED
      BY <2>1, <2>2
  <1>9. ASSUME NEW p \in Deliveries, NobodyStopped, p = e.pub
        PROVE  /\ \A s \in Subs : heard[s][p] = 0
               /\ \A i \in 1..Len(down[link]) : down[link][i].pub = p => i = 1
    <2>1. 1 \in 1..Len(down[link])
      BY <1>4
    <2>2. /\ \A i, j \in 1..Len(down[link]) : down[link][i].pub = p /\ down[link][j].pub = p => i = j
          /\ \A s \in Subs :
                /\ heard[s][p] <= 1
                /\ heard[s][p] = 1 => \A i \in 1..Len(down[link]) : down[link][i].pub # p
      BY <1>1, <1>2, <1>9 DEF RelayedOnce, NobodyStopped
    <2>3. \A s \in Subs : heard[s][p] # 1 /\ heard[s][p] <= 1 /\ heard[s][p] \in Nat
      BY <2>1, <2>2, <1>4, <1>6, <1>9
    <2> QED
      BY <2>1, <2>2, <2>3, <1>4, <1>9
  <1>10. RelayedOnce'
    <2>1. ASSUME NEW p \in Deliveries \ relayed
          PROVE  /\ \A s \in Subs : heard'[s][p] = 0
                 /\ \A k \in Sessions : \A i \in 1..Len(down'[k]) : down'[k][i].pub # p
      <3>1. /\ \A s \in Subs : heard[s][p] = 0
            /\ \A k \in Sessions : \A i \in 1..Len(down[k]) : down[k][i].pub # p
        BY <1>1 DEF RelayedOnce
      <3>2. p # e.pub
        BY <3>1, <1>2, <1>4
      <3> QED
        BY <3>1, <3>2, <1>6, <1>8
    <2>2. ASSUME NobodyStopped, NEW p \in Deliveries, NEW k \in Sessions
          PROVE  /\ \A i, j \in 1..Len(down'[k]) :
                       down'[k][i].pub = p /\ down'[k][j].pub = p => i = j
                 /\ \A s \in Subs :
                       /\ heard'[s][p] <= 1
                       /\ heard'[s][p] = 1 => \A i \in 1..Len(down'[k]) : down'[k][i].pub # p
      <3>1. /\ \A i, j \in 1..Len(down[k]) : down[k][i].pub = p /\ down[k][j].pub = p => i = j
            /\ \A s \in Subs :
                  /\ heard[s][p] <= 1
                  /\ heard[s][p] = 1 => \A i \in 1..Len(down[k]) : down[k][i].pub # p
        BY <2>2, <1>1 DEF RelayedOnce, NobodyStopped
      <3>2. CASE p # e.pub
        <4>1. \A i, j \in 1..Len(down'[k]) : down'[k][i].pub = p /\ down'[k][j].pub = p => i = j
          <5> TAKE i, j \in 1..Len(down'[k])
          <5>1. /\ i + 1 \in 1..Len(down[k]) /\ down'[k][i] = down[k][i + 1]
                /\ j + 1 \in 1..Len(down[k]) /\ down'[k][j] = down[k][j + 1]
            BY <1>8
          <5> QED
            BY <5>1, <3>1
        <4> QED
          BY <3>1, <3>2, <4>1, <1>6, <1>8
      <3>3. CASE p = e.pub
        <4>1. \A i \in 1..Len(down'[k]) : down'[k][i].pub # p
          BY <2>2, <3>3, <1>8, <1>9
        <4>2. \A s \in Subs : heard'[s][p] <= 1
          <5> TAKE s \in Subs
          <5>1. heard[s][p] = 0
            BY <2>2, <3>3, <1>9
          <5> QED
            BY <5>1, <3>3, <1>6
        <4> QED
          BY <4>1, <4>2
      <3> QED
        BY <3>2, <3>3
    <2> QED
      BY <2>1, <2>2, <1>2 DEF RelayedOnce, NobodyStopped
  <1>11. HeardOnce'
    <2> SUFFICES ASSUME NEW s \in Subs, NEW p \in Deliveries, heard'[s][p] > 1
                 PROVE  \E t \in Subs \ {s} : status[t] = "stopped"
      BY <1>2 DEF HeardOnce
    <2>1. CASE heard[s][p] > 1
      BY <2>1, <1>1 DEF HeardOnce
    <2>2. CASE ~(heard[s][p] > 1)
      <3>1. p = e.pub /\ s \in Live /\ heard[s][p] # 0
        BY <2>2, <1>6
      <3>2. ~NobodyStopped
        BY <3>1, <1>9
      <3> QED
        BY <3>1, <3>2 DEF NobodyStopped, Live
    <2> QED
      BY <2>1, <2>2
  <1> QED
    BY <1>7, <1>10, <1>11 DEF HearInv

LEMMA NextKeepsHearing ==
    ASSUME IInv, [Next]_vars
    PROVE  HearInv'
  <1>1. TypeOK /\ OneConnectionHears
    BY DEF IInv, HearInv
  <1>2. ASSUME UNCHANGED <<heard, relayed, link, down>>,
               \A s \in Subs : status[s] = "stopped" => status'[s] = "stopped"
        PROVE  HearInv'
    BY <1>1, <1>2, HearUnchanged DEF OneConnectionHears
  <1>3. ASSUME Forward, RepliesGrow, UNCHANGED <<heard, relayed, link, status>>
        PROVE  HearInv'
    <2>1. \A k \in Sessions : k # link' => down'[k] = <<>>
      BY <1>1, <1>3, ForwardFields DEF OneConnectionHears
    <2>2. \A k \in Sessions :
             \/ down'[k] = down[k] \/ down'[k] = <<>>
             \/ \E e \in Events : e.pub = None /\ down'[k] = down[k] \o <<e>>
      BY <1>1, <1>3, ForwardFields
    <2> QED
      BY <2>1, <2>2, <1>3, HearUnchanged
  <1>4. CASE UNCHANGED vars
    BY <1>2, <1>4 DEF vars, clientVars
  <1>5. ASSUME NEW s \in Subs, Subscribe(s)
        PROVE  HearInv'
    BY <1>1, <1>2, <1>5 DEF Subscribe, TypeOK
  <1>6. ASSUME NEW s \in Subs, Stop(s)
        PROVE  HearInv'
    BY <1>1, <1>2, <1>6 DEF Stop, Stopping, TypeOK
  <1>7. ASSUME NEW s \in Subs, TimesOut(s)
        PROVE  HearInv'
    BY <1>2, <1>7 DEF TimesOut
  <1>8. ASSUME NEW k \in Sessions, Connect(k)
        PROVE  HearInv'
    <2>1. /\ link = None /\ UNCHANGED <<heard, relayed, status, down>>
      BY <1>1, <1>8 DEF Connect, ClientUnchanged, TypeOK
    <2>2. \A j \in Sessions : down[j] = <<>>
      BY <2>1, <1>1 DEF OneConnectionHears
    <2> QED
      BY <2>1, <2>2, HearUnchanged
  <1>9. ASSUME NEW k \in Sessions, Receive(k)
        PROVE  HearInv'
    <2>1. PICK x \in Messages : x = Head(up[k])
      BY <1>1, <1>9 DEF TypeOK, Receive
    <2> QED
      BY <1>3, <1>9, <2>1, HandleGrowsReplies DEF Receive, clientVars
  <1>10. ASSUME NEW k \in Sessions, SessionStep(k)
         PROVE  HearInv'
    BY <1>2, <1>10 DEF SessionStep, clientVars
  <1>11. CASE Connected \/ Settle
    BY <1>2, <1>11 DEF Connected, Settle, ClientUnchanged
  <1>12. CASE Drop
    <2>1. /\ link' = None /\ link \in Sessions
          /\ down' = [down EXCEPT ![link] = <<>>]
          /\ UNCHANGED <<heard, relayed, status>>
      BY <1>1, <1>12 DEF Drop, ClientUnchanged, TypeOK
    <2>2. \A k \in Sessions : down'[k] = <<>>
      BY <2>1, <1>1 DEF OneConnectionHears, TypeOK
    <2> QED
      BY <2>1, <2>2, HearUnchanged
  <1>13. ASSUME NEW m \in Messages, MessageStep(m)
         PROVE  HearInv'
    BY <1>3, <1>13, MessageStepGrowsReplies DEF MessageStep, clientVars
  <1> QED
    BY <1>4, <1>5, <1>6, <1>7, <1>8, <1>9, <1>10, <1>11, <1>12, <1>13,
       HearKeepsHearing, RelayKeepsHearing DEF Next

-----------------------------------------------------------------------------
LEMMA InitIInv == Init => IInv
  <1> SUFFICES ASSUME Init PROVE IInv
    OBVIOUS
  <1> USE DEF Init
  <1>1. Session!IInv
    <2>1. Session!Init
      BY DEF Bridge!Init, Session!Init
    <2> QED
      BY <2>1, BridgeAssumption, Session!InitIInv
  <1>2. TypeOK
    <2>1. parked \in Seq(Subs \X {"subscribe", "reactive", "stopReactive"})
      OBVIOUS
    <2>2. up \in [Sessions -> Seq(Messages)] /\ down \in [Sessions -> Seq(Events)]
      OBVIOUS
    <2>3. heard \in [Subs -> [Deliveries -> Nat]]
      OBVIOUS
    <2> QED
      BY <1>1, <2>1, <2>2, <2>3, BridgeTypes DEF TypeOK
  <1>3. /\ Live = {} /\ parked = <<>> /\ stage = "none" /\ link = None
        /\ \A k \in Sessions : up[k] = <<>> /\ down[k] = <<>>
    BY DEF Live
  <1>4. /\ open = {} /\ asked = {}
        /\ \A m \in Messages : sub[m] = "none" /\ tx[m] = "none" /\ replies[m] = <<>>
    BY DEF Bridge!Init
  <1>5. QueueInv
    <2>1. QueuesAreInOrder /\ EndFollowsLive
      BY <1>3, <1>4 DEF QueuesAreInOrder, InOrder, EndFollowsLive, End, Final
    <2>2. NewIsBlank /\ SentByItself /\ IdleIsSilent /\ StopsWereMade
      BY <1>3, <1>4 DEF NewIsBlank, SentByItself, IdleIsSilent, StopsWereMade
    <2>3. KeptByItsStopper /\ LiveAreLeftAlone
      BY <1>3, <1>4 DEF KeptByItsStopper, Bridge!Kept, Bridge!Hears, LiveAreLeftAlone
    <2>4. RefusedWhileShared
      BY <1>4 DEF RefusedWhileShared, Named
    <2> QED
      BY <2>1, <2>2, <2>3, <2>4 DEF QueueInv
  <1>6. HearInv
    <2>1. \A s \in Subs, p \in Deliveries : heard[s][p] = 0
      OBVIOUS
    <2> QED
      BY <1>3, <2>1 DEF HearInv, OneConnectionHears, RelayedOnce, HeardOnce
  <1> QED
    BY <1>1, <1>2, <1>5, <1>6 DEF IInv

LEMMA NextKeepsIInv == IInv /\ [Next]_vars => IInv'
  <1> SUFFICES ASSUME IInv, [Next]_vars PROVE IInv'
    OBVIOUS
  <1>1. Session!IInv'
    BY BridgeKeepsIInv DEF IInv
  <1> QED
    BY <1>1, NextKeepsTypeOK, NextKeepsQueues, NextKeepsHearing DEF IInv

-----------------------------------------------------------------------------
\* The invariant of a client, its connections and the bridge.
THEOREM Invariance == Spec => []IInv
  <1> QED
    BY InitIInv, NextKeepsIInv, PTL DEF Spec

\* Every variable has its type (BridgedSubscription.TypeOK).
THEOREM TypeCorrect == Spec => []TypeOK
  <1>1. IInv => TypeOK
    BY DEF IInv
  <1> QED
    BY <1>1, Invariance, PTL

\* getReactive and the bridge: over however many connections, whoever is subscribed
\* over the present one is bridged there, unless another one was stopped meanwhile
\* (LiveIsBridged).
THEOREM LiveStaysBridged == Spec => []LiveIsBridged
  <1>1. ASSUME IInv PROVE LiveIsBridged
    <2> SUFFICES ASSUME NEW s \in Live \ robbed, link # None, link \in open,
                        tx[Opener(s, link)] # "none"
                 PROVE  \E m \in Messages : From[m] = link /\ Bridge!Kept(m)
      BY DEF LiveIsBridged
    <2>1. link \in Sessions /\ StopperOf(link) # None
      BY <1>1 DEF IInv, TypeOK, QueueInv, LiveAreLeftAlone
    <2>2. StopperOf(link) \in Messages /\ StopperOf(link)[3] = link /\ Bridge!Kept(StopperOf(link))
      BY <1>1, <2>1, UnhandledIsBlank
    <2> QED
      BY <2>2, MessageFields
  <1> QED
    BY <1>1, Invariance, PTL

\* handleMessageFactory.js:34: a subscription that was made alone is not refused,
\* whatever was stopped before and over whatever connection (RefusedWhileShared).
THEOREM RefusedOnlyWhileShared == Spec => []RefusedWhileShared
  <1>1. IInv => RefusedWhileShared
    BY DEF IInv, QueueInv
  <1> QED
    BY <1>1, Invariance, PTL

\* WebsocketTransport and bridgeSubscribe: what one job brings to a bridge is heard
\* once by each subscription, however many share the channel and to whichever
\* connections it is relayed, unless another one was stopped (HeardOnce).
THEOREM MessagesAreHeardOnce == Spec => []HeardOnce
  <1>1. IInv => HeardOnce
    BY DEF IInv, HearInv
  <1> QED
    BY <1>1, Invariance, PTL

\* The stoppers, and onClose of the bridge: when everything is stopped and nothing
\* is on its way, the bridge hears nothing for the client, wherever the stops went
\* (StoppedIsForgotten).
THEOREM StoppedAreForgotten == Spec => []StoppedIsForgotten
  <1>1. ASSUME IInv PROVE StoppedIsForgotten
    <2> SUFFICES ASSUME Live = {}, Quiet, NEW m \in Messages, Bridge!Hears(m)
                 PROVE  FALSE
      BY DEF StoppedIsForgotten
    <2>1. Bridge!Kept(m)
      BY DEF Quiet, Bridge!Kept, Bridge!Hears
    <2>2. /\ TypeOK /\ KeptByItsStopper /\ NewIsBlank /\ EndFollowsLive
      BY <1>1 DEF IInv, QueueInv
    <2>3. StopperOf(m[3]) = m /\ m # None /\ m[3] \in Sessions
      BY <2>2, <2>1, MessageFields DEF KeptByItsStopper
    <2>4. m[3] \in open /\ up[m[3]] = <<>>
      BY <1>1, <2>3, UnhandledIsBlank DEF Quiet
    <2>5. m[3] = link
      BY <2>3, <2>4 DEF Quiet
    <2>6. CASE stage = "settled"
      <3>1. Final(up[link], Held(link), Plain) = "nothing"
        BY <2>2, <2>4, <2>5, <2>6 DEF EndFollowsLive, End
      <3>2. Held(link) = "nothing"
        BY <3>1, <2>4, <2>5 DEF Final
      <3> QED
        BY <3>2, <2>3, <2>5 DEF Held
    <2>7. CASE stage # "settled"
      <3>1. \A n \in Messages : n[3] = link => tx[n] = "none"
        BY <2>2, <2>3, <2>5, <2>7 DEF NewIsBlank
      <3>2. StopperOf(link) = None
        BY <1>1, <3>1, <2>3, <2>5, UnhandledIsBlank
      <3> QED
        BY <3>2, <2>3, <2>5
    <2> QED
      BY <2>6, <2>7
  <1> QED
    BY <1>1, Invariance, PTL
=============================================================================
