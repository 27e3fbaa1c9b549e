-------------------------- MODULE QueuePubSubProofs --------------------------
(***************************************************************************)
(* Proofs about QueuePubSub, for any nodes, subscriptions, messages and      *)
(* casts.                                                                    *)
(*                                                                          *)
(* There are two arguments.  That a subscription stays registered follows    *)
(* from what the stopper of another one may take away (KeptRegistered) and   *)
(* from who is to blame for what the cleaning reads: somebody who crashed     *)
(* (Keepers).  That a group hears a message once is that of a token: as long  *)
(* as its job did not stall, the message is, for an inbox, not yet read, or   *)
(* to be enqueued, or in the queue, or with one worker, or handled            *)
(* (OneDelivery), and the worker has one handler for it (OneHandlerPerKey).   *)
(***************************************************************************)
EXTENDS QueuePubSub, TLAPS

\* The registry of a node has a key once.
OneHandlerPerKey == \A s, t \in handlers : KeyOf(s) = KeyOf(t) => s = t

\* No node works on the inbox of another one.
OwnInboxOnly ==
    /\ \A n \in Nodes : \A i \in serving[n] : i \in Nodes => i = n
    /\ \A run \in runs : run.inbox \in Nodes => run.inbox = run.node

\* Whose crash a pair is left from.
Left(pair) == \E s \in Subs : PairOf(s) = pair /\ ~Can(s)

\* A registration is refreshed, about to be, or left from a crash; what a cleaning
\* reads is left from a crash.
Keepers ==
    /\ \A pair \in registered :
          \/ Left(pair)
          \/ \E s \in Subs : PairOf(s) = pair /\ (s \in refreshing \/ phase[s] = "starting")
    /\ \A pair \in expired : Left(pair)

NoPeerLeft(s) == \A t \in Peers(s) : phase[t] # "stopped" /\ Can(t)

\* From the ZADD on, a registration is there as long as its handler is, unless a
\* subscription of the same group was stopped or its node crashed.
KeptRegistered ==
    \A s \in handlers :
        phase[s] \in {"starting", "on"} /\ NoPeerLeft(s) => PairOf(s) \in registered

SubsInv == OneHandlerPerKey /\ Keepers /\ KeptRegistered

Asked(m, i) == m \in published /\ \E s \in Subs : PairOf(s) = <<Topic[m], i>>

\* Messages go to inboxes that somebody subscribed with.
SomebodyAsked ==
    /\ \A m \in Messages, i \in Inboxes :
          i \in targets[m] \/ <<m, i>> \in jobs \/ <<m, i>> \in active => Asked(m, i)
    /\ \A run \in runs : Asked(run.msg, run.inbox)

\* A group is apart when none of its members is on a node that subscribes to the
\* same channel for itself.
Apart(g) ==
    \A s, t \in Subs : GroupOf(s) = g /\ GroupOf(t) = None /\ Owner(s) = Owner(t)
                           => ChannelOf(s) # ChannelOf(t)

\* What has been given out, or handled, is enqueued no more, and, unless it stalled, is
\* not in the queue and with one worker at most.
OneDelivery ==
    /\ \A m \in Messages, i \in Inboxes :
          <<m, i>> \in jobs \/ <<m, i>> \in active => i \notin targets[m]
    /\ \A run \in runs :
          /\ run.inbox \notin targets[run.msg]
          /\ <<run.msg, run.inbox>> \notin stalled =>
                /\ <<run.msg, run.inbox>> \notin jobs
                /\ \A r \in runs : r.msg = run.msg /\ r.inbox = run.inbox => r = run

\* A group that heard a message has nothing left of it, unless it stalled.
HeardIsGone ==
    \A m \in Messages, s \in Subs :
        <<m, s>> \in heard =>
            /\ m \in published
            /\ (/\ GroupOf(s) # None /\ Apart(GroupOf(s))
                /\ <<m, GroupOf(s)>> \notin stalled) =>
                  /\ GroupOf(s) \notin targets[m] /\ <<m, GroupOf(s)>> \notin jobs
                  /\ \A run \in runs : run.msg = m => run.inbox # GroupOf(s)

\* OncePerGroup for the groups that are apart.
ApartHearOnce ==
    \A m \in Messages, s, t \in Subs :
        (/\ <<m, s>> \in heard /\ <<m, t>> \in heard
         /\ GroupOf(s) # None /\ GroupOf(s) = GroupOf(t) /\ Apart(GroupOf(s)))
            => s = t \/ <<m, GroupOf(s)>> \in stalled

MsgInv == SomebodyAsked /\ OneDelivery /\ HeardIsGone /\ ApartHearOnce

IInv == TypeOK /\ SubsInv /\ OwnInboxOnly /\ MsgInv

-----------------------------------------------------------------------------
USE QueuePubSubAssumption

\* What a subscription is called by does not change with its state.
LEMMA NamesAreFixed ==
    ASSUME UNCHANGED cast
    PROVE  /\ Channels' = Channels /\ Inboxes' = Inboxes
           /\ \A s \in Subs : /\ Owner(s)' = Owner(s) /\ GroupOf(s)' = GroupOf(s)
                              /\ ChannelOf(s)' = ChannelOf(s)
                              /\ PairOf(s)' = PairOf(s) /\ KeyOf(s)' = KeyOf(s)
                              /\ Peers(s)' = Peers(s)
           /\ \A s \in Subs : Apart(GroupOf(s))' = Apart(GroupOf(s))
  <1>1. \A s \in Subs : /\ Owner(s)' = Owner(s) /\ GroupOf(s)' = GroupOf(s)
                        /\ ChannelOf(s)' = ChannelOf(s)
                        /\ InboxOf(s)' = InboxOf(s)
    BY DEF Owner, GroupOf, ChannelOf, InboxOf
  <1>2. Channels' = Channels /\ Inboxes' = Inboxes
    BY <1>1 DEF Channels, Inboxes
  <1>3. \A s \in Subs : PairOf(s)' = PairOf(s) /\ KeyOf(s)' = KeyOf(s)
                       /\ Peers(s)' = Peers(s)
    BY <1>1 DEF PairOf, KeyOf, Peers
  <1>4. \A s \in Subs : Apart(GroupOf(s))' = Apart(GroupOf(s))
    BY <1>1 DEF Apart
  <1> QED
    BY <1>1, <1>2, <1>3, <1>4

\* A node has no inbox of a group, so an inbox tells whose it is.
LEMMA InboxTells ==
    ASSUME cast \in Casts, NEW s \in Subs
    PROVE  /\ Owner(s) \in Nodes /\ GroupOf(s) \notin Nodes
           /\ InboxOf(s) \in Inboxes /\ ChannelOf(s) \in Channels
           /\ PairOf(s) \in Channels \X Inboxes
           /\ PairOf(s)[1] = ChannelOf(s) /\ PairOf(s)[2] = InboxOf(s)
           /\ GroupOf(s) = None => InboxOf(s) = Owner(s)
           /\ GroupOf(s) # None => InboxOf(s) = GroupOf(s)
  <1>1. Owner(s) \in Nodes /\ GroupOf(s) \notin Nodes
    BY DEF Owner, GroupOf
  <1>2. InboxOf(s) \in Inboxes /\ ChannelOf(s) \in Channels
    BY DEF Inboxes, Channels
  <1>3. /\ GroupOf(s) = None => InboxOf(s) = Owner(s)
        /\ GroupOf(s) # None => InboxOf(s) = GroupOf(s)
    BY DEF InboxOf
  <1> QED
    BY <1>1, <1>2, <1>3 DEF PairOf

\* Two subscriptions with one registration are on one node, or in one group.
LEMMA OneRegistration ==
    ASSUME cast \in Casts, NEW s \in Subs, NEW t \in Subs, PairOf(s) = PairOf(t)
    PROVE  /\ ChannelOf(s) = ChannelOf(t)
           /\ \/ GroupOf(s) # None /\ t \in Peers(s)
              \/ GroupOf(s) = None /\ GroupOf(t) = None /\ Owner(s) = Owner(t)
  <1>1. ChannelOf(s) = ChannelOf(t) /\ InboxOf(s) = InboxOf(t)
    BY DEF PairOf
  <1> QED
    BY <1>1, InboxTells DEF Peers

\* Nobody has subscribed.
LEMMA InitIInv == Init => IInv
  <1> SUFFICES ASSUME Init PROVE IInv
    OBVIOUS
  <1>1. TypeOK
    BY DEF Init, TypeOK, Phases
  <1>2. SubsInv /\ OwnInboxOnly
    BY DEF Init, SubsInv, OneHandlerPerKey, Keepers, KeptRegistered, OwnInboxOnly
  <1>3. MsgInv
    BY DEF Init, MsgInv, SomebodyAsked, OneDelivery, HeardIsGone, ApartHearOnce
  <1> QED
    BY <1>1, <1>2, <1>3 DEF IInv

\* What is said of messages does not depend on subscriptions, and a worker less does
\* it no harm.
LEMMA SubsKeepMessages ==
    ASSUME IInv, runs' \subseteq runs,
           UNCHANGED <<cast, readVars, jobs, active, stalled, lost, heard>>
    PROVE  MsgInv'
  <1>1. SomebodyAsked'
    BY NamesAreFixed DEF readVars, IInv, MsgInv, SomebodyAsked, Asked
  <1>2. OneDelivery'
    BY NamesAreFixed DEF readVars, IInv, MsgInv, OneDelivery
  <1>3. HeardIsGone'
    BY NamesAreFixed DEF readVars, IInv, MsgInv, HeardIsGone
  <1>4. ApartHearOnce'
    BY NamesAreFixed DEF IInv, MsgInv, ApartHearOnce
  <1> QED
    BY <1>1, <1>2, <1>3, <1>4 DEF MsgInv

\* What is said of subscriptions stays true when they do not change.
LEMMA MessagesKeepSubs ==
    ASSUME IInv, UNCHANGED <<nodeVars, redisVars>>
    PROVE  SubsInv'
  <1>1. /\ UNCHANGED <<cast, phase, handlers, down, registered, refreshing, expired>>
        /\ handlers \subseteq Subs
    BY DEF nodeVars, redisVars, IInv, TypeOK
  <1>2. \A s \in Subs : Can(s)' = Can(s)
    BY <1>1, NamesAreFixed DEF Can, Up
  <1>3. OneHandlerPerKey'
    BY <1>1, NamesAreFixed DEF IInv, SubsInv, OneHandlerPerKey
  <1>4. Keepers'
    <2>1. \A pair : Left(pair)' = Left(pair)
      BY <1>1, <1>2, NamesAreFixed DEF Left
    <2> QED
      BY <2>1, <1>1, NamesAreFixed DEF IInv, SubsInv, Keepers
  <1>5. KeptRegistered'
    <2>1. \A s \in Subs : NoPeerLeft(s)' = NoPeerLeft(s)
      BY <1>1, <1>2, NamesAreFixed DEF NoPeerLeft, Peers
    <2> QED
      BY <2>1, <1>1, NamesAreFixed DEF IInv, SubsInv, KeptRegistered
  <1> QED
    BY <1>3, <1>4, <1>5 DEF SubsInv

\* A crash leaves more behind; nobody comes back from one.
LEMMA LeftStays ==
    ASSUME UNCHANGED cast, down \subseteq down'
    PROVE  /\ \A pair : Left(pair) => Left(pair)'
           /\ \A s \in Subs : Can(s)' => Can(s)
  <1>1. \A s \in Subs : Can(s)' => Can(s)
    BY NamesAreFixed DEF Can, Up
  <1> QED
    BY <1>1, NamesAreFixed DEF Left

\* A subscription none of whose group stops or crashes now had none before.
LEMMA NoPeerLeftBefore ==
    ASSUME UNCHANGED cast, down \subseteq down', NEW t \in Subs, NoPeerLeft(t)',
           \A s \in Subs : phase[s] = "stopped" => phase'[s] = "stopped"
    PROVE  NoPeerLeft(t)
  <1>1. Peers(t)' = Peers(t) /\ Peers(t) \subseteq Subs
    BY NamesAreFixed DEF Peers
  <1> QED
    BY <1>1, LeftStays DEF NoPeerLeft

-----------------------------------------------------------------------------
\* A new handler comes to a free key, and its subscription is on its way only.
LEMMA SubscribeKeepsIInv ==
    ASSUME IInv, NEW s \in Subs, Subscribe(s) \/ SubscribeTwice(s)
    PROVE  IInv'
  <1>1. /\ phase[s] = "idle"
        /\ phase' \in [Subs -> Phases]
        /\ phase'[s] \in {"storing", "threw"}
        /\ \A t \in Subs : t # s => phase'[t] = phase[t]
        /\ UNCHANGED <<resetting, cast, down, redisVars, msgVars>>
    BY DEF Subscribe, SubscribeTwice, IInv, TypeOK, Phases
  <1>2. handlers' = handlers \/ (handlers' = handlers \cup {s} /\ SameKey(s) = {})
    BY DEF Subscribe, SubscribeTwice
  <1>3. TypeOK /\ cast \in Casts /\ handlers \subseteq Subs
    BY DEF IInv, TypeOK
  <1>4. \A n \in Nodes :
            \/ serving'[n] = serving[n]
            \/ n = Owner(s) /\ serving'[n] = serving[n] \cup {InboxOf(s)}
    <2>1. serving' = serving \/ serving' = [serving EXCEPT ![Owner(s)] = @ \cup {InboxOf(s)}]
      BY DEF Subscribe, SubscribeTwice
    <2>2. serving \in [Nodes -> SUBSET Inboxes] /\ Owner(s) \in Nodes
      BY <1>3, InboxTells DEF TypeOK, SubscribeTwice
    <2>3. CASE serving' = serving
      BY <2>3
    <2>4. CASE serving' = [serving EXCEPT ![Owner(s)] = @ \cup {InboxOf(s)}]
      <3> SUFFICES ASSUME NEW n \in Nodes
                   PROVE  \/ serving'[n] = serving[n]
                          \/ n = Owner(s) /\ serving'[n] = serving[n] \cup {InboxOf(s)}
        OBVIOUS
      <3>1. CASE n = Owner(s)
        BY <3>1, <2>2, <2>4
      <3>2. CASE n # Owner(s)
        BY <3>2, <2>2, <2>4
      <3> QED
        BY <3>1, <3>2
    <2> QED
      BY <2>1, <2>3, <2>4
  <1>5. TypeOK'
    <2>1. /\ inboxes' \in [Nodes -> SUBSET Inboxes]
          /\ serving' \in [Nodes -> SUBSET Inboxes]
      BY <1>3, InboxTells DEF Subscribe, SubscribeTwice, TypeOK
    <2>2. Runs' = Runs
      BY <1>1, NamesAreFixed DEF Runs
    <2> QED
      BY <2>1, <2>2, <1>1, <1>2, <1>3, NamesAreFixed
         DEF redisVars, msgVars, readVars, jobVars, TypeOK
  <1>6. OwnInboxOnly'
    BY <1>1, <1>3, <1>4, InboxTells DEF msgVars, jobVars, IInv, OwnInboxOnly
  <1>7. OneHandlerPerKey'
    BY <1>1, <1>2, <1>3, NamesAreFixed DEF IInv, SubsInv, OneHandlerPerKey, SameKey
  <1>8. Keepers'
    BY <1>1, LeftStays, NamesAreFixed DEF redisVars, IInv, SubsInv, Keepers
  <1>9. KeptRegistered'
    <2> SUFFICES ASSUME NEW t \in handlers', NoPeerLeft(t)',
                        phase'[t] \in {"starting", "on"}
                 PROVE  PairOf(t)' \in registered'
      BY DEF KeptRegistered
    <2>1. t # s /\ t \in handlers /\ t \in Subs
      BY <1>1, <1>2, <1>3
    <2>2. NoPeerLeft(t)
      BY <1>1, <2>1, NoPeerLeftBefore
    <2> QED
      BY <2>1, <2>2, <1>1, NamesAreFixed DEF redisVars, IInv, SubsInv, KeptRegistered
  <1>10. MsgInv'
    BY <1>1, SubsKeepMessages DEF msgVars, jobVars
  <1> QED
    BY <1>5, <1>6, <1>7, <1>8, <1>9, <1>10 DEF IInv, SubsInv

\* The registration is made, then the interval started, then it is refreshed.
LEMMA RegisterKeepsIInv ==
    ASSUME IInv, NEW s \in Subs, Register(s) \/ StartRefresh(s) \/ Refresh(s)
    PROVE  IInv'
  <1>1. /\ phase' \in [Subs -> Phases]
        /\ \A t \in Subs : t # s => phase'[t] = phase[t]
        /\ \A t \in Subs : phase'[t] = "stopped" <=> phase[t] = "stopped"
        /\ UNCHANGED <<handlers, inboxes, serving, resetting, cast, down, expired, msgVars>>
    BY DEF Register, StartRefresh, Refresh, nodeVars, IInv, TypeOK, Phases
  <1>2. TypeOK /\ cast \in Casts /\ handlers \subseteq Subs
    BY DEF IInv, TypeOK
  <1>3. \/ /\ registered' = registered \cup {PairOf(s)} /\ refreshing' = refreshing
           /\ phase[s] = "storing" /\ phase'[s] = "starting"
        \/ /\ registered' = registered /\ refreshing' = refreshing \cup {s}
           /\ phase[s] = "starting" /\ phase'[s] = "on"
        \/ /\ registered' = registered \cup {PairOf(s)} /\ refreshing' = refreshing
           /\ s \in refreshing /\ phase' = phase
    BY <1>2 DEF Register, StartRefresh, Refresh, nodeVars, TypeOK
  <1>4. TypeOK'
    <2>1. registered' \subseteq Channels \X Inboxes
      BY <1>2, <1>3, InboxTells DEF TypeOK
    <2>2. handlers' \subseteq {t \in Subs : phase'[t] # "idle"}
      BY <1>1, <1>2, <1>3 DEF TypeOK
    <2>3. refreshing' \subseteq {t \in Subs : phase'[t] \in {"on", "stopped"}}
      BY <1>1, <1>2, <1>3 DEF TypeOK
    <2>4. Runs' = Runs
      BY <1>1, NamesAreFixed DEF Runs
    <2> QED
      BY <2>1, <2>2, <2>3, <2>4, <1>1, <1>2, NamesAreFixed
         DEF msgVars, readVars, jobVars, TypeOK
  <1>5. OwnInboxOnly'
    BY <1>1 DEF msgVars, jobVars, IInv, OwnInboxOnly
  <1>6. OneHandlerPerKey'
    BY <1>1, <1>2, NamesAreFixed DEF IInv, SubsInv, OneHandlerPerKey
  <1>7. Keepers'
    <2>1. ASSUME NEW pair \in registered'
          PROVE  \/ Left(pair)'
                 \/ \E t \in Subs : /\ PairOf(t)' = pair
                                    /\ t \in refreshing' \/ phase'[t] = "starting"
      <3>1. CASE pair = PairOf(s)
        BY <3>1, <1>1, <1>3, <2>1, LeftStays, NamesAreFixed
      <3>2. CASE pair # PairOf(s)
        <4>1. PICK t \in Subs \cup {s} :
                  Left(pair) \/ (PairOf(t) = pair /\ (t \in refreshing \/ phase[t] = "starting"))
          BY <3>2, <1>3 DEF IInv, SubsInv, Keepers
        <4>2. CASE Left(pair)
          BY <4>2, <1>1, LeftStays
        <4>3. CASE PairOf(t) = pair /\ (t \in refreshing \/ phase[t] = "starting")
          BY <4>3, <3>2, <1>1, <1>3, NamesAreFixed
        <4> QED
          BY <4>1, <4>2, <4>3
      <3> QED
        BY <3>1, <3>2
    <2>2. \A pair \in expired' : Left(pair)'
      BY <1>1, LeftStays DEF IInv, SubsInv, Keepers
    <2> QED
      BY <2>1, <2>2 DEF Keepers
  <1>8. KeptRegistered'
    <2> SUFFICES ASSUME NEW t \in handlers', NoPeerLeft(t)',
                        phase'[t] \in {"starting", "on"}
                 PROVE  PairOf(t)' \in registered'
      BY DEF KeptRegistered
    <2>1. t \in handlers /\ t \in Subs /\ PairOf(t)' = PairOf(t)
      BY <1>1, <1>2, NamesAreFixed
    <2>2. NoPeerLeft(t)
      BY <1>1, <2>1, NoPeerLeftBefore
    <2>3. CASE PairOf(s) \in registered' /\ t = s
      BY <2>1, <2>3
    <2>4. CASE phase[t] \in {"starting", "on"}
      BY <2>1, <2>2, <2>4, <1>3 DEF IInv, SubsInv, KeptRegistered
    <2> QED
      BY <2>1, <2>3, <2>4, <1>1, <1>3
  <1>9. MsgInv'
    BY <1>1, SubsKeepMessages DEF msgVars, jobVars
  <1> QED
    BY <1>4, <1>5, <1>6, <1>7, <1>8, <1>9 DEF IInv, SubsInv

\* A stopper takes away what is its own: either nothing else is subscribed on its
\* node, or the registration stays.
LEMMA UnsubscribeKeepsIInv ==
    ASSUME IInv, NEW s \in Subs, Unsubscribe(s)
    PROVE  IInv'
  <1>1. /\ phase[s] = "on"
        /\ phase' = [phase EXCEPT ![s] = "stopped"]
        /\ handlers' = handlers \ SameKey(s)
        /\ UNCHANGED <<inboxes, serving, resetting, cast, down, expired, msgVars>>
    BY DEF Unsubscribe
  <1>2. \/ UNCHANGED <<registered, refreshing>>
        \/ /\ refreshing' = refreshing \ {s}
           /\ registered' = registered \ {PairOf(s)}
           /\ RegistryOf(Owner(s)) = SameKey(s)
    BY DEF Unsubscribe
  <1>3. TypeOK /\ cast \in Casts /\ handlers \subseteq Subs
    BY DEF IInv, TypeOK
  <1>4. /\ phase' \in [Subs -> Phases] /\ phase'[s] = "stopped"
        /\ \A t \in Subs : t # s => phase'[t] = phase[t]
        /\ registered' \subseteq registered /\ refreshing' \subseteq refreshing
    BY <1>1, <1>2, <1>3 DEF TypeOK, Phases
  <1>5. TypeOK'
    <2>1. handlers' \subseteq {t \in Subs : phase'[t] # "idle"}
      BY <1>1, <1>3, <1>4 DEF TypeOK
    <2>2. refreshing' \subseteq {t \in Subs : phase'[t] \in {"on", "stopped"}}
      BY <1>3, <1>4 DEF TypeOK
    <2>3. Runs' = Runs
      BY <1>1, NamesAreFixed DEF Runs
    <2> QED
      BY <2>1, <2>2, <2>3, <1>1, <1>3, <1>4, NamesAreFixed
         DEF msgVars, readVars, jobVars, TypeOK
  <1>6. OwnInboxOnly'
    BY <1>1 DEF msgVars, jobVars, IInv, OwnInboxOnly
  <1>7. OneHandlerPerKey'
    BY <1>1, <1>3, NamesAreFixed DEF IInv, SubsInv, OneHandlerPerKey
  <1>8. Keepers'
    <2>1. ASSUME NEW pair \in registered'
          PROVE  \/ Left(pair)'
                 \/ \E t \in Subs : /\ PairOf(t)' = pair
                                    /\ t \in refreshing' \/ phase'[t] = "starting"
      <3>1. CASE Left(pair)
        BY <3>1, <1>1, LeftStays
      <3>2. ASSUME NEW t \in Subs, PairOf(t) = pair,
                   t \in refreshing \/ phase[t] = "starting"
            PROVE  t \in refreshing' \/ phase'[t] = "starting"
        BY <3>2, <2>1, <1>1, <1>2, <1>4
      <3> QED
        BY <3>1, <3>2, <1>1, <1>4, NamesAreFixed DEF IInv, SubsInv, Keepers
    <2>2. \A pair \in expired' : Left(pair)'
      BY <1>1, LeftStays DEF IInv, SubsInv, Keepers
    <2> QED
      BY <2>1, <2>2 DEF Keepers
  <1>9. KeptRegistered'
    <2> SUFFICES ASSUME NEW t \in handlers', NoPeerLeft(t)',
                        phase'[t] \in {"starting", "on"}
                 PROVE  PairOf(t)' \in registered'
      BY DEF KeptRegistered
    <2>1. /\ t \in handlers /\ t \in Subs /\ t \notin SameKey(s)
          /\ PairOf(t)' = PairOf(t) /\ Peers(t)' = Peers(t)
      BY <1>1, <1>3, NamesAreFixed
    <2>2. t # s /\ s \notin Peers(t)
      BY <2>1, <1>4 DEF NoPeerLeft
    <2>3. NoPeerLeft(t)
      BY <2>1, <1>1, <1>4, NoPeerLeftBefore
    <2>4. PairOf(t) \in registered
      BY <2>1, <2>2, <2>3, <1>4 DEF IInv, SubsInv, KeptRegistered
    <2>5. CASE UNCHANGED <<registered, refreshing>>
      BY <2>1, <2>4, <2>5
    <2>6. CASE /\ registered' = registered \ {PairOf(s)}
               /\ RegistryOf(Owner(s)) = SameKey(s)
      <3>1. Owner(t) # Owner(s)
        BY <2>1, <2>6 DEF RegistryOf
      <3>2. PairOf(t) # PairOf(s)
        BY <3>1, <2>1, <2>2, <1>3, OneRegistration
      <3> QED
        BY <3>2, <2>1, <2>4, <2>6
    <2> QED
      BY <2>5, <2>6, <1>2
  <1>10. MsgInv'
    BY <1>1, SubsKeepMessages DEF msgVars, jobVars
  <1> QED
    BY <1>5, <1>6, <1>7, <1>8, <1>9, <1>10 DEF IInv, SubsInv

\* A reset or a crash takes the handlers of a node with whatever they had.
LEMMA NodeKeepsIInv ==
    ASSUME IInv, NEW n \in Nodes, ResetStart(n) \/ ResetEnd(n) \/ Crash(n)
    PROVE  IInv'
  <1>1. /\ UNCHANGED <<cast, phase, registered, expired, readVars,
                      jobs, active, stalled, lost, heard>>
        /\ handlers' \subseteq handlers
        /\ down \subseteq down'
        /\ refreshing' \subseteq refreshing /\ runs' \subseteq runs
        /\ \A s \in refreshing : s \in refreshing' \/ Owner(s) \in down'
    BY DEF ResetStart, ResetEnd, Crash, redisVars, msgVars, jobVars
  <1>2. TypeOK /\ cast \in Casts /\ handlers \subseteq Subs
    BY DEF IInv, TypeOK
  <1>3. /\ inboxes' \in [Nodes -> SUBSET Inboxes]
        /\ serving' \in [Nodes -> SUBSET Inboxes]
        /\ resetting' \in [Nodes -> {"no", "stopping", "done"}]
        /\ down' \subseteq Nodes
        /\ \A k \in Nodes : serving'[k] \subseteq serving[k]
    BY <1>2 DEF ResetStart, ResetEnd, Crash, TypeOK
  <1>4. TypeOK'
    <2>1. Runs' = Runs
      BY <1>1, NamesAreFixed DEF Runs
    <2> QED
      BY <2>1, <1>1, <1>2, <1>3, NamesAreFixed DEF readVars, TypeOK
  <1>5. OwnInboxOnly'
    BY <1>1, <1>3 DEF IInv, OwnInboxOnly
  <1>6. OneHandlerPerKey'
    BY <1>1, <1>2, NamesAreFixed DEF IInv, SubsInv, OneHandlerPerKey
  <1>7. Keepers'
    <2>1. ASSUME NEW pair \in registered'
          PROVE  \/ Left(pair)'
                 \/ \E t \in Subs : /\ PairOf(t)' = pair
                                    /\ t \in refreshing' \/ phase'[t] = "starting"
      <3>1. CASE Left(pair)
        BY <3>1, <1>1, LeftStays
      <3>2. ASSUME NEW t \in Subs, PairOf(t) = pair, t \in refreshing, t \notin refreshing'
            PROVE  Left(pair)'
        BY <3>2, <1>1, NamesAreFixed DEF Left, Can, Up
      <3> QED
        BY <3>1, <3>2, <1>1, NamesAreFixed DEF IInv, SubsInv, Keepers
    <2>2. \A pair \in expired' : Left(pair)'
      BY <1>1, LeftStays DEF IInv, SubsInv, Keepers
    <2> QED
      BY <2>1, <2>2 DEF Keepers
  <1>8. KeptRegistered'
    <2> SUFFICES ASSUME NEW t \in handlers', NoPeerLeft(t)',
                        phase'[t] \in {"starting", "on"}
                 PROVE  PairOf(t)' \in registered'
      BY DEF KeptRegistered
    <2>1. t \in handlers /\ t \in Subs /\ PairOf(t)' = PairOf(t)
      BY <1>1, <1>2, NamesAreFixed
    <2>2. NoPeerLeft(t)
      BY <2>1, <1>1, NoPeerLeftBefore
    <2> QED
      BY <2>1, <2>2, <1>1 DEF IInv, SubsInv, KeptRegistered
  <1>9. MsgInv'
    BY <1>1, SubsKeepMessages
  <1> QED
    BY <1>4, <1>5, <1>6, <1>7, <1>8, <1>9 DEF IInv, SubsInv

\* The cleaning reads, and later removes, what somebody left who crashed.
LEMMA CleanKeepsIInv ==
    ASSUME IInv, NEW pair, CleanRead(pair) \/ CleanRemove(pair)
    PROVE  IInv'
  <1>1. /\ UNCHANGED <<nodeVars, refreshing, msgVars, cast, phase, handlers, down>>
        /\ TypeOK /\ cast \in Casts /\ handlers \subseteq Subs
    BY DEF CleanRead, CleanRemove, nodeVars, IInv, TypeOK
  <1>2. Left(pair)
    <2>1. CASE CleanRead(pair)
      BY <2>1 DEF CleanRead, IInv, SubsInv, Keepers, Left
    <2>2. CASE CleanRemove(pair)
      BY <2>2 DEF CleanRemove, IInv, SubsInv, Keepers
    <2> QED
      BY <2>1, <2>2
  <1>3. /\ registered' \subseteq registered /\ registered \ {pair} \subseteq registered'
        /\ expired' \subseteq expired \cup {pair}
        /\ pair \in registered \/ pair \in expired
    BY DEF CleanRead, CleanRemove
  <1>4. TypeOK'
    <2>1. Runs' = Runs
      BY <1>1, NamesAreFixed DEF Runs
    <2>2. expired' \subseteq Channels \X Inboxes /\ registered' \subseteq Channels \X Inboxes
      BY <1>1, <1>3 DEF TypeOK
    <2> QED
      BY <2>1, <2>2, <1>1, NamesAreFixed DEF nodeVars, msgVars, readVars, jobVars, TypeOK
  <1>5. OwnInboxOnly'
    BY <1>1 DEF nodeVars, msgVars, jobVars, IInv, OwnInboxOnly
  <1>6. OneHandlerPerKey'
    BY <1>1, NamesAreFixed DEF IInv, SubsInv, OneHandlerPerKey
  <1>7. Keepers'
    BY <1>1, <1>2, <1>3, LeftStays, NamesAreFixed DEF IInv, SubsInv, Keepers
  <1>8. KeptRegistered'
    <2> SUFFICES ASSUME NEW t \in handlers', NoPeerLeft(t)',
                        phase'[t] \in {"starting", "on"}
                 PROVE  PairOf(t)' \in registered'
      BY DEF KeptRegistered
    <2>1. t \in handlers /\ t \in Subs /\ PairOf(t)' = PairOf(t)
      BY <1>1, NamesAreFixed
    <2>2. NoPeerLeft(t)
      BY <2>1, <1>1, NoPeerLeftBefore
    <2>3. PairOf(t) \in registered
      BY <2>1, <2>2, <1>1 DEF IInv, SubsInv, KeptRegistered
    <2>4. ASSUME PairOf(t) = pair PROVE FALSE
      <3>1. PICK u \in Subs : PairOf(u) = PairOf(t) /\ ~Can(u)
        BY <1>2, <2>4 DEF Left
      <3>2. u \in Peers(t) \/ Owner(u) = Owner(t)
        BY <3>1, <2>1, <1>1, OneRegistration
      <3>3. t \in Peers(t) /\ (Owner(u) = Owner(t) => ~Can(t))
        BY <3>1 DEF Peers, Can
      <3> QED
        BY <3>1, <3>2, <3>3, <2>2 DEF NoPeerLeft
    <2> QED
      BY <2>1, <2>3, <2>4, <1>3
  <1>9. MsgInv'
    BY <1>1, SubsKeepMessages DEF msgVars, jobVars
  <1> QED
    BY <1>4, <1>5, <1>6, <1>7, <1>8, <1>9 DEF IInv, SubsInv

-----------------------------------------------------------------------------
\* publish() reads who is registered, which gives a message a place for each inbox.
LEMMA PublishReadKeepsIInv ==
    ASSUME IInv, NEW m \in Messages, PublishRead(m)
    PROVE  IInv'
  <1> DEFINE asked == {i \in Inboxes : <<Topic[m], i>> \in registered}
  <1>1. /\ m \notin published
        /\ published' = published \cup {m}
        /\ targets' = [targets EXCEPT ![m] = asked]
        /\ audience' \in [Messages -> SUBSET Subs]
        /\ UNCHANGED <<nodeVars, redisVars, jobVars, heard>>
        /\ UNCHANGED <<cast, serving, registered, jobs, active, runs, stalled, lost>>
        /\ TypeOK
    BY DEF PublishRead, nodeVars, redisVars, jobVars, IInv, TypeOK
  <1>2. targets'[m] = asked /\ \A k \in Messages : k # m => targets'[k] = targets[k]
    BY <1>1 DEF TypeOK
  <1>3. TypeOK'
    <2>1. targets' \in [Messages -> SUBSET Inboxes] /\ Runs' = Runs
      BY <1>1, NamesAreFixed DEF TypeOK, Runs
    <2> QED
      BY <2>1, <1>1, NamesAreFixed DEF nodeVars, redisVars, TypeOK
  <1>4. SubsInv' /\ OwnInboxOnly'
    BY <1>1, MessagesKeepSubs DEF IInv, OwnInboxOnly
  <1>5. \A i \in asked : \E s \in Subs : PairOf(s) = <<Topic[m], i>>
    BY DEF IInv, SubsInv, Keepers, Left
  <1>6. SomebodyAsked'
    <2>1. ASSUME NEW k \in Messages, NEW i \in Inboxes,
                 i \in targets'[k] \/ <<k, i>> \in jobs \/ <<k, i>> \in active
          PROVE  k \in published' /\ \E s \in Subs : PairOf(s) = <<Topic[k], i>>
      <3>1. CASE k = m /\ i \in asked
        BY <3>1, <1>1, <1>5
      <3>2. CASE i \in targets[k] \/ <<k, i>> \in jobs \/ <<k, i>> \in active
        BY <3>2, <1>1 DEF IInv, MsgInv, SomebodyAsked, Asked
      <3> QED
        BY <3>1, <3>2, <2>1, <1>2
    <2>2. \A run \in runs : Asked(run.msg, run.inbox)'
      BY <1>1, NamesAreFixed DEF IInv, MsgInv, SomebodyAsked, Asked
    <2> QED
      BY <2>1, <2>2, <1>1, NamesAreFixed DEF SomebodyAsked, Asked
  <1>7. /\ \A i \in Inboxes : <<m, i>> \notin jobs /\ <<m, i>> \notin active
        /\ \A s \in Subs : <<m, s>> \notin heard
        /\ \A run \in runs : run.msg # m /\ run.msg \in Messages
    BY <1>1 DEF IInv, MsgInv, SomebodyAsked, Asked, HeardIsGone, TypeOK, Runs
  <1>8. OneDelivery'
    <2>1. \A k \in Messages, i \in Inboxes :
              <<k, i>> \in jobs \/ <<k, i>> \in active => i \notin targets'[k]
      BY <1>2, <1>7 DEF IInv, MsgInv, OneDelivery
    <2>2. \A run \in runs : run.inbox \notin targets'[run.msg]
      BY <1>2, <1>7 DEF IInv, MsgInv, OneDelivery
    <2> QED
      BY <2>1, <2>2, <1>1, NamesAreFixed DEF IInv, MsgInv, OneDelivery
  <1>9. HeardIsGone'
    <2>1. ASSUME NEW k \in Messages, NEW s \in Subs, <<k, s>> \in heard
          PROVE  k \in published' /\ targets'[k] = targets[k]
      BY <2>1, <1>1, <1>2, <1>7 DEF IInv, MsgInv, HeardIsGone
    <2> QED
      BY <2>1, <1>1, NamesAreFixed DEF IInv, MsgInv, HeardIsGone
  <1>10. ApartHearOnce'
    BY <1>1, NamesAreFixed DEF IInv, MsgInv, ApartHearOnce
  <1> QED
    BY <1>3, <1>4, <1>6, <1>8, <1>9, <1>10 DEF IInv, MsgInv

\* An inbox goes from those still to be served to the queue.
LEMMA PublishEnqueueKeepsIInv ==
    ASSUME IInv, NEW m \in Messages, NEW i \in Inboxes, PublishEnqueue(m, i)
    PROVE  IInv'
  <1>1. /\ i \in targets[m]
        /\ targets' = [targets EXCEPT ![m] = @ \ {i}]
        /\ jobs' = jobs \cup {<<m, i>>}
        /\ UNCHANGED <<nodeVars, redisVars, audience, published, heard>>
        /\ UNCHANGED <<cast, serving, active, runs, stalled, lost>>
        /\ TypeOK
    BY DEF PublishEnqueue, nodeVars, IInv
  <1>2. /\ targets'[m] = targets[m] \ {i}
        /\ \A k \in Messages : k # m => targets'[k] = targets[k]
        /\ \A k \in Messages : targets'[k] \subseteq targets[k]
    BY <1>1 DEF TypeOK
  <1>3. TypeOK'
    <2>1. targets' \in [Messages -> SUBSET Inboxes] /\ Runs' = Runs
      BY <1>1, NamesAreFixed DEF TypeOK, Runs
    <2>2. jobs' \cup active' \cup stalled' \cup lost' \subseteq Messages \X Inboxes
      BY <1>1 DEF TypeOK
    <2> QED
      BY <2>1, <2>2, <1>1, NamesAreFixed DEF nodeVars, redisVars, TypeOK
  <1>4. SubsInv' /\ OwnInboxOnly'
    BY <1>1, MessagesKeepSubs DEF IInv, OwnInboxOnly
  <1>5. \A k \in Messages, j \in Inboxes : Asked(k, j)' = Asked(k, j)
    BY <1>1, NamesAreFixed DEF Asked
  <1>6. \A run \in runs : run.msg \in Messages /\ run.inbox \in Inboxes
    BY <1>1 DEF TypeOK, Runs
  <1>7. SomebodyAsked'
    BY <1>1, <1>2, <1>5, <1>6, NamesAreFixed DEF IInv, MsgInv, SomebodyAsked
  <1>8. OneDelivery'
    <2>1. \A k \in Messages, j \in Inboxes :
              <<k, j>> \in jobs' \/ <<k, j>> \in active => j \notin targets'[k]
      BY <1>1, <1>2 DEF IInv, MsgInv, OneDelivery
    <2>2. ASSUME NEW run \in runs
          PROVE  /\ run.inbox \notin targets'[run.msg]
                 /\ <<run.msg, run.inbox>> \in jobs' => <<run.msg, run.inbox>> \in jobs
      BY <1>1, <1>2, <1>6 DEF IInv, MsgInv, OneDelivery
    <2>3. \A run \in runs :
              /\ run.inbox \notin targets'[run.msg]
              /\ <<run.msg, run.inbox>> \notin stalled =>
                    /\ <<run.msg, run.inbox>> \notin jobs'
                    /\ \A r \in runs : r.msg = run.msg /\ r.inbox = run.inbox => r = run
      BY <2>2 DEF IInv, MsgInv, OneDelivery
    <2> QED
      BY <2>1, <2>3, <1>1, NamesAreFixed DEF OneDelivery
  <1>9. HeardIsGone'
    <2>1. ASSUME NEW k \in Messages, NEW s \in Subs, GroupOf(s) \notin targets[k]
          PROVE  /\ GroupOf(s) \notin targets'[k]
                 /\ <<k, GroupOf(s)>> \in jobs' => <<k, GroupOf(s)>> \in jobs
      BY <2>1, <1>1, <1>2
    <2> QED
      BY <2>1, <1>1, NamesAreFixed DEF IInv, MsgInv, HeardIsGone
  <1>10. ApartHearOnce'
    BY <1>1, NamesAreFixed DEF IInv, MsgInv, ApartHearOnce
  <1> QED
    BY <1>3, <1>4, <1>7, <1>8, <1>9, <1>10 DEF IInv, MsgInv

\* A job goes from the queue to the one worker that Bull gives it.
LEMMA TakeKeepsIInv ==
    ASSUME IInv, NEW n \in Nodes, NEW m \in Messages, NEW i \in Inboxes, Take(n, m, i)
    PROVE  IInv'
  <1> DEFINE new == [msg |-> m, inbox |-> i, node |-> n, again |-> <<m, i>> \in stalled]
  <1>1. /\ i \in serving[n] /\ <<m, i>> \in jobs
        /\ jobs' = jobs \ {<<m, i>>}
        /\ active' = active \cup {<<m, i>>}
        /\ runs' = runs \cup {new}
        /\ UNCHANGED <<nodeVars, redisVars, readVars, stalled, lost, heard>>
        /\ UNCHANGED <<cast, serving, targets, published>>
        /\ TypeOK
    BY DEF Take, nodeVars, readVars, IInv
  <1>2. new \in Runs /\ new.msg = m /\ new.inbox = i /\ new.node = n
    BY DEF Runs
  <1> HIDE DEF new
  <1>3. TypeOK'
    <2>1. jobs' \cup active' \cup stalled' \cup lost' \subseteq Messages \X Inboxes
      BY <1>1 DEF TypeOK
    <2>2. runs' \subseteq Runs /\ Runs' = Runs
      BY <1>1, <1>2, NamesAreFixed DEF TypeOK, Runs
    <2> QED
      BY <2>1, <2>2, <1>1, NamesAreFixed DEF nodeVars, redisVars, readVars, TypeOK
  <1>4. SubsInv' /\ OwnInboxOnly'
    BY <1>1, <1>2, MessagesKeepSubs DEF IInv, OwnInboxOnly
  <1>5. \A k \in Messages, j \in Inboxes : Asked(k, j)' = Asked(k, j)
    BY <1>1, NamesAreFixed DEF Asked
  <1>6. \A run \in runs : run.msg \in Messages /\ run.inbox \in Inboxes
    BY <1>1 DEF TypeOK, Runs
  <1>7. SomebodyAsked'
    BY <1>1, <1>2, <1>5, <1>6, NamesAreFixed DEF IInv, MsgInv, SomebodyAsked
  <1>8. OneDelivery'
    <2>1. \A k \in Messages, j \in Inboxes :
              <<k, j>> \in jobs' \/ <<k, j>> \in active' => j \notin targets[k]
      BY <1>1 DEF IInv, MsgInv, OneDelivery
    <2>2. ASSUME NEW run \in runs, run.msg = m, run.inbox = i
          PROVE  <<m, i>> \in stalled
      BY <2>2, <1>1 DEF IInv, MsgInv, OneDelivery
    <2>3. ASSUME NEW run \in runs', <<run.msg, run.inbox>> \notin stalled, NEW r \in runs',
                 r.msg = run.msg /\ r.inbox = run.inbox
          PROVE  r = run
      BY <2>2, <2>3, <1>1, <1>2 DEF IInv, MsgInv, OneDelivery
    <2>4. ASSUME NEW run \in runs'
          PROVE  /\ run.inbox \notin targets[run.msg]
                 /\ <<run.msg, run.inbox>> \notin stalled => <<run.msg, run.inbox>> \notin jobs'
      BY <1>1, <1>2 DEF IInv, MsgInv, OneDelivery
    <2> QED
      BY <2>1, <2>3, <2>4, <1>1, NamesAreFixed DEF OneDelivery
  <1>9. HeardIsGone'
    <2>1. ASSUME NEW k \in Messages, NEW s \in Subs, <<k, GroupOf(s)>> \notin jobs
          PROVE  /\ <<k, GroupOf(s)>> \notin jobs'
                 /\ \A run \in runs' : run \in runs \/ run.msg # k \/ run.inbox # GroupOf(s)
      BY <2>1, <1>1, <1>2
    <2> QED
      BY <2>1, <1>1, NamesAreFixed DEF IInv, MsgInv, HeardIsGone
  <1>10. ApartHearOnce'
    BY <1>1, NamesAreFixed DEF IInv, MsgInv, ApartHearOnce
  <1> QED
    BY <1>3, <1>4, <1>7, <1>8, <1>9, <1>10 DEF IInv, MsgInv

\* A job that stalls goes back to the queue once, and is excepted from then on.
LEMMA StalledKeepsIInv ==
    ASSUME IInv, NEW m \in Messages, NEW i \in Inboxes, Stalled(m, i)
    PROVE  IInv'
  <1>1. /\ <<m, i>> \in active
        /\ active' = active \ {<<m, i>>}
        /\ \/ jobs' = jobs /\ stalled' = stalled /\ <<m, i>> \in stalled
           \/ jobs' = jobs \cup {<<m, i>>} /\ stalled' = stalled \cup {<<m, i>>}
        /\ lost' \subseteq lost \cup {<<m, i>>}
        /\ UNCHANGED <<nodeVars, redisVars, readVars, runs, heard>>
        /\ UNCHANGED <<cast, serving, targets, published>>
        /\ TypeOK
    BY DEF Stalled, nodeVars, readVars, IInv
  <1>2. TypeOK'
    <2>1. jobs' \cup active' \cup stalled' \cup lost' \subseteq Messages \X Inboxes
      BY <1>1 DEF TypeOK
    <2>2. Runs' = Runs
      BY <1>1, NamesAreFixed DEF Runs
    <2> QED
      BY <2>1, <2>2, <1>1, NamesAreFixed DEF nodeVars, redisVars, readVars, TypeOK
  <1>3. SubsInv' /\ OwnInboxOnly'
    BY <1>1, MessagesKeepSubs DEF IInv, OwnInboxOnly
  <1>4. SomebodyAsked'
    <2>1. \A k \in Messages, j \in Inboxes : Asked(k, j)' = Asked(k, j)
      BY <1>1, NamesAreFixed DEF Asked
    <2>2. \A run \in runs : run.msg \in Messages /\ run.inbox \in Inboxes
      BY <1>1 DEF TypeOK, Runs
    <2> QED
      BY <2>1, <2>2, <1>1, NamesAreFixed DEF IInv, MsgInv, SomebodyAsked
  <1>5. /\ \A k, j : <<k, j>> \notin stalled' =>
              <<k, j>> \notin stalled /\ (<<k, j>> \in jobs' => <<k, j>> \in jobs)
        /\ \A k, j : <<k, j>> \in stalled => <<k, j>> \in stalled'
    BY <1>1
  <1>6. OneDelivery'
    <2>1. \A k \in Messages, j \in Inboxes :
              <<k, j>> \in jobs' \/ <<k, j>> \in active' => j \notin targets[k]
      BY <1>1 DEF IInv, MsgInv, OneDelivery
    <2> QED
      BY <2>1, <1>1, <1>5, NamesAreFixed DEF IInv, MsgInv, OneDelivery
  <1>7. HeardIsGone'
    BY <1>1, <1>5, NamesAreFixed DEF IInv, MsgInv, HeardIsGone
  <1>8. ApartHearOnce'
    BY <1>1, <1>5, NamesAreFixed DEF IInv, MsgInv, ApartHearOnce
  <1> QED
    BY <1>2, <1>3, <1>4, <1>6, <1>7, <1>8 DEF IInv, MsgInv

\* A job of a node is there because the node subscribed for itself, so no group that is
\* apart has a handler among those it calls; for a job of a group there is one handler
\* at most, and the job is gone.
LEMMA HandlerKeepsIInv ==
    ASSUME IInv, NEW run \in runs, SubscriptionHandler(run)
    PROVE  IInv'
  <1> DEFINE called == {s \in RegistryOf(run.node) :
                          /\ ChannelOf(s) = Topic[run.msg]
                          /\ run.inbox \in Nodes \/ GroupOf(s) = run.inbox}
  <1>1. /\ runs' = runs \ {run}
        /\ heard' = heard \cup {<<run.msg, s>> : s \in called}
        /\ active' \subseteq active
        /\ UNCHANGED <<nodeVars, redisVars, readVars, jobs, stalled, lost>>
        /\ UNCHANGED <<cast, serving, targets, published>>
    BY DEF SubscriptionHandler, nodeVars, readVars
  <1>2. /\ TypeOK /\ cast \in Casts /\ called \subseteq Subs /\ called \subseteq handlers
        /\ run.msg \in Messages /\ run.inbox \in Inboxes /\ run.node \in Nodes
        /\ Asked(run.msg, run.inbox)
    BY DEF IInv, MsgInv, TypeOK, Runs, RegistryOf, SomebodyAsked
  <1>3. TypeOK'
    <2>1. heard' \subseteq Messages \X Subs
      BY <1>1, <1>2 DEF TypeOK
    <2>2. runs' \subseteq Runs /\ Runs' = Runs
      BY <1>1, <1>2, NamesAreFixed DEF TypeOK, Runs
    <2>3. jobs' \cup active' \cup stalled' \cup lost' \subseteq Messages \X Inboxes
      BY <1>1, <1>2 DEF TypeOK
    <2> QED
      BY <2>1, <2>2, <2>3, <1>1, <1>2, NamesAreFixed DEF nodeVars, redisVars, readVars, TypeOK
  <1>4. SubsInv' /\ OwnInboxOnly'
    BY <1>1, MessagesKeepSubs DEF IInv, OwnInboxOnly
  <1>5. SomebodyAsked'
    <2>1. \A k \in Messages, j \in Inboxes : Asked(k, j)' = Asked(k, j)
      BY <1>1, NamesAreFixed DEF Asked
    <2>2. \A r \in runs : r.msg \in Messages /\ r.inbox \in Inboxes
      BY <1>2 DEF TypeOK, Runs
    <2> QED
      BY <2>1, <2>2, <1>1, NamesAreFixed DEF IInv, MsgInv, SomebodyAsked
  <1>6. OneDelivery'
    BY <1>1, NamesAreFixed DEF IInv, MsgInv, OneDelivery
  <1>7. ASSUME NEW s \in called, GroupOf(s) # None, Apart(GroupOf(s))
        PROVE  run.inbox = GroupOf(s) /\ run.inbox \notin Nodes
    <2>1. CASE run.inbox \in Nodes
      <3>1. run.inbox = run.node
        BY <2>1 DEF IInv, OwnInboxOnly
      <3>2. PICK t \in Subs : PairOf(t) = <<Topic[run.msg], run.inbox>>
        BY <1>2 DEF Asked
      <3>3. ChannelOf(t) = Topic[run.msg] /\ InboxOf(t) = run.inbox
        BY <3>2 DEF PairOf
      <3>4. GroupOf(t) = None /\ Owner(t) = run.node
        BY <3>1, <3>3, <2>1, <1>2, InboxTells
      <3>5. Owner(s) = run.node /\ ChannelOf(s) = Topic[run.msg] /\ s \in Subs
        BY <1>2 DEF RegistryOf
      <3> QED
        BY <3>3, <3>4, <3>5, <1>7 DEF Apart
    <2> QED
      BY <2>1
  <1>8. \A k \in Messages, s \in Subs :
            <<k, s>> \in heard' => <<k, s>> \in heard \/ (k = run.msg /\ s \in called)
    BY <1>1
  <1>9. HeardIsGone'
    <2>1. ASSUME NEW k \in Messages, NEW s \in Subs, <<k, s>> \in heard'
          PROVE  /\ k \in published
                 /\ (/\ GroupOf(s) # None /\ Apart(GroupOf(s))
                     /\ <<k, GroupOf(s)>> \notin stalled) =>
                       /\ GroupOf(s) \notin targets[k] /\ <<k, GroupOf(s)>> \notin jobs
                       /\ \A r \in runs' : r.msg = k => r.inbox # GroupOf(s)
      <3>1. CASE <<k, s>> \in heard
        BY <3>1, <1>1 DEF IInv, MsgInv, HeardIsGone
      <3>2. CASE k = run.msg /\ s \in called
        <4>1. ASSUME GroupOf(s) # None, Apart(GroupOf(s)), <<k, GroupOf(s)>> \notin stalled
              PROVE  /\ GroupOf(s) \notin targets[k] /\ <<k, GroupOf(s)>> \notin jobs
                     /\ \A r \in runs' : r.msg = k => r.inbox # GroupOf(s)
          <5>1. run.inbox = GroupOf(s)
            BY <3>2, <4>1, <1>7
          <5> QED
            BY <5>1, <3>2, <4>1, <1>1 DEF IInv, MsgInv, OneDelivery
        <4> QED
          BY <4>1, <3>2, <1>2 DEF Asked
      <3> QED
        BY <2>1, <3>1, <3>2, <1>8
    <2> QED
      BY <2>1, <1>1, NamesAreFixed DEF HeardIsGone
  <1>10. ApartHearOnce'
    <2> SUFFICES ASSUME NEW k \in Messages, NEW s \in Subs, NEW t \in Subs,
                        <<k, s>> \in heard', <<k, t>> \in heard',
                        GroupOf(s) # None, GroupOf(s) = GroupOf(t), Apart(GroupOf(s)),
                        <<k, GroupOf(s)>> \notin stalled
                 PROVE  s = t
      BY <1>1, NamesAreFixed DEF ApartHearOnce
    <2>1. ASSUME NEW u \in Subs, <<k, u>> \in heard, k = run.msg, run.inbox = GroupOf(s),
                 GroupOf(u) = GroupOf(s)
          PROVE  FALSE
      BY <2>1 DEF IInv, MsgInv, HeardIsGone
    <2>2. CASE <<k, s>> \in heard /\ <<k, t>> \in heard
      BY <2>2 DEF IInv, MsgInv, ApartHearOnce
    <2>3. CASE k = run.msg /\ s \in called /\ t \in called
      <3>1. KeyOf(s) = KeyOf(t)
        BY <2>3 DEF KeyOf, RegistryOf
      <3> QED
        BY <3>1, <2>3, <1>2 DEF IInv, SubsInv, OneHandlerPerKey
    <2>4. CASE k = run.msg /\ s \in called /\ <<k, t>> \in heard
      BY <2>1, <2>4, <1>7
    <2>5. CASE k = run.msg /\ t \in called /\ <<k, s>> \in heard
      BY <2>1, <2>5, <1>7
    <2> QED
      BY <2>2, <2>3, <2>4, <2>5, <1>8
  <1> QED
    BY <1>3, <1>4, <1>5, <1>6, <1>9, <1>10 DEF IInv, MsgInv

\* Every step.
LEMMA NextKeepsIInv == IInv /\ [Next]_vars => IInv'
  <1> SUFFICES ASSUME IInv, [Next]_vars PROVE IInv'
    OBVIOUS
  <1>1. CASE UNCHANGED vars
    <2>1. /\ UNCHANGED <<nodeVars, redisVars, msgVars, readVars, jobVars, cast, serving, runs>>
          /\ UNCHANGED <<jobs, active, stalled, lost, heard>>
      BY <1>1 DEF vars, nodeVars, msgVars, jobVars
    <2>2. TypeOK'
      <3>1. Runs' = Runs
        BY <2>1, NamesAreFixed DEF Runs
      <3> QED
        BY <3>1, <2>1, NamesAreFixed DEF nodeVars, redisVars, readVars, IInv, TypeOK
    <2>3. MsgInv' /\ OwnInboxOnly'
      BY <2>1, SubsKeepMessages DEF IInv, OwnInboxOnly
    <2> QED
      BY <2>1, <2>2, <2>3, MessagesKeepSubs DEF IInv
  <1>2. ASSUME NEW s \in Subs,
               SubscribeTwice(s) \/ Subscribe(s) \/ Register(s) \/ StartRefresh(s)
                   \/ Refresh(s) \/ Unsubscribe(s)
        PROVE  IInv'
    BY <1>2, SubscribeKeepsIInv, RegisterKeepsIInv, UnsubscribeKeepsIInv
  <1>3. ASSUME NEW n \in Nodes, ResetStart(n) \/ ResetEnd(n) \/ Crash(n)
        PROVE  IInv'
    BY <1>3, NodeKeepsIInv
  <1>4. ASSUME NEW m \in Messages,
               PublishRead(m) \/ \E i \in Inboxes : PublishEnqueue(m, i)
        PROVE  IInv'
    BY <1>4, PublishReadKeepsIInv, PublishEnqueueKeepsIInv
  <1>5. ASSUME NEW m \in Messages, NEW i \in Inboxes,
               Stalled(m, i) \/ \E n \in Nodes : Take(n, m, i)
        PROVE  IInv'
    BY <1>5, StalledKeepsIInv, TakeKeepsIInv
  <1>6. ASSUME NEW pair, CleanRead(pair) \/ CleanRemove(pair)
        PROVE  IInv'
    BY <1>6, CleanKeepsIInv
  <1> QED
    BY <1>1, <1>2, <1>3, <1>4, <1>5, <1>6, HandlerKeepsIInv DEF Next

-----------------------------------------------------------------------------
\* The invariant of subscriptions and messages.
THEOREM Invariance == SafeSpec => []IInv
  <1> QED
    BY InitIInv, NextKeepsIInv, PTL DEF SafeSpec

\* Every variable has its type (QueuePubSub.TypeOK).
THEOREM TypeCorrect == SafeSpec => []TypeOK
  <1>1. IInv => TypeOK
    BY DEF IInv
  <1> QED
    BY <1>1, Invariance, PTL

\* _subscribe, _doRegistration and _cleanResources: whatever else is subscribed,
\* stopped, reset, cleaned or crashes meanwhile, a subscription that is on is on the
\* list that publish() reads, unless one of its group was stopped or crashed.
THEOREM StaysRegistered == SafeSpec => []SubscriptionIsRegistered
  <1>1. ASSUME IInv PROVE SubscriptionIsRegistered
    BY <1>1 DEF IInv, SubsInv, KeptRegistered, NoPeerLeft, Hearing, SubscriptionIsRegistered
  <1> QED
    BY <1>1, Invariance, PTL

\* publish and _subscriptionHandler: of a group that is apart one member hears a
\* message, however often it subscribes, resets or loses a node, unless Bull gave the
\* job out again.
THEOREM ApartGroupHearsOnce == SafeSpec => []ApartHearOnce
  <1>1. IInv => ApartHearOnce
    BY DEF IInv, MsgInv
  <1> QED
    BY <1>1, Invariance, PTL

\* So do all groups where no node listens to a channel both for itself and for a group.
THEOREM GroupHearsOnce ==
    ASSUME \A c \in Casts, s, t \in Subs :
              c[s].node = c[t].node /\ c[s].channel = c[t].channel
                  => (c[s].group = None <=> c[t].group = None)
    PROVE  SafeSpec => []OncePerGroup
  <1>1. ASSUME IInv PROVE OncePerGroup
    <2>1. \A s \in Subs : GroupOf(s) # None => Apart(GroupOf(s))
      BY <1>1 DEF IInv, TypeOK, Apart, GroupOf, Owner, ChannelOf
    <2> QED
      BY <2>1, <1>1 DEF IInv, MsgInv, ApartHearOnce, OncePerGroup
  <1> QED
    BY <1>1, Invariance, PTL
=============================================================================
