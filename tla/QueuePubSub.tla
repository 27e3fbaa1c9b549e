---------------------------- MODULE QueuePubSub -----------------------------
(***************************************************************************)
(* Publish and subscribe over a queue system: StellarPubSub (packages/core) *)
(* on QueueTransport (packages/abstract-transport-queue), Transport         *)
(* (packages/abstract-transport) and the subscriber registrations of        *)
(* BullRedisQueueSystem (packages/transport-bull).                          *)
(*                                                                          *)
(* A subscription is three things on its node: a handler in the registry,   *)
(* a registration of the pair <<channel, inbox>> in Redis, and an interval  *)
(* that keeps refreshing the registration.  Node subscriptions share the    *)
(* inbox of the node; those of a group share one inbox over all nodes.      *)
(*                                                                          *)
(* The registry is one object per channel whose keys are subscriber ids and *)
(* group ids alike (Transport.js:44-51).                                    *)
(*                                                                          *)
(* Redis and Bull are external: a job is handed to one worker of its inbox, *)
(* and once more when Bull finds that the worker stalled or is gone.  Times *)
(* are not modelled here (BullRedisQueueSystem.js:61-68 refreshes twice per  *)
(* expiry): a registration expires when nobody refreshes it.                *)
(***************************************************************************)
EXTENDS FiniteSets

CONSTANTS
    Nodes,
    Subs,         \* calls of subscribe or subscribeGroup
    Casts,        \* who may make them: functions from Subs to records of the
                  \* node, the channel and the group (the app), or None
    None,
    Messages,     \* calls of publish
    Topic,        \* Topic[m]: the channel m is published on
    Resets,       \* nodes whose transport may be reset, once
    Crashes       \* nodes that may crash

ASSUME QueuePubSubAssumption ==
    /\ \A c \in Casts, s \in Subs : c[s].node \in Nodes /\ c[s].group \notin Nodes
    /\ None \notin Nodes
    /\ Resets \subseteq Nodes /\ Crashes \subseteq Nodes

VARIABLES
    cast,       \* cast[s]: by whom s is made; it never changes
    phase,      \* phase[s]: how far the call of subscribe and its stopper are
    handlers,   \* subscriptions whose handler is in registries.subscribers
    inboxes,    \* inboxes[n]: keys of this.inboxes
    serving,    \* serving[n]: inboxes whose queue has a worker on n
    resetting,  \* resetting[n]: "no", "stopping" or "done"
    down,       \* crashed nodes
    registered, \* pairs in the subscriber sets of Redis
    refreshing, \* subscriptions whose interval runs
    expired,    \* pairs that a cleaning has read and will remove
    targets,    \* targets[m]: inboxes publish() still has to enqueue m into
    audience,   \* audience[m]: who could hear when getSubscribers() was read
    published,  \* messages whose subscribers were read
    jobs,       \* <<m, inbox>> that wait in the queues
    active,     \* <<m, inbox>> that are given out
    runs,       \* workers that have a job and are yet to call a handler
    stalled,    \* <<m, inbox>> that were given out and put back
    lost,       \* <<m, inbox>> that stalled twice: Bull gives up
    heard       \* <<m, s>>: the handler of s was called with m

nodeVars  == <<cast, phase, handlers, inboxes, serving, resetting, down>>
redisVars == <<registered, refreshing, expired>>
readVars  == <<targets, audience, published>>
jobVars   == <<jobs, active, runs, stalled, lost>>
msgVars   == <<readVars, jobVars, heard>>
vars      == <<nodeVars, redisVars, msgVars>>

Owner(s)     == cast[s].node
ChannelOf(s) == cast[s].channel
GroupOf(s)   == cast[s].group

Channels == {ChannelOf(s) : s \in Subs} \cup {Topic[m] : m \in Messages}

\* A slip: the members of a group use the inbox of their node.
NodeInboxOf(s) == Owner(s)

\* nodeSubscriptionInbox, or the inbox of the group
InboxOf(s) == IF GroupOf(s) = None THEN Owner(s) ELSE GroupOf(s)
Inboxes    == Nodes \cup {InboxOf(s) : s \in Subs}
PairOf(s)  == <<ChannelOf(s), InboxOf(s)>>
\* Where the handler of s is kept in its node's registry.
KeyOf(s)   == <<Owner(s), ChannelOf(s), IF GroupOf(s) = None THEN s ELSE GroupOf(s)>>

\* A worker with a job; again, when it was given out before.
Runs == [msg : Messages, inbox : Inboxes, node : Nodes, again : BOOLEAN]

Phases == {"idle", "storing", "starting", "on", "stopped", "threw"}

TypeOK ==
    /\ cast \in Casts
    /\ phase \in [Subs -> Phases]
    /\ handlers \subseteq {s \in Subs : phase[s] # "idle"}
    /\ inboxes \in [Nodes -> SUBSET Inboxes]
    /\ serving \in [Nodes -> SUBSET Inboxes]
    /\ resetting \in [Nodes -> {"no", "stopping", "done"}]
    /\ down \subseteq Nodes
    /\ registered \subseteq Channels \X Inboxes
    /\ refreshing \subseteq {s \in Subs : phase[s] \in {"on", "stopped"}}
    /\ expired \subseteq Channels \X Inboxes
    /\ targets \in [Messages -> SUBSET Inboxes]
    /\ audience \in [Messages -> SUBSET Subs]
    /\ published \subseteq Messages
    /\ jobs \cup active \cup stalled \cup lost \subseteq Messages \X Inboxes
    /\ runs \subseteq Runs
    /\ heard \subseteq Messages \X Subs

Init ==
    /\ cast \in Casts
    /\ phase = [s \in Subs |-> "idle"]
    /\ handlers = {}
    /\ inboxes = [n \in Nodes |-> {}]
    /\ serving = [n \in Nodes |-> {}]
    /\ resetting = [n \in Nodes |-> "no"]
    /\ down = {}
    /\ registered = {}
    /\ refreshing = {}
    /\ expired = {}
    /\ targets = [m \in Messages |-> {}]
    /\ audience = [m \in Messages |-> {}]
    /\ published = {}
    /\ jobs = {}
    /\ active = {}
    /\ runs = {}
    /\ stalled = {}
    /\ lost = {}
    /\ heard = {}

-----------------------------------------------------------------------------
Up(n) == n \notin down
Can(s) == Up(Owner(s))

\* A subscription whose call returned and that nothing took back.
Hearing(s) == phase[s] = "on" /\ s \in handlers

\* The registry of a node, and what unset() leaves of it.
RegistryOf(n)   == {s \in handlers : Owner(s) = n}
SameKey(s)      == {t \in handlers : KeyOf(t) = KeyOf(s)}
SameChannel(s)  == {t \in RegistryOf(Owner(s)) : ChannelOf(t) = ChannelOf(s)}

-----------------------------------------------------------------------------
\* Slips in this code, one for each property (PROJECT.json, "mutants").

\* The interval is started without waiting for the ZADD.
RegisterAndRefresh(s) ==
    /\ Can(s)
    /\ phase[s] = "storing"
    /\ registered' = registered \cup {PairOf(s)}
    /\ refreshing' = refreshing \cup {s}
    /\ phase' = [phase EXCEPT ![s] = "starting"]
    /\ UNCHANGED <<handlers, inboxes, serving, resetting, cast, down, expired, msgVars>>

\* The stopper deregisters whatever else the node listens to.
UnsubscribeAlwaysDeregisters(s) ==
    /\ Can(s)
    /\ phase[s] = "on"
    /\ phase' = [phase EXCEPT ![s] = "stopped"]
    /\ handlers' = handlers \ SameKey(s)
    /\ refreshing' = refreshing \ {s}
    /\ registered' = registered \ {PairOf(s)}
    /\ UNCHANGED <<inboxes, serving, resetting, cast, down, expired, msgVars>>

\* One handler of the channel is called, not all.
SubscriptionHandlerOnce(run) ==
    /\ run \in runs
    /\ runs' = runs \ {run}
    /\ active' = active \ {<<run.msg, run.inbox>>}
    /\ \E s \in RegistryOf(run.node) : /\ ChannelOf(s) = Topic[run.msg]
                                       /\ heard' = heard \cup {<<run.msg, s>>}
    /\ UNCHANGED <<nodeVars, redisVars, readVars, jobs, stalled, lost>>

-----------------------------------------------------------------------------
\* _registerHandler throws for a url it already has: only a group can.
SubscribeTwice(s) ==
    /\ Can(s)
    /\ phase[s] = "idle"
    /\ SameKey(s) # {}
    /\ phase' = [phase EXCEPT ![s] = "threw"]
    /\ UNCHANGED <<handlers, inboxes, serving, resetting, cast, down, redisVars, msgVars>>

\* subscribe and subscribeGroup up to and with _subscribe's first call of the
\* queue system.  _processInbox marks the inbox before it asks for a worker, and
\* the queue system throws if it still has one.
Subscribe(s) ==
    LET n == Owner(s)
        i == InboxOf(s) IN
    /\ Can(s)
    /\ phase[s] = "idle"
    /\ SameKey(s) = {}
    /\ handlers' = handlers \cup {s}
    /\ inboxes' = [inboxes EXCEPT ![n] = @ \cup {i}]
    /\ IF i \notin inboxes[n] /\ i \in serving[n]
       THEN /\ phase' = [phase EXCEPT ![s] = "threw"]
            /\ UNCHANGED serving
       ELSE /\ phase' = [phase EXCEPT ![s] = "storing"]
            /\ serving' = IF i \in inboxes[n] THEN serving
                          ELSE [serving EXCEPT ![n] = @ \cup {i}]
    /\ UNCHANGED <<resetting, cast, down, redisVars, msgVars>>

\* _doRegistration: the ZADD ...
Register(s) ==
    /\ Can(s)
    /\ phase[s] = "storing"
    /\ registered' = registered \cup {PairOf(s)}
    /\ phase' = [phase EXCEPT ![s] = "starting"]
    /\ UNCHANGED <<handlers, inboxes, serving, resetting, cast, down, refreshing, expired, msgVars>>

\* ... then setInterval, and the caller gets the stopper.
StartRefresh(s) ==
    /\ Can(s)
    /\ phase[s] = "starting"
    /\ refreshing' = refreshing \cup {s}
    /\ phase' = [phase EXCEPT ![s] = "on"]
    /\ UNCHANGED <<handlers, inboxes, serving, resetting, cast, down, registered, expired, msgVars>>

Refresh(s) ==
    /\ Can(s)
    /\ s \in refreshing
    /\ registered' = registered \cup {PairOf(s)}
    /\ UNCHANGED <<nodeVars, refreshing, expired, msgVars>>

\* The stopper of s (QueueTransport.js:73-79).  unset() deletes the key, throws
\* when the registry has nothing for the channel, and returns true only when the
\* whole registry of the node is empty.
Unsubscribe(s) ==
    LET throws == SameChannel(s) = {}
        empty  == RegistryOf(Owner(s)) = SameKey(s) IN
    /\ Can(s)
    /\ phase[s] = "on"
    /\ phase' = [phase EXCEPT ![s] = "stopped"]
    /\ handlers' = handlers \ SameKey(s)
    /\ IF ~throws /\ empty
       THEN /\ refreshing' = refreshing \ {s}
            /\ registered' = registered \ {PairOf(s)}
       ELSE UNCHANGED <<registered, refreshing>>
    /\ UNCHANGED <<inboxes, serving, resetting, cast, down, expired, msgVars>>

\* reset(): stopProcessing for every known inbox ...
ResetStart(n) ==
    /\ Up(n)
    /\ n \in Resets
    /\ resetting[n] = "no"
    /\ resetting' = [resetting EXCEPT ![n] = "stopping"]
    /\ serving' = [serving EXCEPT ![n] = @ \ inboxes[n]]
    /\ UNCHANGED <<phase, handlers, inboxes, cast, down, redisVars, msgVars>>

\* ... and, when they have stopped, everything the transport knew is gone.  The
\* intervals and the registrations are not.
ResetEnd(n) ==
    /\ Up(n)
    /\ resetting[n] = "stopping"
    /\ resetting' = [resetting EXCEPT ![n] = "done"]
    /\ inboxes' = [inboxes EXCEPT ![n] = {}]
    /\ handlers' = handlers \ RegistryOf(n)
    /\ UNCHANGED <<phase, serving, cast, down, redisVars, msgVars>>

Crash(n) ==
    /\ Up(n)
    /\ n \in Crashes
    /\ down' = down \cup {n}
    /\ handlers' = handlers \ RegistryOf(n)
    /\ inboxes' = [inboxes EXCEPT ![n] = {}]
    /\ serving' = [serving EXCEPT ![n] = {}]
    /\ refreshing' = {s \in refreshing : Owner(s) # n}
    /\ runs' = {run \in runs : run.node # n}
    /\ UNCHANGED <<cast, phase, resetting, registered, expired, readVars,
                   jobs, active, stalled, lost, heard>>

\* _cleanResources reads what was not refreshed for too long ...
CleanRead(pair) ==
    /\ pair \in registered
    /\ \A s \in Subs : PairOf(s) = pair =>
          s \notin refreshing /\ (phase[s] = "starting" => ~Can(s))
    /\ expired' = expired \cup {pair}
    /\ UNCHANGED <<nodeVars, registered, refreshing, msgVars>>

\* ... and removes it later, whatever was registered since.  (More than one
\* cleaning may have read it.)
CleanRemove(pair) ==
    /\ pair \in expired
    /\ registered' = registered \ {pair}
    /\ expired' = expired \/ expired' = expired \ {pair}
    /\ UNCHANGED <<nodeVars, refreshing, msgVars>>

-----------------------------------------------------------------------------
\* publish: getSubscribers ...
PublishRead(m) ==
    /\ m \notin published
    /\ published' = published \cup {m}
    /\ targets' = [targets EXCEPT ![m] = {i \in Inboxes : <<Topic[m], i>> \in registered}]
    /\ audience' = [audience EXCEPT ![m] =
                       {s \in Subs : Hearing(s) /\ PairOf(s) \in registered
                                                /\ ChannelOf(s) = Topic[m]}]
    /\ UNCHANGED <<nodeVars, redisVars, jobVars, heard>>

\* ... then one enqueue for each.
PublishEnqueue(m, i) ==
    /\ i \in targets[m]
    /\ targets' = [targets EXCEPT ![m] = @ \ {i}]
    /\ jobs' = jobs \cup {<<m, i>>}
    /\ UNCHANGED <<nodeVars, redisVars, audience, published,
                   active, runs, stalled, lost, heard>>

\* Bull gives a job to a worker of its inbox.
Take(n, m, i) ==
    /\ i \in serving[n]
    /\ <<m, i>> \in jobs
    /\ jobs' = jobs \ {<<m, i>>}
    /\ active' = active \cup {<<m, i>>}
    /\ runs' = runs \cup {[msg |-> m, inbox |-> i, node |-> n,
                           again |-> <<m, i>> \in stalled]}
    /\ UNCHANGED <<nodeVars, redisVars, readVars, stalled, lost, heard>>

\* A worker can end a job as long as nobody else was given it.
HoldsLock(run) ==
    /\ <<run.msg, run.inbox>> \in active
    /\ run.again = (<<run.msg, run.inbox>> \in stalled)

\* _subscriptionHandler: for the inbox of a node every handler the registry has for
\* the channel, for that of a group the handler of the group.  Without one it
\* throws (line 85), and the job ends all the same.  A worker that stalls or dies
\* now does not get to end it.
SubscriptionHandler(run) ==
    LET called == {s \in RegistryOf(run.node) :
                      /\ ChannelOf(s) = Topic[run.msg]
                      /\ run.inbox \in Nodes \/ GroupOf(s) = run.inbox} IN
    /\ run \in runs
    /\ runs' = runs \ {run}
    /\ heard' = heard \cup {<<run.msg, s>> : s \in called}
    /\ \/ HoldsLock(run) /\ active' = active \ {<<run.msg, run.inbox>>}
       \/ UNCHANGED active
    /\ UNCHANGED <<nodeVars, redisVars, readVars, jobs, stalled, lost>>

\* Another worker of the inbox finds that a job lost its lock: its worker died, or
\* was too busy to renew it and still runs.  The job is given out again, once.
Stalled(m, i) ==
    /\ <<m, i>> \in active
    /\ \E n \in Nodes : i \in serving[n]
    /\ active' = active \ {<<m, i>>}
    /\ IF <<m, i>> \in stalled
       THEN lost' = lost \cup {<<m, i>>} /\ UNCHANGED <<jobs, stalled>>
       ELSE /\ jobs' = jobs \cup {<<m, i>>}
            /\ stalled' = stalled \cup {<<m, i>>}
            /\ UNCHANGED lost
    /\ UNCHANGED <<nodeVars, redisVars, readVars, runs, heard>>

Next ==
    \/ \E s \in Subs : \/ SubscribeTwice(s) \/ Subscribe(s)
                       \/ Register(s) \/ StartRefresh(s) \/ Refresh(s)
                       \/ Unsubscribe(s)
    \/ \E n \in Nodes : ResetStart(n) \/ ResetEnd(n) \/ Crash(n)
    \/ \E pair \in registered : CleanRead(pair)
    \/ \E pair \in expired : CleanRemove(pair)
    \/ \E m \in Messages : PublishRead(m) \/ \E i \in Inboxes : PublishEnqueue(m, i)
    \/ \E m \in Messages, i \in Inboxes : Stalled(m, i) \/ \E n \in Nodes : Take(n, m, i)
    \/ \E run \in runs : SubscriptionHandler(run)

SafeSpec == Init /\ [][Next]_vars

\* Nobody who could end the job still runs it.
Unheld(m, i) == \A run \in runs : run.msg = m /\ run.inbox = i => ~HoldsLock(run)

\* A publish that began is carried through, running processes take the jobs of the
\* inboxes they serve and handle what they took, and a job that nobody runs any
\* more is found.
Spec ==
    /\ SafeSpec
    /\ \A m \in Messages : /\ WF_vars(\E i \in Inboxes : PublishEnqueue(m, i))
                          /\ WF_vars(\E n \in Nodes, i \in Inboxes : Take(n, m, i))
                          /\ WF_vars(\E i \in Inboxes : Unheld(m, i) /\ Stalled(m, i))
    /\ WF_vars(\E run \in runs : SubscriptionHandler(run))

-----------------------------------------------------------------------------
\* The subscriptions that share a handler's fate: those of its group on all nodes.
Peers(s) == {s} \cup {t \in Subs : GroupOf(t) # None /\ GroupOf(t) = GroupOf(s)}

\* A subscription that is on stays registered: no stopper of another one, no reset, no
\* cleaning and no subscription made or stopped meanwhile takes it off the list that
\* publish() reads.  Members of a group have one registration, which lasts until
\* one of them stops (QueueTransport.js:76); one that crashed leaves it to the
\* cleaner, which may remove it under whoever came in the meantime
\* (BullRedisQueueSystem.js:149).
SubscriptionIsRegistered ==
    \A s \in Subs : Hearing(s) /\ (\A t \in Peers(s) : phase[t] # "stopped" /\ Can(t))
        => PairOf(s) \in registered

\* A message reaches one member of a group, unless its job was given out twice.
OncePerGroup ==
    \A m \in Messages, s, t \in Subs :
        (/\ <<m, s>> \in heard /\ <<m, t>> \in heard
         /\ GroupOf(s) # None /\ GroupOf(s) = GroupOf(t))
            => s = t \/ <<m, GroupOf(s)>> \in stalled

\* A subscription that was stopped no longer refreshes its registration.
StoppedStopsRefreshing == \A s \in refreshing : phase[s] # "stopped"

\* Who may be given m from inbox i, or was.
Workers(m, i) ==
    {n \in Nodes : i \in serving[n]} \cup
    {run.node : run \in {r \in runs : r.msg = m /\ r.inbox = i}}

\* s goes on hearing, its node does not stop working, Bull does not give up the job
\* for m, and every worker that may get the job has the handler for the channel of s:
\* workers without one are left behind by stoppers and resets, and by members of
\* the group that subscribed to another channel of it only (QueueTransport.js:49, :85).
Undisturbed(m, s) ==
    /\ Hearing(s) /\ resetting[Owner(s)] # "stopping"
    /\ <<m, InboxOf(s)>> \notin lost
    /\ \A n \in Workers(m, InboxOf(s)) : \E t \in RegistryOf(n) : PairOf(t) = PairOf(s)

\* A message that is published while a subscription is on and on the list reaches it,
\* or a member of its group, over crashes, stalls and cleaning, unless s is
\* disturbed from then on.
MessageIsHeard ==
    \A m \in Messages, s \in Subs :
        <>(s \in audience[m])
            => <>(s \in audience[m] /\ (\/ \E t \in Peers(s) : <<m, t>> \in heard
                                       \/ ~Undisturbed(m, s)))
=============================================================================
