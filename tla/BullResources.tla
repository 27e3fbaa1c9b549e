--------------------------- MODULE BullResources ----------------------------
(***************************************************************************)
(* packages/transport-bull/src/BullRedisQueueSystem.js: the queues a        *)
(* process uses are kept in a sorted set of Redis, each with the time at    *)
(* which it expires.  Every process that uses a queue pushes that time on   *)
(* at half the expiry; a periodic task drops what has expired               *)
(* (_cleanResources), another one empties the queues that exist in Bull but *)
(* are not in the set (_removeUnusedQueues).                                *)
(*                                                                          *)
(* Time is counted in units of DEFAULT_INTERVAL / Half.  A process may run  *)
(* its interval late (Late), never early; a command of one process can be   *)
(* executed between any two of another one.  Both periodic tasks read first *)
(* and delete later.                                                        *)
(***************************************************************************)
EXTENDS Naturals

CONSTANTS
    Nodes,
    Queues,
    Jobs,
    Half,      \* DEFAULT_INTERVAL: the refresh period, half the expiry
    Grace,     \* MINUTE_1: how long an expired entry is left alone
    Late,      \* an interval callback runs less than this late
    MaxTime,   \* bound on the clock
    Crashes    \* nodes that may crash

ASSUME BullResourcesAssumption ==
    /\ Half \in Nat \ {0} /\ Grace \in Nat /\ Late \in Nat \ {0} /\ MaxTime \in Nat \ {0}
    \* What the intervals of the code leave room for: 15 minutes and 1 minute
    \* against the lateness of a busy event loop.
    /\ Late <= Half + Grace
    /\ Crashes \subseteq Nodes

Expiry == 2 * Half
Times  == 0..(MaxTime + Expiry)

VARIABLES
    now,
    score,     \* score[q]: expiry time of q in the sorted set, 0 when not in it
    queues,    \* queues[n]: keys of this.queues of process n
    storing,   \* <<n, q>>: first ZADD of _doRegistration under way
    due,       \* due[n][q]: next run of the interval, 0 when there is none
    adding,    \* <<n, q, j>>: Bull's add of job j under way
    exists,    \* queues that have a bull:<queue>:id key
    jobs,      \* jobs[q]: in the queue
    dropped,   \* <<q, j>>: jobs that emptying a queue threw away
    expired,   \* entries the cleaner found expired and has not removed yet
    registeredThen, \* what the remover read from the set; None when it is idle
    unused,    \* queues it is about to empty
    up

vars == <<now, score, queues, storing, due, adding, exists, jobs, dropped,
          expired, registeredThen, unused, up>>
processVars == <<queues, storing, due, adding, up>>
bullVars    == <<exists, jobs, dropped>>
removerVars == <<registeredThen, unused>>

Idle == {Queues}   \* no set of queues

TypeOK ==
    /\ now \in 0..MaxTime
    /\ score \in [Queues -> Times]
    /\ queues \in [Nodes -> SUBSET Queues]
    /\ storing \subseteq up \X Queues
    /\ due \in [Nodes -> [Queues -> Times]]
    /\ adding \subseteq up \X Queues \X Jobs
    /\ exists \subseteq Queues
    /\ jobs \in [Queues -> SUBSET Jobs]
    /\ dropped \subseteq Queues \X Jobs
    /\ expired \subseteq Queues
    /\ registeredThen \in (SUBSET Queues) \cup {Idle}
    /\ unused \subseteq Queues
    /\ up \subseteq Nodes

Init ==
    /\ now = 1
    /\ score = [q \in Queues |-> 0]
    /\ queues = [n \in Nodes |-> {}]
    /\ storing = {}
    /\ due = [n \in Nodes |-> [q \in Queues |-> 0]]
    /\ adding = {}
    /\ exists = {}
    /\ jobs = [q \in Queues |-> {}]
    /\ dropped = {}
    /\ expired = {}
    /\ registeredThen = Idle
    /\ unused = {}
    /\ up = Nodes

-----------------------------------------------------------------------------
Registered  == {q \in Queues : score[q] # 0}
KeptBy(n)   == {q \in Queues : due[n][q] # 0}
Used        == UNION {KeptBy(n) : n \in up}
JobsUnderWay == {p[3] : p \in adding} \cup UNION {jobs[q] : q \in Queues}
                    \cup {p[2] : p \in dropped}

\* Slips in this code, one for each property (PROJECT.json, "mutants").
SetTempTwice(q) == score' = [score EXCEPT ![q] = now + 2 * Expiry]

\* The interval has the length of the expiry, not half of it.
RefreshAtExpiry(n, q) ==
    /\ n \in up
    /\ due[n][q] # 0
    /\ now >= due[n][q]
    /\ score' = [score EXCEPT ![q] = now + Expiry]
    /\ due' = [due EXCEPT ![n][q] = now + Expiry]
    /\ UNCHANGED <<now, queues, storing, adding, bullVars, expired, removerVars, up>>

\* A minute from now instead of a minute ago.
CleanReadAhead ==
    /\ expired = {}
    /\ now >= Grace
    /\ expired' = {q \in Registered : score[q] <= now + Grace}
    /\ UNCHANGED <<now, score, processVars, bullVars, removerVars>>

-----------------------------------------------------------------------------
\* _setTempResource
SetTemp(q) == score' = [score EXCEPT ![q] = now + Expiry]

\* Time passes, but no running interval falls behind by Late or more.
Tick ==
    /\ now < MaxTime
    /\ \A n \in up, q \in Queues : due[n][q] # 0 => now + 1 < due[n][q] + Late
    /\ now' = now + 1
    /\ UNCHANGED <<score, processVars, bullVars, expired, removerVars>>

\* enqueue: _getQueue registers a queue that is new to the process, without
\* waiting for it, and the job is added on another connection.
Enqueue(n, q, j) ==
    /\ n \in up
    /\ j \notin JobsUnderWay
    /\ adding' = adding \cup {<<n, q, j>>}
    /\ IF q \in queues[n]
       THEN UNCHANGED <<queues, storing>>
       ELSE /\ queues' = [queues EXCEPT ![n] = @ \cup {q}]
            /\ storing' = storing \cup {<<n, q>>}
    /\ UNCHANGED <<now, score, due, bullVars, expired, removerVars, up>>

Added(n, q, j) ==
    /\ <<n, q, j>> \in adding
    /\ adding' = adding \ {<<n, q, j>>}
    /\ exists' = exists \cup {q}
    /\ jobs' = [jobs EXCEPT ![q] = @ \cup {j}]
    /\ UNCHANGED <<now, score, queues, storing, due, dropped, expired, removerVars, up>>

\* _doRegistration: the entry, then the interval.  An interval of an earlier
\* registration is never cleared; it is the one that runs first that counts.
Stored(n, q) ==
    /\ <<n, q>> \in storing
    /\ storing' = storing \ {<<n, q>>}
    /\ SetTemp(q)
    /\ due' = IF due[n][q] = 0 THEN [due EXCEPT ![n][q] = now + Half] ELSE due
    /\ UNCHANGED <<now, queues, adding, bullVars, expired, removerVars, up>>

Refresh(n, q) ==
    /\ n \in up
    /\ due[n][q] # 0
    /\ now >= due[n][q]
    /\ SetTemp(q)
    /\ due' = [due EXCEPT ![n][q] = now + Half]
    /\ UNCHANGED <<now, queues, storing, adding, bullVars, expired, removerVars, up>>

\* The object is closed and forgotten; its registration goes on.
StopProcessing(n, q) ==
    /\ n \in up
    /\ q \in queues[n]
    /\ queues' = [queues EXCEPT ![n] = @ \ {q}]
    /\ UNCHANGED <<now, score, storing, due, adding, bullVars, expired, removerVars, up>>

Crash(n) ==
    /\ n \in up \cap Crashes
    /\ up' = up \ {n}
    /\ queues' = [queues EXCEPT ![n] = {}]
    /\ due' = [due EXCEPT ![n] = [q \in Queues |-> 0]]
    /\ storing' = {p \in storing : p[1] # n}
    /\ adding' = {p \in adding : p[1] # n}
    /\ UNCHANGED <<now, score, bullVars, expired, removerVars>>

\* _cleanResources: ZRANGEBYSCORE up to a minute ago ...
CleanRead ==
    /\ expired = {}
    /\ now >= Grace
    /\ expired' = {q \in Registered : score[q] <= now - Grace}
    /\ UNCHANGED <<now, score, processVars, bullVars, removerVars>>

\* ... then one ZREM after the other.
CleanRemove(q) ==
    /\ q \in expired
    /\ expired' = expired \ {q}
    /\ score' = [score EXCEPT ![q] = 0]
    /\ UNCHANGED <<now, processVars, bullVars, removerVars>>

\* _removeUnusedQueues: _getQueues ...
RemoverRead ==
    /\ registeredThen = Idle
    /\ unused = {}
    /\ registeredThen' = Registered
    /\ UNCHANGED <<now, score, processVars, bullVars, expired, unused>>

\* ... the scan of the keys of Bull ...
RemoverScan ==
    /\ registeredThen # Idle
    /\ unused' = exists \ registeredThen
    /\ registeredThen' = Idle
    /\ UNCHANGED <<now, score, processVars, bullVars, expired>>

\* ... and emptyQueue for what is left.
RemoverEmpty(q) ==
    /\ q \in unused
    /\ unused' = unused \ {q}
    /\ exists' = exists \ {q}
    /\ jobs' = [jobs EXCEPT ![q] = {}]
    /\ dropped' = dropped \cup ({q} \X jobs[q])
    /\ UNCHANGED <<now, score, processVars, expired, registeredThen>>

Next ==
    \/ Tick
    \/ \E n \in Nodes, q \in Queues : \/ Stored(n, q) \/ Refresh(n, q)
                                      \/ StopProcessing(n, q)
                                      \/ \E j \in Jobs : Enqueue(n, q, j) \/ Added(n, q, j)
    \/ \E n \in Nodes : Crash(n)
    \/ CleanRead
    \/ \E q \in Queues : CleanRemove(q) \/ RemoverEmpty(q)
    \/ RemoverRead
    \/ RemoverScan

Spec == Init /\ [][Next]_vars

-----------------------------------------------------------------------------
\* A queue that a running process uses is in the set, and its entry is not old
\* enough to be cleaned, however late the intervals run: nobody else's interval,
\* stop or registration takes it away.  (As long as no process has crashed: the
\* cleaner may have picked what a dead one left, just before another one uses it.)
UsedIsRegistered ==
    up = Nodes => \A q \in Used : q \in Registered /\ score[q] + Grace > now

\* The cleaner never picks an entry that some running process refreshes, even one
\* that it shares with a process that died.
CleanerSparesUsed ==
    [][\A q \in expired' \ expired : q \notin Used]_vars
=============================================================================
