-------------------------- MODULE RemoteTransport ---------------------------
(***************************************************************************)
(* packages/abstract-transport/src/RemoteTransport.js: the request half of  *)
(* every transport that talks to another process (QueueTransport,           *)
(* WebsocketTransport).  One instance of the class, on one node.            *)
(*                                                                          *)
(* JavaScript runs one callback at a time, so each method body that holds   *)
(* no await is one action.  What races is the order of the callbacks: the   *)
(* response, the timer of the request, reset().                             *)
(*                                                                          *)
(* Outside the class: remoteRequest() is abstract (lines 34-36); here it    *)
(* either throws before anything is sent or hands the request over.  The    *)
(* other side then answers with any number of copies, in any order, or not  *)
(* at all, and may put a requestId in a response that this node never used. *)
(***************************************************************************)
EXTENDS Naturals, FiniteSets

CONSTANTS Ids,        \* headers.id values, each issued at most once
          Timed,      \* requests with headers.requestTimeout or the default
          Foreign,    \* a requestId that no request of this node has
          Copies,     \* tells the copies of a repeated response apart
          NoAnswer

ASSUME RemoteTransportAssumption ==
    /\ Timed \subseteq Ids
    /\ Foreign \notin Ids

Responses == [requestId : Ids \cup {Foreign}, copy : Copies]

ASSUME NoAnswerAssumption == NoAnswer \notin Responses

VARIABLES
    inflight,   \* keys of this.inflightRequests
    timers,     \* requests whose setTimeout is still armed
    promise,    \* state of the promise that request() returned
    answer,     \* what it was resolved with
    handedOver, \* requests that remoteRequest() accepted
    wire,       \* responses on their way to this node
    sent,       \* every response that was ever put on the wire
    forgotten,  \* requests that were inflight when reset() ran
    uncaught    \* timers whose callback threw (line 43)

transportVars == <<inflight, timers, promise, answer, forgotten, uncaught>>
networkVars   == <<handedOver, wire, sent>>
vars          == <<inflight, timers, promise, answer, handedOver, wire, sent,
                   forgotten, uncaught>>

PromiseStates == {"unsent", "pending", "failed", "answered", "expired"}

TypeOK ==
    /\ inflight \subseteq Ids
    /\ timers \subseteq Timed
    /\ promise \in [Ids -> PromiseStates]
    /\ answer \in [Ids -> Responses \cup {NoAnswer}]
    /\ handedOver \subseteq Ids
    /\ sent \subseteq Responses
    /\ wire \subseteq sent
    /\ forgotten \subseteq Ids
    /\ uncaught \subseteq Timed

Init ==
    /\ inflight = {}
    /\ timers = {}
    /\ promise = [id \in Ids |-> "unsent"]
    /\ answer = [id \in Ids |-> NoAnswer]
    /\ handedOver = {}
    /\ wire = {}
    /\ sent = {}
    /\ forgotten = {}
    /\ uncaught = {}

-----------------------------------------------------------------------------
\* Slips in this class, one for each property (PROJECT.json, "mutants").
RegisterAlwaysTimes(id) ==
    /\ promise[id] = "unsent"
    /\ inflight' = inflight \cup {id}
    /\ timers' = timers \cup {id}
    /\ UNCHANGED <<answer, wire, sent, forgotten, uncaught>>

RegisterWithoutTimer(id) ==
    /\ promise[id] = "unsent"
    /\ inflight' = inflight \cup {id}
    /\ UNCHANGED <<timers, answer, wire, sent, forgotten, uncaught>>

ResponseKeepsTimer(r) ==
    /\ r \in wire
    /\ wire' = wire \ {r}
    /\ UNCHANGED <<timers, handedOver, sent, forgotten, uncaught>>
    /\ inflight' = inflight \ {r.requestId}
    /\ IF r.requestId \in inflight /\ promise[r.requestId] = "pending"
       THEN /\ promise' = [promise EXCEPT ![r.requestId] = "answered"]
            /\ answer' = [answer EXCEPT ![r.requestId] = r]
       ELSE UNCHANGED <<promise, answer>>

ResponseToAnyone(r) ==
    /\ r \in wire
    /\ wire' = wire \ {r}
    /\ UNCHANGED <<handedOver, sent, forgotten, uncaught>>
    /\ \E id \in inflight :
         /\ inflight' = inflight \ {id}
         /\ timers' = timers \ {id}
         /\ promise' = [promise EXCEPT ![id] = "answered"]
         /\ answer' = [answer EXCEPT ![id] = r]

-----------------------------------------------------------------------------
\* A promise settles once: resolve and reject of a settled one do nothing.
Settle(id, state) ==
    promise' = [promise EXCEPT ![id] = IF @ = "pending" THEN state ELSE @]

\* request() up to and with remoteRequest(): the entry, then the timer.
Register(id) ==
    /\ promise[id] = "unsent"
    /\ inflight' = inflight \cup {id}
    /\ timers' = timers \cup ({id} \cap Timed)
    /\ UNCHANGED <<answer, wire, sent, forgotten, uncaught>>

Request(id) ==
    /\ Register(id)
    /\ promise' = [promise EXCEPT ![id] = "pending"]
    /\ handedOver' = handedOver \cup {id}

\* remoteRequest() returned a promise that rejects (an enqueue that failed):
\* request() ignores it, so the caller sees nothing.
RequestLost(id) ==
    /\ Register(id)
    /\ promise' = [promise EXCEPT ![id] = "pending"]
    /\ UNCHANGED handedOver

\* remoteRequest() threw: the Promise constructor rejects, and the entry and
\* the timer of lines 25 stay behind.
RequestThrows(id) ==
    /\ Register(id)
    /\ promise' = [promise EXCEPT ![id] = "failed"]
    /\ UNCHANGED handedOver

\* _responseHandler
ResponseHandler(r) ==
    /\ r \in wire
    /\ wire' = wire \ {r}
    /\ UNCHANGED <<handedOver, sent, forgotten, uncaught>>
    /\ IF r.requestId \notin inflight
       THEN UNCHANGED <<inflight, timers, promise, answer>>
       ELSE /\ inflight' = inflight \ {r.requestId}
            /\ timers' = timers \ {r.requestId}
            /\ Settle(r.requestId, "answered")
            /\ answer' = [answer EXCEPT ![r.requestId] =
                              IF promise[r.requestId] = "pending" THEN r ELSE @]

\* _handleRequestTimeout, run by the timer
HandleRequestTimeout(id) ==
    /\ id \in timers
    /\ timers' = timers \ {id}
    /\ UNCHANGED <<answer, networkVars, forgotten>>
    /\ IF id \notin inflight
       THEN /\ uncaught' = uncaught \cup {id}
            /\ UNCHANGED <<inflight, promise>>
       ELSE /\ inflight' = inflight \ {id}
            /\ Settle(id, "expired")
            /\ UNCHANGED uncaught

\* reset(): the table is replaced, the timers are not cleared.  (On an empty
\* table it changes nothing.)
Reset ==
    /\ inflight # {}
    /\ inflight' = {}
    /\ forgotten' = forgotten \cup inflight
    /\ UNCHANGED <<timers, promise, answer, networkVars, uncaught>>

\* The rest of the system: whoever works on an accepted request answers it.
Reply(r) ==
    /\ r \notin sent
    /\ r.requestId \in handedOver \cup {Foreign}
    /\ sent' = sent \cup {r}
    /\ wire' = wire \cup {r}
    /\ UNCHANGED <<transportVars, handedOver>>

Issue(id) == Request(id) \/ RequestLost(id) \/ RequestThrows(id)

Next ==
    \/ \E id \in Ids : Issue(id) \/ HandleRequestTimeout(id)
    \/ \E r \in Responses : ResponseHandler(r) \/ Reply(r)
    \/ Reset

SafeSpec == Init /\ [][Next]_vars

\* The event loop runs an armed timer at some point.  Nothing is assumed of
\* the network or of the other side.
Fairness == \A id \in Timed : WF_vars(HandleRequestTimeout(id))

Spec == SafeSpec /\ Fairness

-----------------------------------------------------------------------------
Waiting(id) == promise[id] = "pending"

\* A caller that still waits has its entry, unless a reset threw it away.
WaitingIsInflight ==
    \A id \in Ids : Waiting(id) => id \in inflight \cup forgotten

\* An entry of a request with a timeout has its timer.
InflightHasTimer == inflight \cap Timed \subseteq timers

\* The throw of line 43 happens only to a request that reset() forgot.
ThrowsOnlyAfterReset == uncaught \cup (timers \ inflight) \subseteq forgotten

\* Callers, entries and timers agree, whatever the order of responses, timers and
\* resets: no promise is left that nobody can settle, no entry that nobody will
\* remove, and no timer that throws where no caller can catch it, except for the
\* requests that a reset forgot.
TableIsComplete == WaitingIsInflight /\ InflightHasTimer /\ ThrowsOnlyAfterReset

\* A resolved promise holds a response that names its request and that was
\* sent; a promise that is not resolved holds none.
AnsweredByOwnResponse ==
    \A id \in Ids :
        IF promise[id] = "answered"
        THEN answer[id] \in sent /\ answer[id].requestId = id
        ELSE answer[id] = NoAnswer

Settled(id) == promise[id] \in {"failed", "answered", "expired"}

KeepsSettled ==
    \A id \in Ids : Settled(id) => /\ promise'[id] = promise[id]
                                   /\ answer'[id] = answer[id]

\* No callback (a duplicate response, a late timer) changes what a caller was
\* told.
SettlesOnce == [][KeepsSettled]_vars

-----------------------------------------------------------------------------
\* What the caller can observe: a pending promise without an entry is one that
\* a reset forgot.
outcomeBar ==
    [id \in Ids |-> IF Waiting(id) /\ id \notin inflight THEN "abandoned"
                                                         ELSE promise[id]]

Lifecycle == INSTANCE RequestLifecycle WITH outcome <- outcomeBar

\* The class keeps the promise of RequestLifecycle: whatever the other side does, a
\* request with a timeout settles unless a reset threw it away.
ImplementsLifecycle == Lifecycle!Spec
=============================================================================
