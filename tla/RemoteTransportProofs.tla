----------------------- MODULE RemoteTransportProofs ------------------------
(***************************************************************************)
(* Proofs about RemoteTransport, for any set of requests, any number of     *)
(* copies of a response and any behaviour of the other side.                *)
(*                                                                          *)
(* None of the invariants is inductive alone: that a timer never finds its  *)
(* entry gone rests on the response handler stopping the timer of every     *)
(* entry it removes, which in turn rests on the table holding no request    *)
(* that was settled.  IInv is the conjunction that is.                      *)
(***************************************************************************)
EXTENDS RemoteTransport, TLAPS

\* An entry belongs to a request that was issued and not settled by a callback,
\* and one that a reset forgot is never in the table again.
EntriesAreLive ==
    /\ \A id \in inflight : promise[id] \in {"pending", "failed"}
    /\ \A id \in forgotten : promise[id] \in {"pending", "failed"}
    /\ inflight \cap forgotten = {}

\* A promise expires only when its request had a timeout.
ExpiredWasTimed == \A id \in Ids : promise[id] = "expired" => id \in Timed

IInv ==
    /\ TypeOK
    /\ EntriesAreLive
    /\ ExpiredWasTimed
    /\ WaitingIsInflight
    /\ InflightHasTimer
    /\ ThrowsOnlyAfterReset
    /\ AnsweredByOwnResponse

-----------------------------------------------------------------------------
USE RemoteTransportAssumption, NoAnswerAssumption

\* The invariant holds when the transport is constructed.
LEMMA InitIInv == Init => IInv
  BY DEF Init, IInv, TypeOK, PromiseStates, EntriesAreLive, ExpiredWasTimed,
         WaitingIsInflight, Waiting, InflightHasTimer, ThrowsOnlyAfterReset,
         AnsweredByOwnResponse

\* A response's requestId is an id of this node or the foreign one.
LEMMA ResponseFields ==
    ASSUME NEW r \in Responses
    PROVE  r.requestId \in Ids \cup {Foreign}
  BY DEF Responses

\* Issuing a request, in each of its three outcomes.
LEMMA IssueKeepsIInv ==
    ASSUME IInv, NEW id \in Ids, Issue(id)
    PROVE  IInv'
  <1>1. /\ promise[id] = "unsent"
        /\ inflight' = inflight \cup {id}
        /\ timers' = timers \cup ({id} \cap Timed)
        /\ UNCHANGED <<answer, wire, sent, forgotten, uncaught>>
        /\ handedOver' \in {handedOver, handedOver \cup {id}}
    BY DEF Issue, Request, RequestLost, RequestThrows, Register
  <1>2. PICK s \in {"pending", "failed"} : promise' = [promise EXCEPT ![id] = s]
    BY DEF Issue, Request, RequestLost, RequestThrows
  <1>3. promise \in [Ids -> PromiseStates]
    BY DEF IInv, TypeOK
  <1>4. promise' \in [Ids -> PromiseStates] /\ promise'[id] = s
        /\ \A i \in Ids \ {id} : promise'[i] = promise[i]
    BY <1>2, <1>3 DEF PromiseStates
  <1>5. TypeOK'
    BY <1>1, <1>4 DEF IInv, TypeOK
  <1>6. EntriesAreLive'
    BY <1>1, <1>4 DEF IInv, TypeOK, EntriesAreLive
  <1>7. ExpiredWasTimed'
    BY <1>4 DEF IInv, ExpiredWasTimed
  <1>8. WaitingIsInflight'
    BY <1>1, <1>4 DEF IInv, WaitingIsInflight, Waiting
  <1>9. InflightHasTimer'
    BY <1>1 DEF IInv, InflightHasTimer
  <1>10. ThrowsOnlyAfterReset'
    BY <1>1 DEF IInv, ThrowsOnlyAfterReset
  <1>11. AnsweredByOwnResponse'
    BY <1>1, <1>4 DEF IInv, AnsweredByOwnResponse
  <1> QED
    BY <1>5, <1>6, <1>7, <1>8, <1>9, <1>10, <1>11 DEF IInv

\* A response that arrives: for an entry of the table, or for nobody.
LEMMA ResponseKeepsIInv ==
    ASSUME IInv, NEW r \in Responses, ResponseHandler(r)
    PROVE  IInv'
  <1>1. TypeOK /\ wire' \subseteq wire /\ r \in sent
        /\ UNCHANGED <<handedOver, sent, forgotten, uncaught>>
    BY DEF IInv, TypeOK, ResponseHandler
  <1>2. CASE r.requestId \notin inflight
    <2>1. UNCHANGED <<inflight, timers, promise, answer>>
      BY <1>2 DEF ResponseHandler
    <2> QED
      BY <1>1, <2>1
      DEF IInv, TypeOK, EntriesAreLive, ExpiredWasTimed, WaitingIsInflight, Waiting,
          InflightHasTimer, ThrowsOnlyAfterReset, AnsweredByOwnResponse
  <1>3. CASE r.requestId \in inflight
    <2> DEFINE id == r.requestId
    <2>1. id \in Ids
      BY <1>1, <1>3 DEF TypeOK
    <2>2. /\ inflight' = inflight \ {id}
          /\ timers' = timers \ {id}
      BY <1>3 DEF ResponseHandler
    <2>3. \A i \in Ids \ {id} : promise'[i] = promise[i] /\ answer'[i] = answer[i]
      BY <1>1, <1>3 DEF ResponseHandler, Settle, TypeOK
    <2>4. CASE promise[id] = "pending"
      <3>1. promise' = [promise EXCEPT ![id] = "answered"]
            /\ answer' = [answer EXCEPT ![id] = r]
        BY <1>3, <2>4, <1>1, <2>1 DEF ResponseHandler, Settle, TypeOK
      <3>2. promise'[id] = "answered" /\ answer'[id] = r
            /\ promise' \in [Ids -> PromiseStates]
            /\ answer' \in [Ids -> Responses \cup {NoAnswer}]
        BY <3>1, <1>1, <2>1 DEF TypeOK, PromiseStates
      <3>3. TypeOK'
        BY <1>1, <2>2, <3>2 DEF TypeOK
      <3>4. EntriesAreLive' /\ ExpiredWasTimed'
        BY <1>1, <1>3, <2>2, <2>3, <3>2 DEF IInv, EntriesAreLive, ExpiredWasTimed, TypeOK
      <3>5. WaitingIsInflight'
        BY <1>1, <2>2, <2>3, <3>2 DEF IInv, WaitingIsInflight, Waiting
      <3>6. InflightHasTimer' /\ ThrowsOnlyAfterReset'
        BY <1>1, <2>2 DEF IInv, InflightHasTimer, ThrowsOnlyAfterReset
      <3>7. AnsweredByOwnResponse'
        BY <1>1, <2>1, <2>3, <3>2 DEF IInv, AnsweredByOwnResponse
      <3> QED
        BY <3>3, <3>4, <3>5, <3>6, <3>7 DEF IInv
    <2>5. CASE promise[id] # "pending"
      <3>1. UNCHANGED <<promise, answer>>
        BY <1>3, <2>5, <1>1, <2>1 DEF ResponseHandler, Settle, TypeOK
      <3>2. TypeOK' /\ EntriesAreLive' /\ ExpiredWasTimed' /\ WaitingIsInflight'
        BY <1>1, <2>2, <2>5, <3>1
        DEF IInv, TypeOK, EntriesAreLive, ExpiredWasTimed, WaitingIsInflight, Waiting
      <3>3. InflightHasTimer' /\ ThrowsOnlyAfterReset' /\ AnsweredByOwnResponse'
        BY <1>1, <2>2, <3>1
        DEF IInv, InflightHasTimer, ThrowsOnlyAfterReset, AnsweredByOwnResponse
      <3> QED
        BY <3>2, <3>3 DEF IInv
    <2> QED
      BY <2>4, <2>5
  <1> QED
    BY <1>2, <1>3

\* A timer that fires: with its entry still there, or after a reset.
LEMMA TimeoutKeepsIInv ==
    ASSUME IInv, NEW id \in Ids, HandleRequestTimeout(id)
    PROVE  IInv'
  <1>1. /\ TypeOK
        /\ id \in timers /\ id \in Timed
        /\ timers' = timers \ {id}
        /\ UNCHANGED <<answer, handedOver, wire, sent, forgotten>>
    BY DEF IInv, TypeOK, HandleRequestTimeout, networkVars
  <1>2. CASE id \notin inflight
    <2>1. uncaught' = uncaught \cup {id} /\ UNCHANGED <<inflight, promise>>
      BY <1>2 DEF HandleRequestTimeout
    <2>2. id \in forgotten
      BY <1>1, <1>2 DEF IInv, ThrowsOnlyAfterReset
    <2>3. TypeOK' /\ EntriesAreLive' /\ ExpiredWasTimed' /\ WaitingIsInflight'
      BY <1>1, <2>1
      DEF IInv, TypeOK, EntriesAreLive, ExpiredWasTimed, WaitingIsInflight, Waiting
    <2>4. InflightHasTimer' /\ ThrowsOnlyAfterReset' /\ AnsweredByOwnResponse'
      BY <1>1, <1>2, <2>1, <2>2
      DEF IInv, InflightHasTimer, ThrowsOnlyAfterReset, AnsweredByOwnResponse
    <2> QED
      BY <2>3, <2>4 DEF IInv
  <1>3. CASE id \in inflight
    <2>1. inflight' = inflight \ {id} /\ UNCHANGED uncaught
      BY <1>3 DEF HandleRequestTimeout
    <2>2. promise' = [promise EXCEPT ![id] = IF @ = "pending" THEN "expired" ELSE @]
      BY <1>3 DEF HandleRequestTimeout, Settle
    <2>3. /\ promise' \in [Ids -> PromiseStates]
          /\ promise'[id] \in {"expired", "failed"}
          /\ \A i \in Ids \ {id} : promise'[i] = promise[i]
      BY <1>1, <1>3, <2>2 DEF IInv, EntriesAreLive, TypeOK, PromiseStates
    <2>4. TypeOK' /\ ExpiredWasTimed'
      BY <1>1, <2>1, <2>3 DEF IInv, TypeOK, ExpiredWasTimed
    <2>5. EntriesAreLive'
      BY <1>1, <1>3, <2>1, <2>3 DEF IInv, EntriesAreLive, TypeOK
    <2>6. WaitingIsInflight'
      BY <1>1, <2>1, <2>3 DEF IInv, WaitingIsInflight, Waiting
    <2>7. InflightHasTimer' /\ ThrowsOnlyAfterReset'
      BY <1>1, <2>1 DEF IInv, InflightHasTimer, ThrowsOnlyAfterReset
    <2>8. AnsweredByOwnResponse'
      BY <1>1, <1>3, <2>3 DEF IInv, AnsweredByOwnResponse, EntriesAreLive
    <2> QED
      BY <2>4, <2>5, <2>6, <2>7, <2>8 DEF IInv
  <1> QED
    BY <1>2, <1>3

\* reset() and the other side's replies.
LEMMA ResetKeepsIInv == IInv /\ Reset => IInv'
  BY DEF IInv, Reset, networkVars, TypeOK, EntriesAreLive, ExpiredWasTimed,
         WaitingIsInflight, Waiting, InflightHasTimer, ThrowsOnlyAfterReset,
         AnsweredByOwnResponse

LEMMA ReplyKeepsIInv ==
    ASSUME IInv, NEW r \in Responses, Reply(r)
    PROVE  IInv'
  BY DEF IInv, Reply, transportVars, TypeOK, EntriesAreLive, ExpiredWasTimed,
         WaitingIsInflight, Waiting, InflightHasTimer, ThrowsOnlyAfterReset,
         AnsweredByOwnResponse

\* Every step of the class or of its surroundings keeps the invariant.
LEMMA StepKeepsIInv == IInv /\ [Next]_vars => IInv'
  <1> SUFFICES ASSUME IInv, [Next]_vars PROVE IInv'
    OBVIOUS
  <1>1. CASE \E id \in Ids : Issue(id)
    BY <1>1, IssueKeepsIInv
  <1>2. CASE \E id \in Ids : HandleRequestTimeout(id)
    BY <1>2, TimeoutKeepsIInv
  <1>3. CASE \E r \in Responses : ResponseHandler(r)
    BY <1>3, ResponseKeepsIInv
  <1>4. CASE \E r \in Responses : Reply(r)
    BY <1>4, ReplyKeepsIInv
  <1>5. CASE Reset
    BY <1>5, ResetKeepsIInv
  <1>6. CASE UNCHANGED vars
    BY <1>6 DEF vars, IInv, TypeOK, EntriesAreLive, ExpiredWasTimed,
                WaitingIsInflight, Waiting, InflightHasTimer,
                ThrowsOnlyAfterReset, AnsweredByOwnResponse
  <1> QED
    BY <1>1, <1>2, <1>3, <1>4, <1>5, <1>6 DEF Next

\* In every behaviour of the class the invariant holds throughout.
THEOREM Invariance == SafeSpec => []IInv
  BY InitIInv, StepKeepsIInv, PTL DEF SafeSpec

\* The types of the class's state (RemoteTransport.js:13-78).
THEOREM TypeCorrect == SafeSpec => []TypeOK
  <1>1. IInv => TypeOK
    BY DEF IInv
  <1> QED
    BY Invariance, <1>1, PTL

\* Callers, entries and timers agree: what a reset did not forget is served.
THEOREM TableComplete == SafeSpec => []TableIsComplete
  <1>1. IInv => TableIsComplete
    BY DEF IInv, TableIsComplete
  <1> QED
    BY Invariance, <1>1, PTL

\* A resolved promise holds a response to its own request.
THEOREM OwnResponse == SafeSpec => []AnsweredByOwnResponse
  <1>1. IInv => AnsweredByOwnResponse
    BY DEF IInv
  <1> QED
    BY Invariance, <1>1, PTL

-----------------------------------------------------------------------------
\* No callback changes what a settled caller was told.
THEOREM SettledStays == SafeSpec => SettlesOnce
  <1>1. IInv /\ [Next]_vars => [KeepsSettled]_vars
    <2> SUFFICES ASSUME IInv, Next PROVE KeepsSettled
      BY DEF vars
    <2>0. TypeOK
      BY DEF IInv
    <2>1. CASE \E id \in Ids : Issue(id)
      BY <2>0, <2>1 DEF Issue, Request, RequestLost, RequestThrows, Register, KeepsSettled, Settled, TypeOK
    <2>2. CASE \E id \in Ids : HandleRequestTimeout(id)
      BY <2>0, <2>2 DEF HandleRequestTimeout, Settle, KeepsSettled, Settled, TypeOK
    <2>3. CASE \E r \in Responses : ResponseHandler(r)
      BY <2>0, <2>3 DEF ResponseHandler, Settle, KeepsSettled, Settled, TypeOK
    <2>4. CASE Reset \/ \E r \in Responses : Reply(r)
      BY <2>4 DEF Reset, Reply, transportVars, KeepsSettled, Settled
    <2> QED
      BY <2>1, <2>2, <2>3, <2>4 DEF Next
  <1> QED
    BY <1>1, Invariance, PTL DEF SafeSpec, SettlesOnce

-----------------------------------------------------------------------------
(* The class implements RequestLifecycle: safety.  (Its liveness is checked by
   TLC only.)  The invariant is needed in two places: a response or a timer
   that finds its entry must find a promise that the abstract specification
   calls pending, and a timer that fires must belong to a request in Timed. *)

\* Issuing is Issue or Fail.
LEMMA IssueImplements ==
    ASSUME IInv, NEW id \in Ids, Issue(id)
    PROVE  Lifecycle!Issue(id) \/ Lifecycle!Fail(id)
  <1>1. promise \in [Ids -> PromiseStates] /\ promise[id] = "unsent"
        /\ inflight' = inflight \cup {id} /\ answer' = answer
    BY DEF IInv, TypeOK, Issue, Request, RequestLost, RequestThrows, Register
  <1>2. CASE promise' = [promise EXCEPT ![id] = "pending"]
    <2>1. outcomeBar[id] = "unsent"
      BY <1>1 DEF outcomeBar, Waiting
    <2>2. outcomeBar' = [outcomeBar EXCEPT ![id] = "pending"]
      BY <1>1, <1>2 DEF outcomeBar, Waiting
    <2> QED
      BY <1>1, <2>1, <2>2 DEF Lifecycle!Issue
  <1>3. CASE promise' = [promise EXCEPT ![id] = "failed"]
    <2>1. outcomeBar[id] = "unsent"
      BY <1>1 DEF outcomeBar, Waiting
    <2>2. outcomeBar' = [outcomeBar EXCEPT ![id] = "failed"]
      BY <1>1, <1>3 DEF outcomeBar, Waiting
    <2> QED
      BY <1>1, <2>1, <2>2 DEF Lifecycle!Fail
  <1> QED
    BY <1>2, <1>3 DEF Issue, Request, RequestLost, RequestThrows

\* A response answers its request, or nothing observable happens.
LEMMA ResponseImplements ==
    ASSUME IInv, NEW r \in Responses, ResponseHandler(r)
    PROVE  \/ \E id \in Ids : Lifecycle!Answer(id, r)
           \/ UNCHANGED Lifecycle!lifecycleVars
  <1> DEFINE id == r.requestId
  <1>1. TypeOK /\ EntriesAreLive
    BY DEF IInv
  <1>2. CASE id \notin inflight
    BY <1>2 DEF ResponseHandler, Lifecycle!lifecycleVars, outcomeBar, Waiting
  <1>3. CASE id \in inflight /\ promise[id] = "pending"
    <2>1. id \in Ids /\ promise \in [Ids -> PromiseStates]
          /\ answer \in [Ids -> Responses \cup {NoAnswer}]
      BY <1>1, <1>3 DEF TypeOK
    <2>2. /\ inflight' = inflight \ {id}
          /\ promise' = [promise EXCEPT ![id] = "answered"]
          /\ answer' = [answer EXCEPT ![id] = r]
      BY <1>3, <2>1 DEF ResponseHandler, Settle
    <2>3. outcomeBar[id] = "pending"
      BY <1>3, <2>1 DEF outcomeBar, Waiting
    <2>4. outcomeBar' = [outcomeBar EXCEPT ![id] = "answered"]
      BY <2>1, <2>2 DEF outcomeBar, Waiting
    <2> QED
      BY <2>1, <2>2, <2>3, <2>4 DEF Lifecycle!Answer
  <1>4. CASE id \in inflight /\ promise[id] # "pending"
    <2>1. id \in Ids /\ promise \in [Ids -> PromiseStates]
          /\ answer \in [Ids -> Responses \cup {NoAnswer}]
      BY <1>1, <1>4 DEF TypeOK
    <2>2. inflight' = inflight \ {id} /\ promise' = promise /\ answer' = answer
      BY <1>4, <2>1 DEF ResponseHandler, Settle
    <2>3. outcomeBar' = outcomeBar
      BY <1>4, <2>2 DEF outcomeBar, Waiting
    <2> QED
      BY <2>2, <2>3 DEF Lifecycle!lifecycleVars
  <1> QED
    BY <1>2, <1>3, <1>4

\* A timer expires its request, or nothing observable happens.
LEMMA TimeoutImplements ==
    ASSUME IInv, NEW id \in Ids, HandleRequestTimeout(id)
    PROVE  Lifecycle!Expire(id) \/ UNCHANGED Lifecycle!lifecycleVars
  <1>1. id \in Timed /\ promise \in [Ids -> PromiseStates] /\ answer' = answer
    BY DEF IInv, TypeOK, HandleRequestTimeout
  <1>2. CASE id \notin inflight
    BY <1>1, <1>2 DEF HandleRequestTimeout, Lifecycle!lifecycleVars, outcomeBar, Waiting
  <1>3. CASE id \in inflight /\ promise[id] = "pending"
    <2>1. inflight' = inflight \ {id} /\ promise' = [promise EXCEPT ![id] = "expired"]
      BY <1>1, <1>3 DEF HandleRequestTimeout, Settle
    <2>2. outcomeBar[id] = "pending"
      BY <1>3 DEF outcomeBar, Waiting
    <2>3. outcomeBar' = [outcomeBar EXCEPT ![id] = "expired"]
      BY <1>1, <2>1 DEF outcomeBar, Waiting
    <2> QED
      BY <1>1, <2>2, <2>3 DEF Lifecycle!Expire
  <1>4. CASE id \in inflight /\ promise[id] # "pending"
    <2>1. inflight' = inflight \ {id} /\ promise' = promise
      BY <1>1, <1>4 DEF HandleRequestTimeout, Settle
    <2>2. outcomeBar' = outcomeBar
      BY <1>4, <2>1 DEF outcomeBar, Waiting
    <2> QED
      BY <1>1, <2>2 DEF Lifecycle!lifecycleVars
  <1> QED
    BY <1>2, <1>3, <1>4

\* reset() abandons whatever is pending.
LEMMA ResetImplements ==
    ASSUME IInv, Reset
    PROVE  Lifecycle!Abandon
  <1>1. outcomeBar' = [id \in Ids |-> IF outcomeBar[id] = "pending" THEN "abandoned"
                                                                   ELSE outcomeBar[id]]
    BY DEF Reset, outcomeBar, Waiting
  <1> QED
    BY <1>1 DEF Reset, Lifecycle!Abandon

\* The class, whatever its surroundings do, behaves as RequestLifecycle says.
THEOREM Refinement == SafeSpec => Lifecycle!SafeSpec
  <1>1. Init => Lifecycle!Init
    BY DEF Init, Lifecycle!Init, outcomeBar, Waiting
  <1>2. IInv /\ [Next]_vars => [Lifecycle!Next]_(Lifecycle!lifecycleVars)
    <2> SUFFICES ASSUME IInv, [Next]_vars
                 PROVE  Lifecycle!Next \/ UNCHANGED Lifecycle!lifecycleVars
      OBVIOUS
    <2>1. CASE \E id \in Ids : Issue(id)
      BY <2>1, IssueImplements DEF Lifecycle!Next
    <2>2. CASE \E id \in Ids : HandleRequestTimeout(id)
      BY <2>2, TimeoutImplements DEF Lifecycle!Next
    <2>3. CASE \E r \in Responses : ResponseHandler(r)
      BY <2>3, ResponseImplements DEF Lifecycle!Next
    <2>4. CASE \E r \in Responses : Reply(r)
      BY <2>4 DEF Reply, transportVars, Lifecycle!lifecycleVars, outcomeBar, Waiting
    <2>5. CASE Reset
      BY <2>5, ResetImplements DEF Lifecycle!Next
    <2>6. CASE UNCHANGED vars
      BY <2>6 DEF vars, Lifecycle!lifecycleVars, outcomeBar, Waiting
    <2> QED
      BY <2>1, <2>2, <2>3, <2>4, <2>5, <2>6 DEF Next
  <1> QED
    BY <1>1, <1>2, Invariance, PTL DEF SafeSpec, Lifecycle!SafeSpec
=============================================================================
