------------------------- MODULE StellarSocketProofs -------------------------
(***************************************************************************)
(* Proofs about StellarSocket, for any number of sockets, calls, retries and *)
(* drops.                                                                    *)
(*                                                                          *)
(* A socket is engaged while it connects or is connected, while its failure  *)
(* is about to be handled, and while a backoff waits because of it.  If the  *)
(* application leaves a reconnection alone, one socket at most is engaged    *)
(* (OneEngaged): whoever makes a new one has let go of the one before.  That *)
(* rests on what the code never checks: nothing else is engaged or closing   *)
(* while the client is connected (OnlyTheSocket) or a call of connect() is   *)
(* about to make its socket (CallsTakeTurns), and nothing is closing while   *)
(* an attempt is made (AttemptsAreQuiet), so that no 'close' of an earlier   *)
(* socket is taken for its own.                                             *)
(***************************************************************************)
EXTENDS StellarSocket, TLAPS, FiniteSetTheorems

Engaged(k) ==
    k \in backoff \/ outcome[k] = "rejected" \/ link[k] \in {"connecting", "connected"}

Quiet == \A k \in Sockets : link[k] # "closing"

\* The promise of _doConnect is pending during the handshake, resolved from
\* 'connected' on.
OutcomesFollowLinks ==
    \A k \in Sockets :
        /\ link[k] \in {"new", "connecting"} => outcome[k] = "pending"
        /\ link[k] = "connected" => outcome[k] = "resolved"

\* this.socket is a socket that was connected once.
SocketWasConnected ==
    socket # None =>
        /\ outcome[socket] = "resolved"
        /\ link[socket] \in {"connected", "closing", "closed"}

\* Sockets that live for 250 ms: the promise has one that is not closed.
PromisesAreLive ==
    env.calm /\ ~env.quick => \A s \in Sockets :
                      s \in timers \/ s = promise => link[s] \in {"connected", "closing"}

OneEngaged ==
    env.calm => \A j, k \in Sockets : Engaged(j) /\ Engaged(k) => j = k

OnlyTheSocket ==
    env.calm /\ state = "connected" =>
        \A k \in Sockets : Engaged(k) \/ link[k] = "closing" => k = socket

AttemptsAreQuiet ==
    env.calm =>
        \A k \in Sockets :
            link[k] = "connecting" \/ (outcome[k] = "rejected" /\ retry) => Quiet

\* One call of connect() at a time closes this.socket and then makes a new one.
ReadyCallsAreAlone ==
    env.calm => \A c \in Calls : calls[c] = "ready" =>
                    /\ state # "connected" /\ Quiet
                    /\ \A k \in Sockets : ~ Engaged(k)
                    /\ \A d \in Calls : calls[d] = "ready" => d = c

ClosingCallsListen ==
    env.calm => \A c \in Calls : calls[c] = "closing" =>
                    /\ state = "connected" /\ socket # None
                    /\ listener[socket] = c /\ link[socket] = "closing"

ListenersAreClosing ==
    env.calm => \A k \in Sockets : listener[k] \in Calls =>
                    k = socket /\ calls[listener[k]] = "closing"

NothingBeforeCalls ==
    env.calm /\ (\A c \in Calls : calls[c] = "idle") =>
        /\ state # "connected"
        /\ \A k \in Sockets : link[k] = "new"

CallsTakeTurns ==
    /\ ReadyCallsAreAlone
    /\ ClosingCallsListen
    /\ ListenersAreClosing
    /\ NothingBeforeCalls

\* After close() no retry is left and none is under way.
NoRetryIsLeft ==
    env.calm /\ closed =>
        /\ ~ retry /\ backoff = {}
        /\ \A k \in Sockets :
              link[k] = "connecting" \/ outcome[k] = "rejected" => tries[k] = 0

\* What connects after close() connects anew.
ClosedForgets ==
    env.calm /\ closed => \A k \in Sockets : link[k] = "connecting" => ~ once

\* Whoever takes the listeners off this.socket leaves the state "connected".  In
\* a calm client that is when this.socket closes.
SomebodyListens ==
    /\ \A k \in Sockets : link[k] \in {"new", "connecting"} => listener[k] = "own"
    /\ state = "connected" => listener[socket] # None
    /\ env.calm => \A k \in Sockets : listener[k] = None => link[k] = "closed"

IInv ==
    /\ TypeOK
    /\ OutcomesFollowLinks
    /\ SocketWasConnected
    /\ PromisesAreLive
    /\ ConnectedHasSocket
    /\ OneEngaged
    /\ OnlyTheSocket
    /\ AttemptsAreQuiet
    /\ CallsTakeTurns
    /\ NoRetryIsLeft
    /\ ClosedForgets

-----------------------------------------------------------------------------
USE NoneAssumption, StellarSocketAssumption

LEMMA InitIInv == Init => IInv
  <1> SUFFICES ASSUME Init PROVE IInv
    OBVIOUS
  <1> USE DEF Init, TransportInit
  <1>1. TypeOK
    <2>1. 0 \in 0..MaxRetries /\ 0 \in 0..MaxDrops
      OBVIOUS
    <2>2. tries \in [Sockets -> 0..MaxRetries] /\ drops \in 0..MaxDrops
      BY <2>1
    <2>3. TransportTypeOK
      BY DEF TransportTypeOK
    <2>4. /\ link \in [Sockets -> {"new", "connecting", "connected", "closing", "closed"}]
          /\ listener \in [Sockets -> {"own", None} \cup Calls]
          /\ outcome \in [Sockets -> {"pending", "resolved", "rejected", "handled"}]
          /\ caller \in [Sockets -> Calls \cup {None}]
          /\ calls \in [Calls -> {"idle", "closing", "ready", "waiting", "ok", "failed", "retrying"}]
      OBVIOUS
    <2> QED
      BY <2>2, <2>3, <2>4 DEF TypeOK
  <1>2. OutcomesFollowLinks /\ SocketWasConnected /\ PromisesAreLive /\ ConnectedHasSocket
    BY DEF OutcomesFollowLinks, SocketWasConnected, PromisesAreLive, ConnectedHasSocket
  <1>3. OneEngaged /\ OnlyTheSocket /\ AttemptsAreQuiet
    BY DEF OneEngaged, OnlyTheSocket, AttemptsAreQuiet, Engaged
  <1>4. CallsTakeTurns
    BY DEF CallsTakeTurns, ReadyCallsAreAlone, ClosingCallsListen, ListenersAreClosing,
           NothingBeforeCalls
  <1>5. NoRetryIsLeft /\ ClosedForgets
    BY DEF NoRetryIsLeft, ClosedForgets
  <1> QED
    BY <1>1, <1>2, <1>3, <1>4, <1>5 DEF IInv

\* What the state is made of.
LEMMA TypeFacts ==
    ASSUME TypeOK
    PROVE  /\ env \in Surroundings /\ env.calm \in BOOLEAN /\ env.quick \in BOOLEAN
           /\ socket \in Sockets \cup {None} /\ promise \in Sockets \cup {None}
           /\ link \in [Sockets -> {"new", "connecting", "connected", "closing", "closed"}]
           /\ listener \in [Sockets -> {"own", None} \cup Calls]
           /\ outcome \in [Sockets -> {"pending", "resolved", "rejected", "handled"}]
           /\ tries \in [Sockets -> 0..MaxRetries]
           /\ caller \in [Sockets -> Calls \cup {None}]
           /\ calls \in [Calls -> {"idle", "closing", "ready", "waiting", "ok", "failed", "retrying"}]
           /\ retry \in BOOLEAN /\ once \in BOOLEAN /\ closed \in BOOLEAN /\ refused \in BOOLEAN
           /\ backoff \subseteq {k \in Sockets : tries[k] > 1 /\ outcome[k] = "handled"}
  BY DEF TypeOK, TransportTypeOK

\* While the client is connected, this.socket is all there is.
LEMMA CalmConnected ==
    ASSUME IInv, env.calm, state = "connected"
    PROVE  /\ socket \in Sockets /\ link[socket] \in {"connected", "closing"}
           /\ outcome[socket] = "resolved"
           /\ backoff = {}
           /\ \A k \in Sockets :
                 /\ outcome[k] # "rejected" /\ link[k] # "connecting"
                 /\ link[k] \in {"connected", "closing"} => k = socket
           /\ \A c \in Calls : calls[c] # "ready"
  <1>1. socket \in Sockets /\ link[socket] \in {"connected", "closing"}
        /\ outcome[socket] = "resolved"
    BY TypeFacts DEF IInv, ConnectedHasSocket, SocketWasConnected
  <1>2. \A k \in Sockets : Engaged(k) \/ link[k] = "closing" => k = socket
    BY DEF IInv, OnlyTheSocket
  <1>3. backoff = {}
    BY <1>1, <1>2, TypeFacts DEF IInv, Engaged
  <1>4. \A k \in Sockets : /\ outcome[k] # "rejected" /\ link[k] # "connecting"
                           /\ link[k] \in {"connected", "closing"} => k = socket
    BY <1>1, <1>2 DEF Engaged
  <1>5. \A c \in Calls : calls[c] # "ready"
    BY DEF IInv, CallsTakeTurns, ReadyCallsAreAlone
  <1> QED
    BY <1>1, <1>3, <1>4, <1>5

-----------------------------------------------------------------------------
LEMMA ConnectKeepsIInv ==
    ASSUME IInv, NEW c \in Calls, Connect(c) PROVE IInv'
  <1> USE TypeFacts DEF Connect, transportVars
  <1>0. TypeOK
    BY DEF IInv
  <1>1. \A k \in Sockets :
            link'[k] = IF k = socket /\ link[k] \in {"connecting", "connected"}
                       THEN "closing" ELSE link[k]
    BY <1>0 DEF Closing
  <1>2. \A k \in Sockets : listener'[k] = IF k = socket THEN c ELSE listener[k]
    BY <1>0
  <1>3. \A d \in Calls :
            calls'[d] = IF d # c THEN calls[d]
                        ELSE IF socket = None THEN "ready" ELSE "closing"
    BY <1>0
  <1>4. TypeOK'
    <2>1. link' \in [Sockets -> {"new", "connecting", "connected", "closing", "closed"}]
      BY <1>0 DEF Closing
    <2>2. listener' \in [Sockets -> {"own", None} \cup Calls]
      BY <1>0
    <2>3. calls' \in [Calls -> {"idle", "closing", "ready", "waiting", "ok", "failed", "retrying"}]
      BY <1>0
    <2>4. state' \in {"disconnected", "connecting", "connected"} /\ retry' \in BOOLEAN
      BY <1>0 DEF TypeOK
    <2> QED
      BY <2>1, <2>2, <2>3, <2>4 DEF IInv, TypeOK, TransportTypeOK
  <1>5. OutcomesFollowLinks' /\ SocketWasConnected' /\ PromisesAreLive' /\ ConnectedHasSocket'
    BY <1>0, <1>1 DEF IInv, OutcomesFollowLinks, SocketWasConnected, PromisesAreLive,
                      ConnectedHasSocket
  <1>6. OneEngaged' /\ OnlyTheSocket'
    BY <1>0, <1>1 DEF IInv, OneEngaged, OnlyTheSocket, Engaged
  <1>7. ASSUME env.calm, socket # None
        PROVE  /\ state = "connected" /\ state' = "connected"
               /\ \A d \in Calls : calls[d] \notin {"closing", "ready"}
    BY <1>0, <1>7 DEF IInv, Settled, CallsTakeTurns, NothingBeforeCalls, SocketWasConnected
  <1>8. ASSUME env.calm, socket = None
        PROVE  /\ state' = "connecting"
               /\ \A d \in Calls : calls[d] = "idle"
               /\ \A k \in Sockets : link[k] = "new" /\ link'[k] = "new" /\ outcome[k] = "pending"
    BY <1>0, <1>1, <1>8 DEF IInv, Settled, CallsTakeTurns, NothingBeforeCalls,
                            ConnectedHasSocket, OutcomesFollowLinks
  <1>9. AttemptsAreQuiet'
    <2>1. CASE env.calm /\ socket = None
      BY <2>1, <1>8 DEF AttemptsAreQuiet, Quiet
    <2>2. CASE env.calm /\ socket # None
      BY <2>2, <1>1, <1>7, CalmConnected DEF AttemptsAreQuiet
    <2> QED
      BY <2>1, <2>2 DEF AttemptsAreQuiet
  <1>10. CallsTakeTurns'
    <2>1. CASE env.calm /\ socket = None
      <3>1. \A k \in Sockets : ~ Engaged(k)'
        BY <2>1, <1>0, <1>8 DEF Engaged
      <3>2. \A k \in Sockets : listener[k] \notin Calls
        BY <2>1, <1>0 DEF IInv, CallsTakeTurns, ListenersAreClosing
      <3> QED
        BY <2>1, <3>1, <3>2, <1>2, <1>3, <1>8
           DEF CallsTakeTurns, ReadyCallsAreAlone, ClosingCallsListen, ListenersAreClosing,
               NothingBeforeCalls, Quiet
    <2>2. CASE env.calm /\ socket # None
      <3>1. socket \in Sockets /\ link[socket] \in {"connected", "closing"}
        BY <2>2, <1>7, CalmConnected
      <3>2. \A k \in Sockets : k # socket => listener[k] \notin Calls
        BY <2>2 DEF IInv, CallsTakeTurns, ListenersAreClosing
      <3> QED
        BY <2>2, <3>1, <3>2, <1>1, <1>2, <1>3, <1>7
           DEF CallsTakeTurns, ReadyCallsAreAlone, ClosingCallsListen, ListenersAreClosing,
               NothingBeforeCalls
    <2> QED
      BY <2>1, <2>2 DEF CallsTakeTurns, ReadyCallsAreAlone, ClosingCallsListen,
                        ListenersAreClosing, NothingBeforeCalls
  <1>11. NoRetryIsLeft' /\ ClosedForgets'
    BY <1>0, <1>1 DEF IInv, NoRetryIsLeft, ClosedForgets
  <1> QED
    BY <1>4, <1>5, <1>6, <1>9, <1>10, <1>11 DEF IInv

\* A new socket: what _doConnect changes, and what it keeps in shape.
LEMMA AttemptFacts ==
    ASSUME TypeOK, NEW n \in 0..MaxRetries, NEW c \in Calls \cup {None},
           NEW l \in [Sockets -> {"new", "connecting", "connected", "closing", "closed"}],
           Attempt(l, n, c)
    PROVE  /\ \E k \in Sockets :
                 /\ link[k] = "new"
                 /\ \A i \in Sockets : link'[i] = IF i = k THEN "connecting" ELSE l[i]
                 /\ \A i \in Sockets : tries'[i] = IF i = k THEN n ELSE tries[i]
           /\ state' = "connecting"
           /\ link' \in [Sockets -> {"new", "connecting", "connected", "closing", "closed"}]
           /\ tries' \in [Sockets -> 0..MaxRetries]
           /\ caller' \in [Sockets -> Calls \cup {None}]
  <1>1. PICK k \in Sockets :
            /\ Fresh(k)
            /\ state' = "connecting"
            /\ link' = [l EXCEPT ![k] = "connecting"]
            /\ tries' = [tries EXCEPT ![k] = n]
            /\ caller' = [caller EXCEPT ![k] = c]
    BY DEF Attempt
  <1>2. link[k] = "new"
    BY <1>1 DEF Fresh, Made
  <1>3. /\ \A i \in Sockets : link'[i] = IF i = k THEN "connecting" ELSE l[i]
        /\ \A i \in Sockets : tries'[i] = IF i = k THEN n ELSE tries[i]
    BY <1>1, TypeFacts
  <1>4. /\ link' \in [Sockets -> {"new", "connecting", "connected", "closing", "closed"}]
        /\ tries' \in [Sockets -> 0..MaxRetries]
        /\ caller' \in [Sockets -> Calls \cup {None}]
    BY <1>1, TypeFacts
  <1> QED
    BY <1>1, <1>2, <1>3, <1>4

\* A call of connect() makes its socket: nothing is engaged or closing.
LEMMA DoConnectKeepsIInv ==
    ASSUME IInv, NEW c \in Calls, DoConnect(c) PROVE IInv'
  <1> USE TypeFacts DEF DoConnect, transportVars
  <1>0. TypeOK /\ None \notin Sockets
    BY DEF IInv
  <1>1. PICK k \in Sockets :
            /\ link[k] = "new"
            /\ \A i \in Sockets : link'[i] = IF i = k THEN "connecting" ELSE link[i]
            /\ \A i \in Sockets : tries'[i] = IF i = k THEN 0 ELSE tries[i]
    BY <1>0, AttemptFacts
  <1>2. /\ state' = "connecting"
        /\ link' \in [Sockets -> {"new", "connecting", "connected", "closing", "closed"}]
        /\ tries' \in [Sockets -> 0..MaxRetries]
        /\ caller' \in [Sockets -> Calls \cup {None}]
    BY <1>0, AttemptFacts
  <1>3. \A d \in Calls : calls'[d] = IF d = c THEN "waiting" ELSE calls[d]
    BY <1>0
  <1>4. outcome[k] = "pending" /\ socket # k
    BY <1>0, <1>1 DEF IInv, OutcomesFollowLinks, SocketWasConnected
  <1>5. TypeOK'
    <2>1. calls' \in [Calls -> {"idle", "closing", "ready", "waiting", "ok", "failed", "retrying"}]
      BY <1>0
    <2>2. backoff' \subseteq {i \in Sockets : tries'[i] > 1 /\ outcome'[i] = "handled"}
      BY <1>0, <1>1, <1>4
    <2> QED
      BY <1>2, <2>1, <2>2 DEF IInv, TypeOK, TransportTypeOK
  <1>6. OutcomesFollowLinks' /\ SocketWasConnected' /\ ConnectedHasSocket'
    BY <1>0, <1>1, <1>2, <1>4 DEF IInv, OutcomesFollowLinks, SocketWasConnected, ConnectedHasSocket
  <1>7. PromisesAreLive'
    BY <1>0, <1>1, <1>2, <1>4 DEF IInv, PromisesAreLive
  <1>8. ASSUME env.calm
        PROVE  /\ Quiet /\ \A i \in Sockets : ~ Engaged(i)
               /\ \A d \in Calls : calls[d] = "ready" => d = c
               /\ \A d \in Calls : calls[d] # "closing"
    BY <1>8 DEF IInv, CallsTakeTurns, ReadyCallsAreAlone, ClosingCallsListen
  <1>9. OneEngaged' /\ OnlyTheSocket' /\ AttemptsAreQuiet'
    BY <1>0, <1>1, <1>2, <1>8 DEF OneEngaged, OnlyTheSocket, AttemptsAreQuiet, Engaged, Quiet
  <1>10. CallsTakeTurns'
    <2>1. ReadyCallsAreAlone' /\ ClosingCallsListen' /\ NothingBeforeCalls'
      BY <1>0, <1>3, <1>8 DEF ReadyCallsAreAlone, ClosingCallsListen, NothingBeforeCalls
    <2>2. ListenersAreClosing'
      BY <1>0, <1>8 DEF IInv, CallsTakeTurns, ListenersAreClosing
    <2> QED
      BY <2>1, <2>2 DEF CallsTakeTurns
  <1>11. NoRetryIsLeft' /\ ClosedForgets'
    BY <1>0, <1>1 DEF IInv, NoRetryIsLeft, ClosedForgets
  <1> QED
    BY <1>5, <1>6, <1>7, <1>9, <1>10, <1>11 DEF IInv

\* The 'connected' message: the attempt becomes this.socket.
LEMMA ConnectedKeepsIInv ==
    ASSUME IInv, NEW k \in Sockets, Connected(k) PROVE IInv'
  <1> USE TypeFacts DEF Connected, SetSocket
  <1>0. TypeOK /\ None \notin Sockets
    BY DEF IInv
  <1>1. \A i \in Sockets : link'[i] = IF i = k THEN "connected" ELSE link[i]
    BY <1>0
  <1>2. \A i \in Sockets : outcome'[i] = IF i = k THEN "resolved" ELSE outcome[i]
    BY <1>0
  <1>3. \A d \in Calls : calls'[d] \in {calls[d], "ok"}
    BY <1>0
  <1>4. outcome[k] = "pending" /\ socket # k /\ k \notin backoff
    BY <1>0 DEF IInv, OutcomesFollowLinks, SocketWasConnected
  <1>5. TypeOK'
    <2>1. calls' \in [Calls -> {"idle", "closing", "ready", "waiting", "ok", "failed", "retrying"}]
      BY <1>0
    <2>2. backoff' \subseteq {i \in Sockets : tries'[i] > 1 /\ outcome'[i] = "handled"}
      BY <1>0, <1>2, <1>4
    <2>3. /\ link' \in [Sockets -> {"new", "connecting", "connected", "closing", "closed"}]
          /\ outcome' \in [Sockets -> {"pending", "resolved", "rejected", "handled"}]
      BY <1>0
    <2>4. TransportTypeOK' /\ reconnects' \in Nat /\ once' \in BOOLEAN
      BY DEF IInv, TypeOK, TransportTypeOK
    <2> QED
      BY <2>1, <2>2, <2>3, <2>4 DEF IInv, TypeOK
  <1>6. OutcomesFollowLinks' /\ SocketWasConnected' /\ ConnectedHasSocket' /\ PromisesAreLive'
    BY <1>0, <1>1, <1>2, <1>4 DEF IInv, OutcomesFollowLinks, SocketWasConnected,
                                  ConnectedHasSocket, PromisesAreLive
  <1>7. ASSUME env.calm
        PROVE  /\ Quiet /\ \A i \in Sockets : Engaged(i) => i = k
               /\ state # "connected"
               /\ \A d \in Calls : calls[d] \notin {"ready", "closing"}
    <2>1. Quiet /\ \A i \in Sockets : Engaged(i) => i = k
      BY <1>7 DEF IInv, AttemptsAreQuiet, OneEngaged, Engaged
    <2>2. state # "connected"
      BY <1>7, CalmConnected
    <2>3. Engaged(k)
      BY DEF Engaged
    <2> QED
      BY <1>7, <2>1, <2>2, <2>3 DEF IInv, CallsTakeTurns, ReadyCallsAreAlone, ClosingCallsListen
  <1>8. OneEngaged' /\ OnlyTheSocket' /\ AttemptsAreQuiet'
    BY <1>0, <1>1, <1>2, <1>7 DEF OneEngaged, OnlyTheSocket, AttemptsAreQuiet, Engaged, Quiet
  <1>9. CallsTakeTurns'
    <2>1. ReadyCallsAreAlone' /\ ClosingCallsListen'
      BY <1>0, <1>3, <1>7 DEF ReadyCallsAreAlone, ClosingCallsListen
    <2>2. ListenersAreClosing'
      BY <1>0, <1>7 DEF IInv, CallsTakeTurns, ListenersAreClosing
    <2>3. NothingBeforeCalls'
      BY <1>0, <1>3 DEF IInv, CallsTakeTurns, NothingBeforeCalls
    <2> QED
      BY <2>1, <2>2, <2>3 DEF CallsTakeTurns
  <1>10. NoRetryIsLeft' /\ ClosedForgets'
    BY <1>0, <1>1, <1>2, <1>7 DEF IInv, NoRetryIsLeft, ClosedForgets, Engaged
  <1> QED
    BY <1>5, <1>6, <1>8, <1>9, <1>10 DEF IInv

\* The 'error' message: the attempt closes, and its promise is rejected.
LEMMA RefusedKeepsIInv ==
    ASSUME IInv, NEW k \in Sockets, Refused(k) PROVE IInv'
  <1> USE TypeFacts DEF Refused, transportVars
  <1>0. TypeOK /\ None \notin Sockets
    BY DEF IInv
  <1>1. \A i \in Sockets : link'[i] = IF i = k THEN "closing" ELSE link[i]
    BY <1>0 DEF Closing
  <1>2. \A i \in Sockets : outcome'[i] = IF i = k THEN "rejected" ELSE outcome[i]
    BY <1>0
  <1>3. outcome[k] = "pending" /\ socket # k /\ k \notin backoff
    BY <1>0 DEF IInv, OutcomesFollowLinks, SocketWasConnected
  <1>4. TypeOK'
    <2>1. backoff' \subseteq {i \in Sockets : tries'[i] > 1 /\ outcome'[i] = "handled"}
      BY <1>0, <1>2, <1>3
    <2>2. /\ link' \in [Sockets -> {"new", "connecting", "connected", "closing", "closed"}]
          /\ outcome' \in [Sockets -> {"pending", "resolved", "rejected", "handled"}]
      BY <1>0 DEF Closing
    <2> QED
      BY <2>1, <2>2 DEF IInv, TypeOK, TransportTypeOK
  <1>5. OutcomesFollowLinks' /\ SocketWasConnected' /\ ConnectedHasSocket' /\ PromisesAreLive'
    BY <1>0, <1>1, <1>2, <1>3 DEF IInv, OutcomesFollowLinks, SocketWasConnected,
                                  ConnectedHasSocket, PromisesAreLive
  <1>6. ASSUME env.calm
        PROVE  /\ \A i \in Sockets : Engaged(i) <=> i = k
               /\ state # "connected"
               /\ \A d \in Calls : calls[d] \notin {"ready", "closing"}
    <2>1. Engaged(k)
      BY DEF Engaged
    <2>2. state # "connected"
      BY <1>6, CalmConnected
    <2> QED
      BY <1>6, <2>1, <2>2 DEF IInv, OneEngaged, CallsTakeTurns, ReadyCallsAreAlone,
                              ClosingCallsListen
  <1>7. OneEngaged' /\ OnlyTheSocket' /\ AttemptsAreQuiet'
    BY <1>0, <1>1, <1>2, <1>6 DEF OneEngaged, OnlyTheSocket, AttemptsAreQuiet, Engaged
  <1>8. CallsTakeTurns'
    <2>1. ReadyCallsAreAlone' /\ ClosingCallsListen'
      BY <1>0, <1>6 DEF ReadyCallsAreAlone, ClosingCallsListen
    <2>2. ListenersAreClosing' /\ NothingBeforeCalls'
      BY <1>0, <1>6 DEF IInv, CallsTakeTurns, ListenersAreClosing, NothingBeforeCalls
    <2> QED
      BY <2>1, <2>2 DEF CallsTakeTurns
  <1>9. NoRetryIsLeft' /\ ClosedForgets'
    <2>1. NoRetryIsLeft'
      BY <1>0, <1>1, <1>2 DEF IInv, NoRetryIsLeft
    <2> QED
      BY <2>1, <1>0, <1>1 DEF IInv, ClosedForgets
  <1> QED
    BY <1>4, <1>5, <1>7, <1>8, <1>9 DEF IInv

\* A socket closes, with or without an 'error' before it.
DropOutcome(k) ==
    \/ outcome' = outcome
    \/ /\ link[k] # "closing"
       /\ outcome' = [outcome EXCEPT ![k] =
                        IF state = "connecting" /\ @ = "pending" THEN "rejected" ELSE @]

LEMMA DropKeepsIInv ==
    ASSUME IInv, SomebodyListens, NEW k \in Sockets, MayDrop(k), CountDrop(k), DropOutcome(k),
           CloseHandler(k, [link EXCEPT ![k] = "closed"]),
           UNCHANGED <<retry, once, backoff, reconnects, closed, refused, gaveUp, env>>
    PROVE  IInv'
  <1> USE TypeFacts
  <1>0. TypeOK /\ None \notin Sockets /\ None \notin Calls /\ "own" \notin Calls
    BY DEF IInv
  <1>a. link[k] \in {"connecting", "connected", "closing"}
    BY DEF MayDrop
  \* Who makes a new socket, and from what.
  <1>b. \/ \E j \in Sockets :
             /\ retry /\ listener[k] = "own" /\ state = "connected"
             /\ link[j] = "new" /\ j # k
             /\ \A i \in Sockets : link'[i] = IF i = j THEN "connecting"
                                              ELSE IF i = k THEN "closed" ELSE link[i]
             /\ \A i \in Sockets : tries'[i] = IF i = j THEN MaxRetries ELSE tries[i]
             /\ state' = "connecting" /\ socket' = None
             /\ calls' = calls /\ listener' = listener
        \/ /\ \A i \in Sockets : link'[i] = IF i = k THEN "closed" ELSE link[i]
           /\ tries' = tries
           /\ \/ /\ listener[k] \in Calls /\ state' = "connecting" /\ socket' = socket
                 /\ calls' = [calls EXCEPT ![listener[k]] = "ready"]
                 /\ socket # None /\ listener' = [listener EXCEPT ![socket] = None]
              \/ /\ listener[k] = "own" /\ calls' = calls /\ listener' = listener
                 /\ \/ state = "connected" /\ state' = "disconnected" /\ socket' = None
                    \/ state # "connected" /\ state' = state /\ socket' = socket
              \/ /\ listener[k] = None \/ (listener[k] \in Calls /\ socket = None)
                 /\ calls' = calls /\ listener' = listener /\ state' = state /\ socket' = socket
    <2>1. CASE listener[k] \in Calls \/ listener[k] = None
      BY <1>0, <2>1 DEF CloseHandler, CallHears, AttemptHears
    <2>2. CASE listener[k] = "own" /\ state # "connected"
      BY <1>0, <2>2 DEF CloseHandler, CallHears, AttemptHears
    <2>3. CASE listener[k] = "own" /\ state = "connected" /\ ~ retry
      BY <1>0, <2>3 DEF CloseHandler, CallHears, AttemptHears, Reconnect
    <2>4. CASE listener[k] = "own" /\ state = "connected" /\ retry
      <3>1. /\ Attempt([link EXCEPT ![k] = "closed"], MaxRetries, None)
            /\ socket' = None /\ calls' = calls /\ listener' = listener
        BY <1>0, <2>4 DEF CloseHandler, CallHears, AttemptHears, Reconnect
      <3>2. PICK l \in [Sockets -> {"new", "connecting", "connected", "closing", "closed"}] :
                l = [link EXCEPT ![k] = "closed"]
        BY <1>0
      <3>3. Attempt(l, MaxRetries, None) /\ MaxRetries \in 0..MaxRetries
        BY <3>1, <3>2
      <3>4. PICK j \in Sockets :
                /\ link[j] = "new"
                /\ \A i \in Sockets : link'[i] = IF i = j THEN "connecting" ELSE l[i]
                /\ \A i \in Sockets : tries'[i] = IF i = j THEN MaxRetries ELSE tries[i]
        BY <1>0, <3>3, AttemptFacts
      <3>5. state' = "connecting"
        BY <1>0, <3>3, AttemptFacts
      <3>6. \A i \in Sockets : l[i] = IF i = k THEN "closed" ELSE link[i]
        BY <1>0, <3>2
      <3>7. \A i \in Sockets : link'[i] = IF i = j THEN "connecting"
                                          ELSE IF i = k THEN "closed" ELSE link[i]
        BY <3>4, <3>6
      <3>8. j # k
        BY <1>a, <3>4
      <3> QED
        BY <2>4, <3>1, <3>4, <3>5, <3>7, <3>8
    <2> QED
      BY <1>0, <2>1, <2>2, <2>3, <2>4
  <1>e. env.calm => listener[k] # None /\ (listener[k] \in Calls => k = socket)
    BY <1>a DEF SomebodyListens, IInv, CallsTakeTurns, ListenersAreClosing
  <1>c. \A i \in Sockets :
            \/ outcome'[i] = outcome[i]
            \/ i = k /\ outcome[i] = "pending" /\ outcome'[i] = "rejected"
               /\ state = "connecting" /\ link[k] # "closing"
    BY <1>0 DEF DropOutcome
  <1>d. k \notin backoff \/ link[k] = "closing"
    BY <1>0, <1>a DEF IInv, OutcomesFollowLinks
  <1>4. TypeOK'
    <2>1. /\ link' \in [Sockets -> {"new", "connecting", "connected", "closing", "closed"}]
          /\ tries' \in [Sockets -> 0..MaxRetries]
          /\ caller' \in [Sockets -> Calls \cup {None}]
      <3>1. [link EXCEPT ![k] = "closed"]
                  \in [Sockets -> {"new", "connecting", "connected", "closing", "closed"}]
            /\ MaxRetries \in 0..MaxRetries
        BY <1>0
      <3>2. CASE Attempt([link EXCEPT ![k] = "closed"], MaxRetries, None)
        BY <1>0, <3>1, <3>2, AttemptFacts
      <3>3. CASE link' = [link EXCEPT ![k] = "closed"] /\ UNCHANGED <<tries, caller>>
        BY <1>0, <3>1, <3>3
      <3> QED
        BY <3>2, <3>3 DEF CloseHandler, CallHears, AttemptHears, Reconnect
    <2>2. outcome' \in [Sockets -> {"pending", "resolved", "rejected", "handled"}]
      BY <1>0 DEF DropOutcome
    <2>3. /\ calls' \in [Calls -> {"idle", "closing", "ready", "waiting", "ok", "failed", "retrying"}]
          /\ listener' \in [Sockets -> {"own", None} \cup Calls]
      BY <1>0, <1>b
    <2>4. backoff' \subseteq {i \in Sockets : tries'[i] > 1 /\ outcome'[i] = "handled"}
      <3>1. \A i \in backoff : outcome'[i] = "handled"
        BY <1>0, <1>c
      <3>2. \A i \in backoff : link[i] # "new"
        BY <1>0 DEF IInv, OutcomesFollowLinks
      <3>3. \A i \in backoff : tries'[i] = tries[i]
        BY <1>0, <1>b, <3>2
      <3> QED
        BY <1>0, <3>1, <3>3
    <2>5. TransportTypeOK'
      <3>1. CASE OnClose
        BY <1>0, <3>1 DEF OnClose, TypeOK, TransportTypeOK
      <3>2. CASE UNCHANGED transportVars
        BY <1>0, <3>2 DEF transportVars, TypeOK, TransportTypeOK
      <3> QED
        BY <3>1, <3>2 DEF CloseHandler, CallHears, AttemptHears
    <2>6. drops' \in 0..MaxDrops
      BY <1>0 DEF MayDrop, CountDrop, TypeOK
    <2>7. socket' \in Sockets \cup {None}
          /\ state' \in {"disconnected", "connecting", "connected"}
      BY <1>0, <1>b DEF TypeOK
    <2> QED
      BY <1>0, <2>1, <2>2, <2>3, <2>4, <2>5, <2>6, <2>7 DEF TypeOK
  <1>5. OutcomesFollowLinks'
    BY <1>0, <1>b, <1>c DEF IInv, OutcomesFollowLinks
  <1>6. SocketWasConnected' /\ ConnectedHasSocket'
    <2>1. socket # None => outcome'[socket] = "resolved"
      BY <1>0, <1>c DEF IInv, SocketWasConnected
    <2>2. socket' = None \/ (socket' = socket /\ \A i \in Sockets :
              link'[i] = IF i = k THEN "closed" ELSE link[i])
      BY <1>b
    <2>3. state' = "connected" => state = "connected" /\ socket' = socket /\ k # socket
      BY <1>0, <1>b DEF SomebodyListens, IInv, ConnectedHasSocket
    <2> QED
      BY <1>0, <2>1, <2>2, <2>3 DEF IInv, SocketWasConnected, ConnectedHasSocket
  <1>7. PromisesAreLive'
    <2>1. env.calm => promise' = None /\ timers' = timers
      BY <1>0, <1>e DEF CloseHandler, CallHears, AttemptHears, OnClose
    <2>2. ~ env.quick => k \notin timers
      BY DEF MayDrop
    <2>3. \A i \in Sockets \ {k} : link[i] \in {"connected", "closing"} => link'[i] = link[i]
      BY <1>0, <1>b
    <2> QED
      BY <1>0, <2>1, <2>2, <2>3 DEF IInv, PromisesAreLive
  <1>8. CASE ~ env.calm
    <2>1. /\ OneEngaged' /\ OnlyTheSocket' /\ AttemptsAreQuiet' /\ CallsTakeTurns'
          /\ NoRetryIsLeft' /\ ClosedForgets'
      BY <1>8 DEF OneEngaged, OnlyTheSocket, AttemptsAreQuiet, CallsTakeTurns,
                  ReadyCallsAreAlone, ClosingCallsListen, ListenersAreClosing,
                  NothingBeforeCalls, NoRetryIsLeft, ClosedForgets
    <2> QED
      BY <1>4, <1>5, <1>6, <1>7, <2>1 DEF IInv
  \* In a calm client only this.socket drops while connected.
  <1>9. CASE env.calm /\ state = "connected"
    <2>1. /\ k = socket /\ backoff = {}
          /\ \A i \in Sockets : /\ outcome[i] # "rejected" /\ link[i] # "connecting"
                                /\ i # k => link[i] \in {"new", "closed"}
          /\ \A c \in Calls : calls[c] # "ready"
      BY <1>0, <1>9, <1>a, CalmConnected
    <2>2. outcome' = outcome /\ state' # "connected"
      BY <1>0, <1>9, <1>b, <1>e DEF DropOutcome
    <2>3. Quiet'
      BY <1>b, <2>1 DEF Quiet
    <2>4. OneEngaged' /\ OnlyTheSocket' /\ AttemptsAreQuiet'
      <3>1. \A i, j \in Sockets : link'[i] \in {"connecting", "connected"}
                /\ link'[j] \in {"connecting", "connected"} => i = j
        BY <1>b, <2>1
      <3> QED
        BY <2>1, <2>2, <2>3, <3>1 DEF OneEngaged, OnlyTheSocket, AttemptsAreQuiet, Engaged
    <2>5. NothingBeforeCalls'
      <3>1. \A d \in Calls : calls'[d] = calls[d] \/ calls'[d] = "ready"
        BY <1>0, <1>b
      <3> QED
        BY <1>0, <1>9, <3>1 DEF IInv, CallsTakeTurns, NothingBeforeCalls
    <2>6. ReadyCallsAreAlone' /\ ClosingCallsListen' /\ ListenersAreClosing'
      <3>1. CASE listener[k] \in Calls
        <4>1. /\ \A d \in Calls : calls'[d] = IF d = listener[k] THEN "ready" ELSE calls[d]
              /\ \A i \in Sockets : listener'[i] = IF i = k THEN None ELSE listener[i]
              /\ \A i \in Sockets : link'[i] = IF i = k THEN "closed" ELSE link[i]
          BY <1>0, <1>9, <1>b, <1>e, <3>1
        <4>2. \A d \in Calls : calls[d] = "closing" => d = listener[k]
          BY <1>9, <2>1 DEF IInv, CallsTakeTurns, ClosingCallsListen
        <4>3. \A i \in Sockets : listener[i] \in Calls => i = k
          BY <1>9, <2>1 DEF IInv, CallsTakeTurns, ListenersAreClosing
        <4>4. \A i \in Sockets : ~ Engaged(i)'
          BY <2>1, <2>2, <4>1 DEF Engaged
        <4>5. ReadyCallsAreAlone'
          BY <2>1, <2>2, <2>3, <4>1, <4>4 DEF ReadyCallsAreAlone
        <4>6. ClosingCallsListen'
          BY <4>1, <4>2 DEF ClosingCallsListen
        <4>7. ListenersAreClosing'
          BY <1>0, <4>1, <4>3 DEF ListenersAreClosing
        <4> QED
          BY <4>5, <4>6, <4>7
      <3>2. CASE listener[k] \notin Calls
        <4>1. calls' = calls /\ listener' = listener
          BY <1>b, <3>2
        <4>2. \A d \in Calls : calls[d] # "closing"
          BY <1>9, <2>1, <3>2 DEF IInv, CallsTakeTurns, ClosingCallsListen
        <4>3. \A i \in Sockets : listener[i] \notin Calls
          BY <1>9, <2>1, <3>2 DEF IInv, CallsTakeTurns, ListenersAreClosing
        <4> QED
          BY <2>1, <4>1, <4>2, <4>3
             DEF ReadyCallsAreAlone, ClosingCallsListen, ListenersAreClosing
      <3> QED
        BY <3>1, <3>2
    <2>7. NoRetryIsLeft' /\ ClosedForgets'
      <3>1. ASSUME closed
            PROVE  ~ retry /\ \A i \in Sockets : link'[i] # "connecting"
        <4>1. ~ retry
          BY <1>9, <3>1 DEF IInv, NoRetryIsLeft
        <4> QED
          BY <1>b, <2>1, <4>1
      <3> QED
        BY <2>1, <2>2, <3>1 DEF NoRetryIsLeft, ClosedForgets
    <2> QED
      BY <1>4, <1>5, <1>6, <1>7, <2>4, <2>5, <2>6, <2>7 DEF IInv, CallsTakeTurns
  \* Otherwise nobody takes notice, except the promise of the attempt.
  <1>10. CASE env.calm /\ state # "connected"
    <2>1. listener[k] \notin Calls
      BY <1>10 DEF IInv, CallsTakeTurns, ListenersAreClosing, ClosingCallsListen
    <2>2. /\ \A i \in Sockets : link'[i] = IF i = k THEN "closed" ELSE link[i]
          /\ UNCHANGED <<tries, calls, listener, state, socket>>
      BY <1>b, <1>10, <2>1
    <2>3. \A i \in Sockets : Engaged(i)' => Engaged(i)
      <3>1. \A i \in Sockets : outcome'[i] # outcome[i] => i = k /\ link[k] # "closing"
        BY <1>c
      <3> QED
        BY <1>a, <2>2, <3>1 DEF Engaged
    <2>4. OneEngaged' /\ OnlyTheSocket'
      BY <1>10, <2>2, <2>3 DEF IInv, OneEngaged, OnlyTheSocket
    <2>5. AttemptsAreQuiet'
      <3>1. Quiet => Quiet'
        BY <2>2 DEF Quiet
      <3>2. link[k] = "connecting" => Quiet
        BY <1>10 DEF IInv, AttemptsAreQuiet
      <3>3. \A i \in Sockets : outcome'[i] = "rejected" =>
                outcome[i] = "rejected" \/ link[k] = "connecting"
        BY <1>0, <1>a, <1>c DEF IInv, OutcomesFollowLinks
      <3> QED
        BY <1>10, <2>2, <3>1, <3>2, <3>3 DEF IInv, AttemptsAreQuiet
    <2>6. CallsTakeTurns'
      <3>1. ReadyCallsAreAlone'
        BY <1>10, <2>2, <2>3 DEF IInv, CallsTakeTurns, ReadyCallsAreAlone, Quiet
      <3>2. ClosingCallsListen' /\ ListenersAreClosing'
        BY <1>10, <2>2 DEF IInv, CallsTakeTurns, ClosingCallsListen, ListenersAreClosing
      <3>3. NothingBeforeCalls'
        BY <1>10, <1>a, <2>2 DEF IInv, CallsTakeTurns, NothingBeforeCalls
      <3> QED
        BY <3>1, <3>2, <3>3 DEF CallsTakeTurns
    <2>7. NoRetryIsLeft' /\ ClosedForgets'
      <3>1. \A i \in Sockets : outcome'[i] = "rejected" =>
                outcome[i] = "rejected" \/ link[i] = "connecting"
        BY <1>0, <1>a, <1>c DEF IInv, OutcomesFollowLinks
      <3> QED
        BY <1>10, <2>2, <3>1 DEF IInv, NoRetryIsLeft, ClosedForgets
    <2> QED
      BY <1>4, <1>5, <1>6, <1>7, <2>4, <2>5, <2>6, <2>7 DEF IInv
  <1> QED
    BY <1>8, <1>9, <1>10, <1>0

\* The catch of connect(): the first try of a backoff, unless none may follow.
LEMMA ConnectFailedKeepsIInv ==
    ASSUME IInv, NEW k \in Sockets, ConnectFailed(k) PROVE IInv'
  <1> USE TypeFacts DEF ConnectFailed, transportVars
  <1>0. TypeOK /\ None \notin Sockets
    BY DEF IInv
  <1>1. \/ \E j \in Sockets :
             /\ retry /\ link[j] = "new"
             /\ \A i \in Sockets : link'[i] = IF i = j THEN "connecting" ELSE link[i]
             /\ \A i \in Sockets : tries'[i] = IF i = j THEN MaxRetries ELSE tries[i]
             /\ state' = "connecting"
        \/ link' = link /\ tries' = tries /\ state' = state
    <2>1. CASE retry
      <3>1. Attempt(link, MaxRetries, None) /\ MaxRetries \in 0..MaxRetries
        BY <2>1 DEF Reconnect
      <3> QED
        BY <1>0, <2>1, <3>1, AttemptFacts
    <2>2. CASE ~ retry
      BY <2>2 DEF Reconnect
    <2> QED
      BY <2>1, <2>2
  <1>2. \A i \in Sockets : outcome'[i] = IF i = k THEN "handled" ELSE outcome[i]
    BY <1>0
  <1>3. \A d \in Calls : calls'[d] \in {calls[d], "retrying", "failed"}
    BY <1>0
  <1>4. link[k] \in {"closing", "closed"} /\ socket # k /\ k \notin backoff
    BY <1>0 DEF IInv, OutcomesFollowLinks, SocketWasConnected
  <1>5. TypeOK'
    <2>1. /\ link' \in [Sockets -> {"new", "connecting", "connected", "closing", "closed"}]
          /\ tries' \in [Sockets -> 0..MaxRetries]
          /\ caller' \in [Sockets -> Calls \cup {None}]
      <3>1. MaxRetries \in 0..MaxRetries
        OBVIOUS
      <3>2. CASE Attempt(link, MaxRetries, None)
        BY <1>0, <3>1, <3>2, AttemptFacts
      <3>3. CASE link' = link /\ UNCHANGED <<tries, caller>>
        BY <1>0, <3>3
      <3> QED
        BY <3>2, <3>3 DEF Reconnect
    <2>2. /\ outcome' \in [Sockets -> {"pending", "resolved", "rejected", "handled"}]
          /\ calls' \in [Calls -> {"idle", "closing", "ready", "waiting", "ok", "failed", "retrying"}]
      BY <1>0
    <2>3. backoff' \subseteq {i \in Sockets : tries'[i] > 1 /\ outcome'[i] = "handled"}
      <3>1. \A i \in backoff : outcome'[i] = "handled"
        BY <1>0, <1>2
      <3>2. \A i \in backoff : link[i] # "new"
        BY <1>0 DEF IInv, OutcomesFollowLinks
      <3>3. \A i \in backoff : tries'[i] = tries[i]
        BY <1>0, <1>1, <3>2
      <3> QED
        BY <1>0, <3>1, <3>3
    <2>4. state' \in {"disconnected", "connecting", "connected"}
      BY <1>0, <1>1 DEF TypeOK
    <2> QED
      BY <1>0, <2>1, <2>2, <2>3, <2>4 DEF TypeOK, TransportTypeOK
  <1>6. OutcomesFollowLinks'
    BY <1>0, <1>1, <1>2, <1>4 DEF IInv, OutcomesFollowLinks
  <1>7. SocketWasConnected' /\ ConnectedHasSocket'
    BY <1>0, <1>1, <1>2, <1>4 DEF IInv, SocketWasConnected, ConnectedHasSocket
  <1>8. PromisesAreLive'
    BY <1>0, <1>1 DEF IInv, PromisesAreLive
  <1>9. ASSUME env.calm
        PROVE  /\ \A i \in Sockets : Engaged(i) => i = k
               /\ state # "connected"
               /\ \A d \in Calls : calls[d] \notin {"ready", "closing"}
               /\ retry => Quiet
    <2>1. Engaged(k)
      BY DEF Engaged
    <2>2. state # "connected"
      BY <1>9, CalmConnected
    <2> QED
      BY <1>9, <2>1, <2>2 DEF IInv, OneEngaged, AttemptsAreQuiet, CallsTakeTurns,
                              ReadyCallsAreAlone, ClosingCallsListen
  <1>10. OneEngaged'
    <2>1. ASSUME env.calm
          PROVE  \A i \in Sockets : /\ i \notin backoff /\ outcome'[i] # "rejected"
                                    /\ link[i] \notin {"connecting", "connected"}
      BY <1>2, <1>4, <1>9, <2>1 DEF Engaged
    <2>2. ASSUME env.calm, NEW i \in Sockets, NEW j \in Sockets, Engaged(i)', Engaged(j)'
          PROVE  i = j
      BY <1>1, <2>1, <2>2 DEF Engaged
    <2> QED
      BY <2>2 DEF OneEngaged
  <1>11. OnlyTheSocket'
    BY <1>1, <1>9 DEF OnlyTheSocket
  <1>12. AttemptsAreQuiet'
    <2>1. CASE link' = link
      BY <1>2, <2>1 DEF IInv, AttemptsAreQuiet, Quiet
    <2>2. CASE retry /\ \E j \in Sockets : \A i \in Sockets :
                            link'[i] = IF i = j THEN "connecting" ELSE link[i]
      BY <1>9, <2>2 DEF AttemptsAreQuiet, Quiet
    <2> QED
      BY <1>1, <2>1, <2>2
  <1>13. CallsTakeTurns'
    <2>1. ReadyCallsAreAlone' /\ ClosingCallsListen'
      BY <1>0, <1>3, <1>9 DEF ReadyCallsAreAlone, ClosingCallsListen
    <2>2. ListenersAreClosing'
      BY <1>0, <1>9 DEF IInv, CallsTakeTurns, ListenersAreClosing
    <2>3. NothingBeforeCalls'
      BY <1>0, <1>3, <1>4 DEF IInv, CallsTakeTurns, NothingBeforeCalls
    <2> QED
      BY <2>1, <2>2, <2>3 DEF CallsTakeTurns
  <1>14. NoRetryIsLeft' /\ ClosedForgets'
    BY <1>0, <1>1, <1>2 DEF IInv, NoRetryIsLeft, ClosedForgets
  <1> QED
    BY <1>5, <1>6, <1>7, <1>8, <1>10, <1>11, <1>12, <1>13, <1>14 DEF IInv

\* The catch of a backoff: it waits, or gives up.
LEMMA TryFailedKeepsIInv ==
    ASSUME IInv, NEW k \in Sockets, TryFailed(k) PROVE IInv'
  <1> USE TypeFacts DEF TryFailed, transportVars
  <1>0. TypeOK /\ None \notin Sockets
    BY DEF IInv
  <1>1. \A i \in Sockets : outcome'[i] = IF i = k THEN "handled" ELSE outcome[i]
    BY <1>0
  <1>2. backoff' \subseteq backoff \cup {k} /\ gaveUp' \in BOOLEAN
    BY <1>0 DEF TypeOK
  <1>3. link[k] \in {"closing", "closed"} /\ socket # k
    BY <1>0 DEF IInv, OutcomesFollowLinks, SocketWasConnected
  <1>4. TypeOK'
    <2>1. outcome' \in [Sockets -> {"pending", "resolved", "rejected", "handled"}]
      BY <1>0
    <2>2. backoff' \subseteq {i \in Sockets : tries'[i] > 1 /\ outcome'[i] = "handled"}
      BY <1>0, <1>1
    <2> QED
      BY <1>0, <1>2, <2>1, <2>2 DEF TypeOK, TransportTypeOK
  <1>5. OutcomesFollowLinks' /\ SocketWasConnected' /\ ConnectedHasSocket' /\ PromisesAreLive'
    BY <1>0, <1>1, <1>3 DEF IInv, OutcomesFollowLinks, SocketWasConnected,
                            ConnectedHasSocket, PromisesAreLive
  <1>6. \A i \in Sockets : Engaged(i)' => Engaged(i)
    BY <1>1, <1>2 DEF Engaged
  <1>7. OneEngaged' /\ OnlyTheSocket' /\ AttemptsAreQuiet'
    BY <1>1, <1>6 DEF IInv, OneEngaged, OnlyTheSocket, AttemptsAreQuiet, Quiet
  <1>8. CallsTakeTurns'
    BY <1>6 DEF IInv, CallsTakeTurns, ReadyCallsAreAlone, ClosingCallsListen,
                ListenersAreClosing, NothingBeforeCalls, Quiet
  <1>9. NoRetryIsLeft' /\ ClosedForgets'
    <2>1. tries[k] # 0
      BY <1>0
    <2>2. NoRetryIsLeft'
      BY <1>0, <1>1, <2>1 DEF IInv, NoRetryIsLeft
    <2> QED
      BY <2>2 DEF IInv, ClosedForgets
  <1> QED
    BY <1>4, <1>5, <1>7, <1>8, <1>9 DEF IInv

\* The timer of a backoff: the attempt takes its place.
LEMMA TryAgainKeepsIInv ==
    ASSUME IInv, NEW k \in Sockets, TryAgain(k) PROVE IInv'
  <1> USE TypeFacts DEF TryAgain, transportVars
  <1>0. TypeOK /\ None \notin Sockets
    BY DEF IInv
  <1>1. Attempt(link, tries[k] - 1, None) /\ tries[k] - 1 \in 0..MaxRetries
    BY <1>0
  <1>2. PICK j \in Sockets :
            /\ link[j] = "new"
            /\ \A i \in Sockets : link'[i] = IF i = j THEN "connecting" ELSE link[i]
            /\ \A i \in Sockets : tries'[i] = IF i = j THEN tries[k] - 1 ELSE tries[i]
    BY <1>0, <1>1, AttemptFacts
  <1>3. /\ state' = "connecting"
        /\ link' \in [Sockets -> {"new", "connecting", "connected", "closing", "closed"}]
        /\ tries' \in [Sockets -> 0..MaxRetries]
        /\ caller' \in [Sockets -> Calls \cup {None}]
    BY <1>0, <1>1, AttemptFacts
  <1>4. outcome[j] = "pending" /\ socket # j /\ link[k] \in {"closing", "closed"}
        /\ outcome[k] = "handled"
    BY <1>0, <1>2 DEF IInv, OutcomesFollowLinks, SocketWasConnected
  <1>5. TypeOK'
    <2>1. backoff' \subseteq {i \in Sockets : tries'[i] > 1 /\ outcome'[i] = "handled"}
      BY <1>0, <1>2, <1>4
    <2> QED
      BY <1>0, <1>3, <2>1 DEF TypeOK, TransportTypeOK
  <1>6. OutcomesFollowLinks' /\ SocketWasConnected' /\ ConnectedHasSocket' /\ PromisesAreLive'
    BY <1>0, <1>2, <1>3, <1>4 DEF IInv, OutcomesFollowLinks, SocketWasConnected,
                                  ConnectedHasSocket, PromisesAreLive
  <1>7. ASSUME env.calm
        PROVE  /\ \A i \in Sockets : Engaged(i) => i = k
               /\ state # "connected"
               /\ \A d \in Calls : calls[d] \notin {"ready", "closing"}
    <2>1. Engaged(k)
      BY DEF Engaged
    <2>2. state # "connected"
      BY <1>7, CalmConnected
    <2> QED
      BY <1>7, <2>1, <2>2 DEF IInv, OneEngaged, CallsTakeTurns, ReadyCallsAreAlone,
                              ClosingCallsListen
  <1>8. OneEngaged' /\ OnlyTheSocket'
    BY <1>0, <1>2, <1>3, <1>4, <1>7 DEF OneEngaged, OnlyTheSocket, Engaged
  <1>9. AttemptsAreQuiet'
    BY <1>2 DEF AttemptsAreQuiet, Quiet
  <1>10. CallsTakeTurns'
    <2>1. ReadyCallsAreAlone' /\ ClosingCallsListen'
      BY <1>0, <1>7 DEF ReadyCallsAreAlone, ClosingCallsListen
    <2>2. ListenersAreClosing' /\ NothingBeforeCalls'
      BY <1>0, <1>4, <1>7 DEF IInv, CallsTakeTurns, ListenersAreClosing, NothingBeforeCalls
    <2> QED
      BY <2>1, <2>2 DEF CallsTakeTurns
  <1>11. NoRetryIsLeft' /\ ClosedForgets'
    BY <1>0 DEF IInv, NoRetryIsLeft, ClosedForgets
  <1> QED
    BY <1>5, <1>6, <1>8, <1>9, <1>10, <1>11 DEF IInv

\* close(): in a calm client, of an established connection.
LEMMA AppCloseKeepsIInv == ASSUME IInv, AppClose PROVE IInv'
  <1> USE TypeFacts DEF AppClose, transportVars
  <1>0. TypeOK /\ None \notin Sockets
    BY DEF IInv
  <1>1. \A i \in Sockets :
            link'[i] = IF i = socket /\ link[i] \in {"connecting", "connected"}
                       THEN "closing" ELSE link[i]
    BY <1>0 DEF Closing
  <1>2. TypeOK'
    <2>1. link' \in [Sockets -> {"new", "connecting", "connected", "closing", "closed"}]
      BY <1>0 DEF Closing
    <2> QED
      BY <1>0, <2>1 DEF TypeOK, TransportTypeOK
  <1>3. OutcomesFollowLinks' /\ SocketWasConnected' /\ ConnectedHasSocket' /\ PromisesAreLive'
    BY <1>0, <1>1 DEF IInv, OutcomesFollowLinks, SocketWasConnected, ConnectedHasSocket,
                      PromisesAreLive
  <1>4. CASE ~ env.calm
    BY <1>2, <1>3, <1>4
       DEF IInv, OneEngaged, OnlyTheSocket, AttemptsAreQuiet, CallsTakeTurns,
           ReadyCallsAreAlone, ClosingCallsListen, ListenersAreClosing,
           NothingBeforeCalls, NoRetryIsLeft, ClosedForgets
  <1>5. CASE env.calm
    <2>1. /\ state = "connected" /\ \A c \in Calls : calls[c] \notin {"closing", "ready"}
          /\ backoff = {}
          /\ \A i \in Sockets : /\ outcome[i] # "rejected" /\ link[i] # "connecting"
                                /\ link[i] \in {"connected", "closing"} => i = socket
      BY <1>5, CalmConnected DEF Settled
    <2>2. OneEngaged' /\ OnlyTheSocket' /\ AttemptsAreQuiet'
      BY <1>1, <2>1 DEF OneEngaged, OnlyTheSocket, AttemptsAreQuiet, Engaged
    <2>3. CallsTakeTurns'
      BY <1>5, <2>1 DEF IInv, CallsTakeTurns, ReadyCallsAreAlone, ClosingCallsListen,
                        ListenersAreClosing, NothingBeforeCalls
    <2>4. NoRetryIsLeft' /\ ClosedForgets'
      BY <1>1, <2>1 DEF NoRetryIsLeft, ClosedForgets
    <2> QED
      BY <1>2, <1>3, <2>2, <2>3, <2>4 DEF IInv
  <1> QED
    BY <1>0, <1>4, <1>5

\* Sending and the 250 ms timer concern the promise alone.
LEMMA TransportKeepsIInv ==
    ASSUME IInv, UNCHANGED socketVars,
           \/ UNCHANGED transportVars
           \/ \E k \in Sockets : Resolve(k, Open)
           \/ \E m \in Messages : Send(m, Open)
    PROVE  IInv'
  <1> USE TypeFacts DEF socketVars, transportVars
  <1>0. TypeOK
    BY DEF IInv
  <1>1. TypeOK'
    <2>1. TransportTypeOK'
      <3>1. CASE UNCHANGED transportVars
        BY <1>0, <3>1 DEF TypeOK, TransportTypeOK
      <3>2. ASSUME NEW k \in Sockets, Resolve(k, Open) PROVE TransportTypeOK'
        BY <1>0, <3>2 DEF TypeOK, TransportTypeOK, Resolve, Handed
      <3>3. ASSUME NEW m \in Messages, Send(m, Open) PROVE TransportTypeOK'
        BY <1>0, <3>3 DEF TypeOK, TransportTypeOK, Send, Handed
      <3> QED
        BY <3>1, <3>2, <3>3
    <2> QED
      BY <1>0, <2>1 DEF TypeOK
  <1>2. timers' \subseteq timers /\ promise' \in {promise} \cup timers
    BY DEF Resolve, Send
  <1>3. PromisesAreLive'
    BY <1>0, <1>2 DEF IInv, PromisesAreLive
  <1> QED
    BY <1>1, <1>3
       DEF IInv, OutcomesFollowLinks, SocketWasConnected, ConnectedHasSocket, OneEngaged,
           OnlyTheSocket, AttemptsAreQuiet, CallsTakeTurns, ReadyCallsAreAlone,
           ClosingCallsListen, ListenersAreClosing, NothingBeforeCalls, NoRetryIsLeft,
           ClosedForgets, Engaged, Quiet

LEMMA NextIInv == IInv /\ SomebodyListens /\ [Next]_vars => IInv'
  <1> SUFFICES ASSUME IInv, SomebodyListens, [Next]_vars PROVE IInv'
    OBVIOUS
  <1>1. ASSUME NEW c \in Calls, Connect(c) PROVE IInv'
    BY <1>1, ConnectKeepsIInv
  <1>2. ASSUME NEW c \in Calls, DoConnect(c) PROVE IInv'
    BY <1>2, DoConnectKeepsIInv
  <1>3. ASSUME NEW k \in Sockets, Connected(k) PROVE IInv'
    BY <1>3, ConnectedKeepsIInv
  <1>4. ASSUME NEW k \in Sockets, Refused(k) PROVE IInv'
    BY <1>4, RefusedKeepsIInv
  <1>5. ASSUME NEW k \in Sockets, Close(k) PROVE IInv'
    <2>1. /\ MayDrop(k) /\ CountDrop(k) /\ outcome' = outcome
          /\ CloseHandler(k, [link EXCEPT ![k] = "closed"])
          /\ UNCHANGED <<retry, once, backoff, reconnects, closed, refused, gaveUp, env>>
      BY <1>5 DEF Close
    <2>2. DropOutcome(k)
      BY <2>1 DEF DropOutcome
    <2> QED
      BY <2>1, <2>2, DropKeepsIInv
  <1>6. ASSUME NEW k \in Sockets, Fail(k) PROVE IInv'
    <2>1. /\ MayDrop(k) /\ CountDrop(k)
          /\ CloseHandler(k, [link EXCEPT ![k] = "closed"])
          /\ UNCHANGED <<retry, once, backoff, reconnects, closed, refused, gaveUp, env>>
      BY <1>6 DEF Fail
    <2>2. DropOutcome(k)
      BY <1>6 DEF Fail, DropOutcome
    <2> QED
      BY <2>1, <2>2, DropKeepsIInv
  <1>7. ASSUME NEW k \in Sockets, ConnectFailed(k) PROVE IInv'
    BY <1>7, ConnectFailedKeepsIInv
  <1>8. ASSUME NEW k \in Sockets, TryFailed(k) PROVE IInv'
    BY <1>8, TryFailedKeepsIInv
  <1>9. ASSUME NEW k \in Sockets, TryAgain(k) PROVE IInv'
    BY <1>9, TryAgainKeepsIInv
  <1>10. CASE AppClose
    BY <1>10, AppCloseKeepsIInv
  <1>11. ASSUME NEW k \in Sockets, Settle(k) PROVE IInv'
    BY <1>11, TransportKeepsIInv DEF Settle
  <1>12. ASSUME NEW m \in Messages, SendMessage(m) PROVE IInv'
    BY <1>12, TransportKeepsIInv DEF SendMessage
  <1>13. CASE UNCHANGED vars
    <2>1. UNCHANGED socketVars /\ UNCHANGED transportVars
      BY <1>13 DEF vars
    <2> QED
      BY <2>1, TransportKeepsIInv
  <1> QED
    BY <1>1, <1>2, <1>3, <1>4, <1>5, <1>6, <1>7, <1>8, <1>9, <1>10, <1>11, <1>12, <1>13
       DEF Next

\* A step that makes sockets, or moves one from its handshake, with the listeners
\* and this.socket as they were.
LEMMA ListenersKept ==
    ASSUME SomebodyListens, listener' = listener, env' = env,
           state' = "connected" => state = "connected" /\ socket' = socket,
           \A k \in Sockets :
              /\ link[k] = "closed" => link'[k] = "closed"
              /\ link'[k] \in {"new", "connecting"} => link[k] \in {"new", "connecting"}
    PROVE  SomebodyListens'
  BY DEF SomebodyListens

LEMMA DropKeepsListeners ==
    ASSUME IInv, SomebodyListens, NEW k \in Sockets, MayDrop(k),
           CloseHandler(k, [link EXCEPT ![k] = "closed"]), env' = env
    PROVE  SomebodyListens'
  <1> USE TypeFacts
  <1>0. TypeOK /\ None \notin Sockets
    BY DEF IInv
  <1>1. CASE CallHears(k, [link EXCEPT ![k] = "closed"]) /\ socket # None
    <2>1. /\ \A i \in Sockets : link'[i] = IF i = k THEN "closed" ELSE link[i]
          /\ \A i \in Sockets : listener'[i] = IF i = socket THEN None ELSE listener[i]
          /\ state' = "connecting" /\ socket' = socket
      BY <1>0, <1>1 DEF CallHears
    <2>2. link[socket] \notin {"new", "connecting"}
      BY <1>1 DEF IInv, SocketWasConnected
    <2>3. env.calm => k = socket
      BY <1>1 DEF CallHears, IInv, CallsTakeTurns, ListenersAreClosing
    <2> QED
      BY <2>1, <2>2, <2>3 DEF SomebodyListens
  <1>2. CASE /\ link' = [link EXCEPT ![k] = "closed"] /\ listener' = listener
             /\ socket' = socket /\ state' = state
    <2>1. \A i \in Sockets : link'[i] = IF i = k THEN "closed" ELSE link[i]
      BY <1>0, <1>2
    <2> QED
      BY <1>2, <2>1, ListenersKept
  <1>3. CASE AttemptHears(k, [link EXCEPT ![k] = "closed"]) /\ state = "connected"
    <2>1. PICK l \in [Sockets -> {"new", "connecting", "connected", "closing", "closed"}] :
              l = [link EXCEPT ![k] = "closed"]
      BY <1>0
    <2>2. \A i \in Sockets : l[i] = IF i = k THEN "closed" ELSE link[i]
      BY <1>0, <2>1
    <2>3. listener' = listener
      BY <1>3 DEF AttemptHears
    <2>4. CASE Attempt(l, MaxRetries, None)
      <3>1. MaxRetries \in 0..MaxRetries
        OBVIOUS
      <3>2. PICK j \in Sockets :
                /\ link[j] = "new"
                /\ \A i \in Sockets : link'[i] = IF i = j THEN "connecting" ELSE l[i]
        BY <1>0, <2>4, <3>1, AttemptFacts
      <3>3. state' = "connecting"
        BY <1>0, <2>4, <3>1, AttemptFacts
      <3> QED
        BY <2>2, <2>3, <3>2, <3>3, ListenersKept
    <2>5. CASE link' = l /\ state' = "disconnected"
      BY <2>2, <2>3, <2>5, ListenersKept
    <2> QED
      BY <1>3, <2>1, <2>4, <2>5 DEF AttemptHears, Reconnect
  <1> QED
    BY <1>1, <1>2, <1>3 DEF CloseHandler, CallHears, AttemptHears

LEMMA NextListens == IInv /\ SomebodyListens /\ [Next]_vars => SomebodyListens'
  <1> SUFFICES ASSUME IInv, SomebodyListens, [Next]_vars PROVE SomebodyListens'
    OBVIOUS
  <1> USE TypeFacts
  <1>0. TypeOK /\ None \notin Sockets
    BY DEF IInv
  <1>1. ASSUME NEW c \in Calls, Connect(c) PROVE SomebodyListens'
    <2>1. /\ \A i \in Sockets : listener'[i] = IF i = socket THEN c ELSE listener[i]
          /\ \A i \in Sockets :
                link'[i] = link[i] \/ (link[i] \in {"connecting", "connected"} /\ link'[i] = "closing")
          /\ socket' = socket /\ env' = env
          /\ state' = "connected" => state = "connected"
      BY <1>0, <1>1 DEF Connect, Closing
    <2>2. socket # None => link[socket] \notin {"new", "connecting"}
      BY DEF IInv, SocketWasConnected
    <2>3. c # None
      OBVIOUS
    <2>4. state = "connected" => socket \in Sockets
      BY <1>0 DEF IInv, ConnectedHasSocket
    <2>5. \A i \in Sockets : link'[i] \in {"new", "connecting"} => listener'[i] = "own"
      BY <2>1, <2>2 DEF SomebodyListens
    <2>6. state' = "connected" => listener'[socket'] # None
      BY <2>1, <2>3, <2>4
    <2>7. env'.calm => \A i \in Sockets : listener'[i] = None => link'[i] = "closed"
      BY <2>1, <2>3 DEF SomebodyListens
    <2> QED
      BY <2>5, <2>6, <2>7 DEF SomebodyListens
  <1>2. ASSUME NEW c \in Calls, DoConnect(c) PROVE SomebodyListens'
    <2>1. 0 \in 0..MaxRetries /\ Attempt(link, 0, c)
      BY <1>2 DEF DoConnect
    <2>2. PICK j \in Sockets :
              /\ link[j] = "new"
              /\ \A i \in Sockets : link'[i] = IF i = j THEN "connecting" ELSE link[i]
      BY <1>0, <2>1, AttemptFacts
    <2>3. state' = "connecting"
      BY <1>0, <2>1, AttemptFacts
    <2> QED
      BY <1>2, <2>2, <2>3, ListenersKept DEF DoConnect
  <1>3. ASSUME NEW k \in Sockets, Connected(k) PROVE SomebodyListens'
    <2>1. /\ \A i \in Sockets : link'[i] = IF i = k THEN "connected" ELSE link[i]
          /\ link[k] = "connecting" /\ socket' = k /\ listener' = listener /\ env' = env
      BY <1>0, <1>3 DEF Connected
    <2>2. listener[k] = "own" /\ None # "own"
      BY <2>1 DEF SomebodyListens
    <2> QED
      BY <2>1, <2>2 DEF SomebodyListens
  <1>4. ASSUME NEW k \in Sockets, Refused(k) PROVE SomebodyListens'
    <2>1. \A i \in Sockets : link'[i] = IF i = k THEN "closing" ELSE link[i]
      BY <1>0, <1>4 DEF Refused, Closing
    <2> QED
      BY <1>4, <2>1, ListenersKept DEF Refused
  <1>5. ASSUME NEW k \in Sockets, Close(k) \/ Fail(k) PROVE SomebodyListens'
    BY <1>5, DropKeepsListeners DEF Close, Fail
  <1>6. ASSUME NEW k \in Sockets, ConnectFailed(k) PROVE SomebodyListens'
    <2>1. CASE Attempt(link, MaxRetries, None)
      <3>1. MaxRetries \in 0..MaxRetries
        OBVIOUS
      <3>2. PICK j \in Sockets :
                /\ link[j] = "new"
                /\ \A i \in Sockets : link'[i] = IF i = j THEN "connecting" ELSE link[i]
        BY <1>0, <2>1, <3>1, AttemptFacts
      <3>3. state' = "connecting"
        BY <1>0, <2>1, <3>1, AttemptFacts
      <3> QED
        BY <1>6, <3>2, <3>3, ListenersKept DEF ConnectFailed
    <2>2. CASE link' = link /\ state' = state
      BY <1>6, <2>2, ListenersKept DEF ConnectFailed
    <2> QED
      BY <1>6, <2>1, <2>2 DEF ConnectFailed, Reconnect
  <1>7. ASSUME NEW k \in Sockets, TryFailed(k) PROVE SomebodyListens'
    BY <1>7, ListenersKept DEF TryFailed
  <1>8. ASSUME NEW k \in Sockets, TryAgain(k) PROVE SomebodyListens'
    <2>a. tries[k] \in 0..MaxRetries /\ tries[k] > 1
      BY <1>0, <1>8 DEF TryAgain
    <2>1. Attempt(link, tries[k] - 1, None) /\ tries[k] - 1 \in 0..MaxRetries
      BY <2>a, <1>8 DEF TryAgain
    <2>2. PICK j \in Sockets :
              /\ link[j] = "new"
              /\ \A i \in Sockets : link'[i] = IF i = j THEN "connecting" ELSE link[i]
      BY <1>0, <2>1, AttemptFacts
    <2>3. state' = "connecting"
      BY <1>0, <2>1, AttemptFacts
    <2> QED
      BY <1>8, <2>2, <2>3, ListenersKept DEF TryAgain
  <1>9. CASE AppClose
    <2>1. \A i \in Sockets :
              link'[i] = link[i] \/ (link[i] \in {"connecting", "connected"} /\ link'[i] = "closing")
      BY <1>0, <1>9 DEF AppClose, Closing
    <2> QED
      BY <1>9, <2>1, ListenersKept DEF AppClose
  <1>10. CASE UNCHANGED socketVars
    BY <1>10 DEF socketVars, SomebodyListens
  <1> QED
    BY <1>1, <1>2, <1>3, <1>4, <1>5, <1>6, <1>7, <1>8, <1>9, <1>10
       DEF Next, vars, Settle, SendMessage

\* In every state what is engaged, closing or called for is one of these cases.
THEOREM Invariance == Spec => [](IInv /\ SomebodyListens)
  <1>1. Init => IInv /\ SomebodyListens
    BY InitIInv DEF Init, SomebodyListens
  <1>2. IInv /\ SomebodyListens /\ [Next]_vars => (IInv /\ SomebodyListens)'
    BY NextIInv, NextListens
  <1> QED
    BY <1>1, <1>2, PTL DEF Spec

\* The state keeps its shape; a backoff waits for a failure that was handled.
THEOREM TypeCorrect == Spec => []TypeOK
  <1>1. IInv => TypeOK
    BY DEF IInv
  <1> QED
    BY <1>1, Invariance, PTL

\* In any surroundings, a client that says it is connected has a socket that was
\* established and is not closed (ConnectedHasSocket).
THEOREM ConnectedClientsHaveSockets == Spec => []ConnectedHasSocket
  <1>1. IInv => ConnectedHasSocket
    BY DEF IInv
  <1> QED
    BY <1>1, Invariance, PTL

\* In any surroundings, the end of the connection of a client that says it is
\* connected is heard, although listeners are taken off whatever this.socket is
\* at the time (DropIsHeard).
THEOREM DropsAreHeard == Spec => []DropIsHeard
  <1>1. SomebodyListens => DropIsHeard
    BY DEF SomebodyListens, DropIsHeard
  <1> QED
    BY <1>1, Invariance, PTL

-----------------------------------------------------------------------------
LEMMA OneIsEngaged == IInv => OneConnection
  <1> SUFFICES ASSUME IInv, env.calm PROVE OneConnection
    BY DEF OneConnection
  <1> DEFINE Rejected == {k \in Sockets : outcome[k] = "rejected"}
  <1>0. TypeOK
    BY DEF IInv
  <1>1. \A j, k \in Sockets : Engaged(j) /\ Engaged(k) => j = k
    BY DEF IInv, OneEngaged
  <1>2. \A k \in Sockets : Engaged(k) <=> k \in Live \/ k \in backoff \/ k \in Rejected
    BY DEF Engaged, Live
  <1>3. /\ Live \subseteq Sockets /\ backoff \subseteq Sockets /\ Rejected \subseteq Sockets
        /\ \A k \in Sockets : /\ ~ (k \in Live /\ k \in backoff)
                              /\ ~ (k \in Live /\ k \in Rejected)
                              /\ ~ (k \in backoff /\ k \in Rejected)
    BY <1>0, TypeFacts DEF Live, IInv, OutcomesFollowLinks
  <1> HIDE DEF Rejected
  <1>4. CASE Live = {} /\ backoff = {} /\ Rejected = {}
    <2>1. Cardinality(Live) = 0 /\ Cardinality(backoff) = 0 /\ Cardinality(Rejected) = 0
      BY <1>4, FS_EmptySet
    <2> QED
      BY <2>1 DEF OneConnection, Rejected
  <1>5. ASSUME NEW k \in Sockets, Engaged(k) PROVE OneConnection
    <2>1. Live \subseteq {k} /\ backoff \subseteq {k} /\ Rejected \subseteq {k}
      BY <1>1, <1>2, <1>3, <1>5
    <2>2. \/ Live = {k} /\ backoff = {} /\ Rejected = {}
          \/ Live = {} /\ backoff = {k} /\ Rejected = {}
          \/ Live = {} /\ backoff = {} /\ Rejected = {k}
      BY <1>2, <1>3, <1>5, <2>1
    <2>3. Cardinality({}) = 0 /\ Cardinality({k}) = 1
      BY FS_EmptySet, FS_Singleton
    <2>4. Cardinality(Live) + Cardinality(backoff) + Cardinality(Rejected) = 1
      <3>1. CASE Live = {k} /\ backoff = {} /\ Rejected = {}
        BY <2>3, <3>1
      <3>2. CASE Live = {} /\ backoff = {k} /\ Rejected = {}
        BY <2>3, <3>2
      <3>3. CASE Live = {} /\ backoff = {} /\ Rejected = {k}
        BY <2>3, <3>3
      <3> QED
        BY <2>2, <3>1, <3>2, <3>3
    <2> QED
      BY <2>4 DEF OneConnection, Rejected
  <1> QED
    BY <1>2, <1>3, <1>4, <1>5

\* If the application leaves a reconnection alone, the client has one connection,
\* attempt, failure or backoff at a time, however its sockets close and fail and
\* the bridge refuses them (OneConnection).
THEOREM OneConnectionAtATime == Spec => []OneConnection
  <1> QED
    BY Invariance, OneIsEngaged, PTL

LEMMA PromisesLive == IInv => PromiseIsLive
  <1> SUFFICES ASSUME IInv, env.calm, ~ env.quick, promise # None
               PROVE  link[promise] \in {"connected", "closing"}
    BY DEF PromiseIsLive
  <1>1. promise \in Sockets
    BY TypeFacts DEF IInv
  <1> QED
    BY <1>1 DEF IInv, PromisesAreLive

\* What is sent goes to a socket that is not closed, if connections live for
\* 250 ms: no timer of an earlier socket settles the promise (PromiseIsLive).
THEOREM PromisesOutliveTheirTimer == Spec => []PromiseIsLive
  <1> QED
    BY Invariance, PromisesLive, PTL

-----------------------------------------------------------------------------
LEMMA StepStaysClosed ==
    ASSUME IInv, [Next]_vars, env.calm, closed PROVE reconnects' = reconnects
  <1>1. CASE \E k \in Sockets : Connected(k)
    <2>1. PICK k \in Sockets : Connected(k)
      BY <1>1
    <2>2. ~ once
      BY <2>1 DEF Connected, IInv, ClosedForgets
    <2> QED
      BY <2>1, <2>2 DEF Connected
  <1>2. CASE ~ \E k \in Sockets : Connected(k)
    BY <1>2 DEF Next, vars, socketVars, Connect, DoConnect, Refused, Close, Fail,
                ConnectFailed, TryFailed, TryAgain, Settle, AppClose, SendMessage
  <1> QED
    BY <1>1, <1>2

\* A client that was closed while its connection was established does not report
\* that it reconnected, then or later (CalmStaysClosed).
THEOREM ClosedCalmlyStaysClosed == Spec => CalmStaysClosed
  <1>1. IInv /\ [Next]_vars => [env.calm /\ closed => reconnects' = reconnects]_vars
    BY StepStaysClosed
  <1> QED
    BY <1>1, Invariance, PTL DEF Spec, CalmStaysClosed
==============================================================================
