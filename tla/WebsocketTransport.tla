------------------------- MODULE WebsocketTransport -------------------------
(***************************************************************************)
(* packages/transport-socket/src/WebsocketTransport.js, as a client uses it *)
(* (sendingOnly is not set): the promise of a socket that every send waits  *)
(* for.  A new connection settles it after 250 ms, a closed one replaces it *)
(* by a new promise.  What StellarSocket.js calls is an operator here; what *)
(* happens by itself, or because the application sends, is an action.       *)
(***************************************************************************)
EXTENDS Naturals

CONSTANTS
    Sockets,     \* the sockets ever opened
    Messages,    \* what the application sends
    None

ASSUME NoneAssumption == None \notin Sockets

VARIABLES
    promise,     \* what this.socket is settled with; None while it is pending
    timers,      \* sockets whose 250 ms timer is running
    msg          \* msg[m]: unsent, waiting for this.socket, sent, dropped
                 \* (given to a dead socket) or abandoned (its promise was
                 \* replaced before it was settled)

transportVars == <<promise, timers, msg>>

TransportTypeOK ==
    /\ promise \in Sockets \cup {None}
    /\ timers \subseteq Sockets
    /\ msg \in [Messages -> {"unsent", "waiting", "sent", "dropped", "abandoned"}]

TransportInit ==
    /\ promise = None
    /\ timers = {}
    /\ msg = [m \in Messages |-> "unsent"]

Handed(s, live) == IF s \in live THEN "sent" ELSE "dropped"
Waiting == {m \in Messages : msg[m] = "waiting"}

\* Slips in this code (PROJECT.json, "mutants").
SetSocketUntimed(s) == UNCHANGED transportVars

OnCloseKeeps == UNCHANGED transportVars

\* setSocket
SetSocket(s) ==
    /\ timers' = timers \cup {s}
    /\ UNCHANGED <<promise, msg>>

\* onClose, called for every socket that closes, whichever it is
OnClose ==
    /\ promise' = None
    /\ msg' = [m \in Messages |->
                 IF promise = None /\ m \in Waiting THEN "abandoned" ELSE msg[m]]
    /\ UNCHANGED timers

\* The timer reads this.socketResolver when it fires: it settles the promise of
\* that moment, and does nothing when that one is settled.
Resolve(s, live) ==
    /\ s \in timers
    /\ timers' = timers \ {s}
    /\ promise' = IF promise = None THEN s ELSE promise
    /\ msg' = [m \in Messages |->
                 IF promise = None /\ m \in Waiting THEN Handed(s, live) ELSE msg[m]]

\* send
Send(m, live) ==
    /\ msg[m] = "unsent"
    /\ msg' = [msg EXCEPT ![m] = IF promise = None THEN "waiting" ELSE Handed(promise, live)]
    /\ UNCHANGED <<promise, timers>>
=============================================================================
