--------------------------- MODULE MCBridgeSession ---------------------------
(* r1, r2: getReactive on one channel, p: a plain subscribe that they may    *)
(* replace, t: the end of one.  y sends s, a plain subscribe on its own, and *)
(* f, a request without answer.  q, a request, is answered as r1 and r2 are; *)
(* it is for the run with handlers that outlast their socket.               *)
EXTENDS BridgeSession

CONSTANTS x, y, ch, r1, r2, p, s, t, q, f

OneSession  == {x}
TwoSessions == {x, y}
OneChannel  == {ch}

AllKinds  == {r1, r2, p, s, t, f}
Requests2 == {q, f}

FromX    == [m \in Messages |-> x]
FromBoth == [m \in Messages |-> IF m \in {s, f} THEN y ELSE x]
KindOf   == [m \in Messages |->
               CASE m \in {r1, r2} -> "reactive"
                 [] m \in {p, s} -> "subscribe"
                 [] m = t -> "stopReactive"
                 [] m = q -> "request"
                 [] m = f -> "fireAndForget"]
ChannelOf == [m \in Messages |-> ch]
WithId    == Messages \cap {r1, r2, q, f}
=============================================================================
