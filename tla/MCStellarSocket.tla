--------------------------- MODULE MCStellarSocket ---------------------------
(* Connections numbered from 1, in the order in which they are attempted.   *)
EXTENDS StellarSocket

CONSTANTS c1, c2, c3, m1

Three == 1..3
Ten   == 1..10
OneCall  == {c1}
TwoCalls == {c1, c2}
ThreeCalls == {c1, c2, c3}
OneMessage  == {m1}
Nothing == {}

\* Anything may happen, in any order.
Wild == [silent |-> TRUE, calm |-> FALSE, quick |-> TRUE, callers |-> {c1, c2},
         oneShot |-> {c2}, refusable |-> 0..MaxRetries, sockets |-> 4]

\* Three calls overlap: two are made before there is a connection, and the third
\* closes the connection of one while the other is about to have its own.
Crowded == [Wild EXCEPT !.callers = {c1, c2, c3}, !.oneShot = {}, !.refusable = {},
                        !.quick = FALSE, !.sockets = 3]

\* A calm application; silent closes, and every try may be refused, or quick ones.
Calm(silent, quick) ==
    [silent |-> silent, calm |-> TRUE, quick |-> quick, callers |-> {c1, c2},
     oneShot |-> {}, refusable |-> IF silent THEN 0..MaxRetries ELSE {0}, sockets |-> 10]

AnySurroundings == {Wild, Crowded, Calm(TRUE, FALSE), Calm(FALSE, TRUE), Calm(FALSE, FALSE)}

\* The application may close() at any time.
Hasty == {[Wild EXCEPT !.silent = FALSE, !.quick = FALSE, !.callers = {c1},
                       !.oneShot = {}, !.refusable = {}, !.sockets = 3]}
=============================================================================
