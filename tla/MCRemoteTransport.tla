------------------------- MODULE MCRemoteTransport --------------------------
(* Two requests with a timeout and one without, two copies of each response *)
(* and two with a requestId this node never used.                           *)
EXTENDS RemoteTransport

CONSTANTS a, b, c

MCIds == {a, b, c}
MCTimed == {a, b}
MCCopies == 1..2

=============================================================================
