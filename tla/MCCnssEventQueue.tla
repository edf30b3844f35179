--------------------------- MODULE MCCnssEventQueue ---------------------------
(* Two contexts and two addresses: an event can be freed by one side and its *)
(* address handed out again while the other side still runs.                 *)
EXTENDS CnssEventQueue

CONSTANTS p1, p2, e1, e2, failure

MCPosters == {p1, p2}
MCEvents  == {e1, e2}
MCResults == {0, failure}

=============================================================================
