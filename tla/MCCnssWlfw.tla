------------------------------ MODULE MCCnssWlfw ------------------------------
(* One segment, or two of which the first is larger.                          *)
EXTENDS CnssWlfw
MCRequests == {<<1>>, <<2, 1>>}
=============================================================================
