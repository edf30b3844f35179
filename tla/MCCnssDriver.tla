----------------------------- MODULE MCCnssDriver -----------------------------
(* The bounds by the number of faults: six calls on a sound device, three when *)
(* it fails once or twice; callbacks may fail unless it failed twice.          *)
EXTENDS CnssDriver

FewerWithFaults == [n \in 0..2 |-> IF n = 0 THEN 6 ELSE 3]
TwoCalls        == [n \in 0..MaxFaults |-> 2]

NoFailure      == [n \in 0..MaxFaults |-> {}]
OnceFailed     == [n \in 0..MaxFaults |->
                      IF n <= 1 THEN {"probe", "reinit", "idle_restart"} ELSE {}]
NoReboot       == {}
RebootsIfSound == {0}

=============================================================================
