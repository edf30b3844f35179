------------------------------ MODULE MCCnssPciPm ------------------------------
(* Two senders, so that one comes while the other still holds the bus.       *)
EXTENDS CnssPciPm, TLC

CONSTANTS s1, s2

MCSenders == {s1, s2}
Symmetry  == Permutations(MCSenders)

=============================================================================
