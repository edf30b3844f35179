----------------------------- MODULE MCPlatIpcFile -----------------------------
(* Two callers whose transfers overlap.  Calm: both kinds, a file of one and  *)
(* one of one and a half segments; otherwise uploads of the longer one, and a *)
(* daemon that comes back among other clients.                                *)
EXTENDS PlatIpcFile

CONSTANTS c1, c2, a1, a2

MCCallers == {c1, c2}
MCAddrs   == {a1, a2}
MCSizes   == [c \in BOOLEAN |-> IF c THEN {2, 3} ELSE {3}]
MCKinds   == [c \in BOOLEAN |-> IF c THEN {"upload", "download"} ELSE {"upload"}]
MCRegisters == [c \in BOOLEAN |-> IF c THEN {"daemon"} ELSE Clients]
MCSessions == [c \in BOOLEAN |-> IF c THEN 1 ELSE 2]

Symmetry == Permutations(MCCallers) \cup Permutations(MCAddrs)

=============================================================================
