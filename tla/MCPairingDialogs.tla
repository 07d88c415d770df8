-------------------------- MODULE MCPairingDialogs --------------------------
(* An instance of PairingDialogs for TLC. *)
EXTENDS PairingDialogs

CONSTANTS c1, c2, d1, w1, w2

Conns2   == {c1, c2}
Devices1 == {d1}
Windows2 == {w1, w2}

\* One device asks twice.
TwoOfOne == [c \in Conns2 |-> d1]
===========================================================================
