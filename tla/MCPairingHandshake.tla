------------------------ MODULE MCPairingHandshake ------------------------
(* An instance of PairingHandshake for TLC. *)
EXTENDS PairingHandshake

CONSTANTS c1, c2, d1, f1

Conns2   == {c1, c2}
Devices1 == {d1}
Fps2     == {f1, EmptyFp}
===========================================================================
