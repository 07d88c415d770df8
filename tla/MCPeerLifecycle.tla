-------------------------- MODULE MCPeerLifecycle --------------------------
(* Instances of PeerLifecycle for TLC. *)
EXTENDS PeerLifecycle

CONSTANTS c1, c2, c3, d1, d2

Conns2   == {c1, c2}
Conns3   == {c1, c2, c3}
Devices1 == {d1}
Devices2 == {d1, d2}
===========================================================================
