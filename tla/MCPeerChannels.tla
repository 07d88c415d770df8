--------------------------- MODULE MCPeerChannels ---------------------------
(* An instance of PeerChannels for TLC. *)
EXTENDS PeerChannels

CONSTANTS p1, p2, k1

Peers2   == {p1, p2}
Callers1 == {k1}

\* The target of a task that does not send means nothing.
MCInit == Init /\ target[k1] = p1 /\ target[Broadcaster] = p1

MCSpec == MCInit /\ [][Next]_vars /\ Fairness
===========================================================================
