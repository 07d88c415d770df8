-------------------------- MODULE MCWebRtcSessions --------------------------
(* Instances of WebRtcSessions for TLC. *)
EXTENDS WebRtcSessions

CONSTANTS x1, x2, x3, x4, s1, s2

Calls4 == {x1, x2, x3, x4}
Ids2   == {s1, s2}

\* Three calls with one id, the fourth with another.
ThreeOfOne == [x \in Calls4 |-> IF x = x4 THEN s2 ELSE s1]
===========================================================================
