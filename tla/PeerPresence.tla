---------------------------- MODULE PeerPresence ----------------------------
(***************************************************************************)
(* What the daemon promises to its D-Bus clients about each device: that   *)
(* its registry (get_connected_devices) and its two events tell one story. *)
(* A device is registered before DeviceConnected is sent and removed       *)
(* before DeviceDisconnected is.  The promise is suspended for a device    *)
(* while its connections overlap, and for good once an Ack was lost.       *)
(***************************************************************************)
EXTENDS PeerIds

VARIABLE
  link         \* what registry and events say of each device

\* off: in neither.  registered: DeviceConnected is next.  up: in both.
\* removed: DeviceDisconnected is next.  muddled: nothing is promised.
Links == {"off", "registered", "up", "removed", "muddled"}

PresenceInit == link = [d \in Devices |-> "off"]

Move(d, from, to) == link[d] = from /\ link' = [link EXCEPT ![d] = to]

Enter(d)      == Move(d, "off", "registered")
Announce(d)   == Move(d, "registered", "up")
Withdraw(d)   == Move(d, "up", "removed")
Farewell(d)   == Move(d, "removed", "off")
Muddle(d)     == link[d] # "off" /\ link' = [link EXCEPT ![d] = "muddled"]
StraightenOut(d) == Move(d, "muddled", "off")

PresenceNext ==
  \E d \in Devices :
    \/ Enter(d) \/ Announce(d) \/ Withdraw(d) \/ Farewell(d)
    \/ Muddle(d) \/ StraightenOut(d)

PresenceSpec == PresenceInit /\ [][PresenceNext]_link
=============================================================================
