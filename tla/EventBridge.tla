---------------------------- MODULE EventBridge ----------------------------
(***************************************************************************)
(* How the daemon tells its D-Bus clients who is connected: the broadcast  *)
(* channel of TransportEvents (main.rs) and the bridge that turns each     *)
(* event into a D-Bus signal (dbus/transport_iface.rs).                    *)
(*                                                                         *)
(* The peers are those of PeerPresence, which PeerLifecycle implements, as *)
(* long as nothing is muddled.  What a client does with a signal is left   *)
(* to the modules that extend this one.                                    *)
(***************************************************************************)
EXTENDS PeerPresence, Naturals, Sequences

CONSTANTS
  NoDevice,
  BusCap,      \* places of the broadcast channel (256)
  MaxEvents,   \* bound: events sent in all
  MaxRestarts  \* bound: crashes of the daemon

ASSUME BridgeAssumption ==
  /\ NoDevice \notin Devices
  /\ BusCap \in Nat \ {0} /\ MaxEvents \in Nat /\ MaxRestarts \in Nat

VARIABLES
  bus,         \* events that the bridge has not read
  sent,        \* number of events sent
  restarts,    \* number of restarts of the daemon
  lagged,      \* history: the bridge has skipped an event
  together,    \* history: two devices were connected at the same time
  orphaned     \* history: devices not connected again since the last restart

bridgeVars == <<link, bus, sent, restarts, lagged, together, orphaned>>

\* The events that a client shows: "conn", DeviceConnected; "disc",
\* DeviceDisconnected.  All others only take a place: "other".
Kinds  == {"conn", "disc"}
Events == [kind : Kinds \cup {"other"}, dev : Devices, n : 1..MaxEvents]

BridgeInit ==
  /\ PresenceInit
  /\ bus = <<>> /\ sent = 0 /\ restarts = 0
  /\ lagged = FALSE /\ together = FALSE /\ orphaned = {}

\* What get_connected_devices finds.
Registry == {d \in Devices : link[d] \in {"registered", "up"}}

\* get_connected_devices()[0], in the order of a HashMap.
SomeConnected(d) == IF Registry = {} THEN d = NoDevice ELSE d \in Registry

\* (Mutant: a channel without bound.)
PublishUnbounded(kind, d) ==
  /\ sent < MaxEvents
  /\ sent' = sent + 1
  /\ bus' = Append(bus, [kind |-> kind, dev |-> d, n |-> sent + 1])
  /\ UNCHANGED <<restarts, lagged>>

\* event_tx.send never waits: in a full channel the oldest event makes room,
\* and the bridge's next recv says Lagged and goes on with what is left.
Publish(kind, d) ==
  /\ sent < MaxEvents
  /\ sent' = sent + 1
  /\ LET e == [kind |-> kind, dev |-> d, n |-> sent + 1] IN
     IF Len(bus) < BusCap
       THEN bus' = Append(bus, e) /\ UNCHANGED lagged
       ELSE bus' = Append(Tail(bus), e) /\ lagged' = TRUE
  /\ UNCHANGED restarts

----------------------------------------------------------------------------
RegisterPeer(d) ==
  /\ Enter(d)
  /\ together' = (together \/ \E x \in Devices \ {d} : link[x] # "off")
  /\ orphaned' = orphaned \ {d}
  /\ UNCHANGED <<bus, sent, restarts, lagged>>

SendConnected(d) ==
  Announce(d) /\ Publish("conn", d) /\ UNCHANGED <<together, orphaned>>

RemovePeer(d) ==
  Withdraw(d) /\ UNCHANGED <<bus, sent, restarts, lagged, together, orphaned>>

SendDisconnected(d) ==
  Farewell(d) /\ Publish("disc", d) /\ UNCHANGED <<together, orphaned>>

\* PacketReceived and the events of pairings.
SendOther(d) ==
  link[d] = "up" /\ Publish("other", d) /\ UNCHANGED <<link, together, orphaned>>

\* The daemon dies and systemd starts it again: no peer, no event.  What a
\* client asks while it is down has the same outcome as an empty answer.
Restart ==
  /\ restarts < MaxRestarts
  /\ restarts' = restarts + 1
  /\ link' = [d \in Devices |-> "off"]
  /\ bus' = <<>>
  /\ orphaned' = Devices
  /\ UNCHANGED <<sent, lagged, together>>

\* recv of the bridge; the signal that it becomes is up to the clients.
RecvEvent(e) ==
  /\ bus # <<>> /\ e = Head(bus)
  /\ bus' = Tail(bus)
  /\ UNCHANGED <<link, sent, restarts, lagged, together, orphaned>>

PeerNext ==
  \/ \E d \in Devices : \/ RegisterPeer(d) \/ SendConnected(d)
                        \/ RemovePeer(d) \/ SendDisconnected(d)
                        \/ SendOther(d)
  \/ Restart

----------------------------------------------------------------------------
BridgeTypeOK ==
  /\ link \in [Devices -> Links \ {"muddled"}]
  /\ bus \in Seq(Events) /\ Len(bus) <= BusCap
  /\ sent \in 0..MaxEvents /\ restarts \in 0..MaxRestarts
  /\ lagged \in BOOLEAN /\ together \in BOOLEAN
  /\ orphaned \subseteq Devices

\* Every event so far has reached the clients that listen.
Delivered == bus = <<>> /\ \A d \in Devices : link[d] \in {"off", "up"}
============================================================================
