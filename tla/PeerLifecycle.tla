--------------------------- MODULE PeerLifecycle ---------------------------
(***************************************************************************)
(* The life of every connection around its handshake, the registry of      *)
(* peers, the events that tell D-Bus clients who is connected, and the     *)
(* shutdown of the daemon: run_server and handle_peer (transport/          *)
(* websocket_server.rs), PeerRegistry (transport/peer.rs), and the way     *)
(* main.rs waits for the server and for the D-Bus event loop.              *)
(*                                                                         *)
(* Each connection is a task; registering a peer, sending its event and    *)
(* sending it a packet are separate steps of that task, and so are         *)
(* removing it and announcing that.  The inside of the handshake is        *)
(* PairingHandshake's; the inside of the loop only matters here for how it *)
(* is left.  Any step may be delayed for ever here: what has to happen in  *)
(* the end is asked where channels and locks are modelled, PeerChannels.   *)
(***************************************************************************)
EXTENDS PeerIds

CONSTANTS
  Conns,     \* connections, each a handle_peer task
  NoConn,    \* no registry entry
  NoDevice   \* no device_id known yet

ASSUME LifecycleAssumption == NoConn \notin Conns /\ NoDevice \notin Devices

VARIABLES
  phase,     \* where the task of each connection is
  dev,       \* device_id it was admitted as
  registry,  \* PeerRegistry.peers: the connection whose Sender it holds
  announced, \* devices connected according to the events sent so far
  cancelled, \* the CancellationToken
  server,    \* run_server and the end of main, by itself or by an error
  toTell,    \* handles that the shutdown broadcast has not reached yet
  queued,    \* connections with that Disconnect in their channel
  ackLost,   \* history: connections whose Ack could not be sent
  overlap    \* history: connections of a device that were alive together

vars == <<phase, dev, registry, announced, cancelled, server, toTell, queued,
          ackLost, overlap>>

(***************************************************************************)
(*   idle, upgrade, handshake    not yet; TLS and WebSocket; perform_..    *)
(*   admitted     the handshake returned Ok, registry.register is next     *)
(*   registered   DeviceConnected is next                                  *)
(*   greeting     Ack is next                                              *)
(*   loop         the select! loop                                         *)
(*   wedged       inside a branch of the loop that waits for ever          *)
(*   leaving      out of the loop, registry.remove is next                 *)
(*   removed      DeviceDisconnected is next                               *)
(*   over         the task has ended                                       *)
(***************************************************************************)
Held      == {"registered", "greeting", "loop", "wedged", "leaving"}
Announced == {"greeting", "loop", "wedged", "leaving", "removed"}
Alive     == Held \cup Announced
Phases    == Alive \cup {"idle", "upgrade", "handshake", "admitted", "over"}

Init ==
  /\ phase = [c \in Conns |-> "idle"]
  /\ dev = [c \in Conns |-> NoDevice]
  /\ registry = [d \in Devices |-> NoConn]
  /\ announced = {}
  /\ cancelled = FALSE
  /\ server = "listening"
  /\ toTell = {} /\ queued = {}
  /\ ackLost = {} /\ overlap = {}

Goto(c, from, to) == phase[c] = from /\ phase' = [phase EXCEPT ![c] = to]

serverVars == <<cancelled, server, toTell, queued>>
historyVars == <<ackLost, overlap>>

----------------------------------------------------------------------------
\* select! may take accept() even when the token is already cancelled.
Accept(c) ==
  /\ server = "listening"
  /\ Goto(c, "idle", "upgrade")
  /\ UNCHANGED <<dev, registry, announced, serverVars, historyVars>>

\* TLS accept and WebSocket upgrade: no timeout, no look at the token.
Upgrade(c) ==
  /\ Goto(c, "upgrade", "handshake") \/ Goto(c, "upgrade", "over")
  /\ UNCHANGED <<dev, registry, announced, serverVars, historyVars>>

\* perform_handshake as a whole; it does not look at the token either.
Admit(c, d) ==
  /\ Goto(c, "handshake", "admitted")
  /\ dev' = [dev EXCEPT ![c] = d]
  /\ UNCHANGED <<registry, announced, serverVars, historyVars>>

Refuse(c) ==
  /\ Goto(c, "handshake", "over")
  /\ UNCHANGED <<dev, registry, announced, serverVars, historyVars>>

Twins(c) == {x \in Conns \ {c} : dev[x] = dev[c] /\ phase[x] \in Alive}

\* register replaces the entry of an earlier connection of the device.
Register(c) ==
  /\ Goto(c, "admitted", "registered")
  /\ registry' = [registry EXCEPT ![dev[c]] = c]
  /\ overlap' = IF Twins(c) = {} THEN overlap ELSE overlap \cup {c} \cup Twins(c)
  /\ UNCHANGED <<dev, announced, serverVars, ackLost>>

AnnounceConnected(c) ==
  /\ Goto(c, "registered", "greeting")
  /\ announced' = announced \cup {dev[c]}
  /\ UNCHANGED <<dev, registry, serverVars, historyVars>>

\* A failure returns from handle_peer at once: no remove, no event.
SendAck(c) ==
  /\ \/ Goto(c, "greeting", "loop") /\ UNCHANGED ackLost
     \/ Goto(c, "greeting", "over") /\ ackLost' = ackLost \cup {c}
  /\ UNCHANGED <<dev, registry, announced, serverVars, overlap>>

\* (Mutant: registry.remove is skipped.)
LeaveLoopUnremoved(c) ==
  /\ Goto(c, "loop", "removed")
  /\ UNCHANGED <<dev, registry, announced, serverVars, historyVars>>

\* The peer closes, the socket fails, the pong timeout fires, or ...
LeaveLoop(c) ==
  /\ Goto(c, "loop", "leaving")
  /\ UNCHANGED <<dev, registry, announced, serverVars, historyVars>>

\* ... the loop sees the token, tries to send Disconnect, and breaks.
SeeCancelled(c) ==
  /\ cancelled
  /\ LeaveLoop(c)

\* The packet just received is routed to a full queue that nobody empties:
\* feature_tx, whose receiver main never reads, or the loop's own channel.
Wedge(c) ==
  /\ Goto(c, "loop", "wedged")
  /\ UNCHANGED <<dev, registry, announced, serverVars, historyVars>>

\* The loop writes a queued Disconnect to the socket and goes on.
WriteQueued(c) ==
  /\ phase[c] = "loop" /\ c \in queued
  /\ queued' = queued \ {c}
  /\ UNCHANGED <<phase, dev, registry, announced, cancelled, server, toTell,
                 historyVars>>

\* remove deletes whatever entry the device has, whoever registered it.
Remove(c) ==
  /\ Goto(c, "leaving", "removed")
  /\ registry' = [registry EXCEPT ![dev[c]] = NoConn]
  /\ UNCHANGED <<dev, announced, serverVars, historyVars>>

\* (Mutant: no DeviceDisconnected.)
EndSilently(c) ==
  /\ Goto(c, "removed", "over")
  /\ UNCHANGED <<dev, registry, announced, serverVars, historyVars>>

AnnounceDisconnected(c) ==
  /\ Goto(c, "removed", "over")
  /\ announced' = announced \ {dev[c]}
  /\ UNCHANGED <<dev, registry, serverVars, historyVars>>

----------------------------------------------------------------------------
\* Ctrl-C.
Cancel ==
  /\ ~cancelled
  /\ cancelled' = TRUE
  /\ UNCHANGED <<phase, dev, registry, announced, server, toTell, queued, historyVars>>

\* (Mutant: the shutdown empties the registry.)
StopListeningClears ==
  /\ cancelled /\ server = "listening"
  /\ server' = "broadcasting"
  /\ toTell' = {registry[d] : d \in Devices} \ {NoConn}
  /\ registry' = [d \in Devices |-> NoConn]
  /\ UNCHANGED <<phase, dev, announced, cancelled, queued, historyVars>>

\* The accept loop ends and broadcast takes its copy of the handles.
StopListening ==
  /\ cancelled /\ server = "listening"
  /\ server' = "broadcasting"
  /\ toTell' = {registry[d] : d \in Devices} \ {NoConn}
  /\ UNCHANGED <<phase, dev, registry, announced, cancelled, queued, historyVars>>

\* One tx.send of the broadcast, when it returns; it fails when the task and its
\* Receiver are gone.
BroadcastTo(c) ==
  /\ server = "broadcasting" /\ c \in toTell
  /\ toTell' = toTell \ {c}
  /\ queued' = IF phase[c] = "over" THEN queued ELSE queued \cup {c}
  /\ UNCHANGED <<phase, dev, registry, announced, cancelled, server, historyVars>>

\* run_server returns and drops its event_tx.
FinishBroadcast ==
  /\ server = "broadcasting" /\ toTell = {}
  /\ server' = "stopped"
  /\ UNCHANGED <<phase, dev, registry, announced, cancelled, toTell, queued, historyVars>>

\* The D-Bus event loop ends when the last event_tx is dropped, and every
\* connection owns one; only then does try_join! return.
Exit ==
  /\ server = "stopped"
  /\ \A c \in Conns : phase[c] \in {"idle", "over"}
  /\ server' = "exited"
  /\ UNCHANGED <<phase, dev, registry, announced, cancelled, toTell, queued, historyVars>>

\* An error of accept() or of the D-Bus bridge ends try_join!, main and every
\* task with it, whoever is connected.
Fail ==
  /\ server # "exited"
  /\ server' = "failed"
  /\ UNCHANGED <<phase, dev, registry, announced, cancelled, toTell, queued, historyVars>>

----------------------------------------------------------------------------
\* What the task does by itself once admitted.
Proceed(c) ==
  \/ Register(c)
  \/ AnnounceConnected(c)
  \/ SendAck(c)
  \/ SeeCancelled(c)
  \/ WriteQueued(c)
  \/ Remove(c)
  \/ AnnounceDisconnected(c)

EndHandshake(c) == Refuse(c) \/ \E d \in Devices : Admit(c, d)

ServerStep ==
  \/ StopListening
  \/ \E c \in Conns : BroadcastTo(c)
  \/ FinishBroadcast
  \/ Exit

\* After a failure nothing runs.
Next ==
  /\ server # "failed"
  /\ \/ \E c \in Conns : \/ Accept(c) \/ Upgrade(c) \/ EndHandshake(c)
                         \/ Proceed(c) \/ LeaveLoop(c) \/ Wedge(c)
     \/ Cancel
     \/ ServerStep
     \/ Fail

Spec == Init /\ [][Next]_vars

----------------------------------------------------------------------------
TypeOK ==
  /\ phase \in [Conns -> Phases]
  /\ dev \in [Conns -> Devices \cup {NoDevice}]
  /\ registry \in [Devices -> Conns \cup {NoConn}]
  /\ announced \subseteq Devices
  /\ cancelled \in BOOLEAN
  /\ server \in {"listening", "broadcasting", "stopped", "exited", "failed"}
  /\ toTell \subseteq Conns /\ queued \subseteq Conns
  /\ ackLost \subseteq Conns /\ overlap \subseteq Conns

\* While a device has one connection at a time, the registry and the events
\* are exact: from registration to removal its entry is that connection, and
\* between its two events the clients believe it connected.  Connections of
\* other devices, lost Acks and the shutdown do not interfere.
AloneIsExact ==
  \A c \in Conns \ overlap :
    /\ phase[c] \in Held => registry[dev[c]] = c
    /\ phase[c] \in Announced => dev[c] \in announced

\* A registry entry never outlives its connection, except that of a
\* connection whose Ack was lost.
EntryOfLiveTask ==
  \A d \in Devices : registry[d] # NoConn =>
    LET c == registry[d] IN dev[c] = d /\ (phase[c] \in Held \/ c \in ackLost)

\* The registry forgets a connection that has ended, and the clients a device
\* all of whose connections have, however they overlapped: unless an Ack was
\* lost.
GoneIsForgotten ==
  /\ EntryOfLiveTask
  /\ \A d \in announced :
       \E c \in Conns : dev[c] = d /\ (phase[c] # "over" \/ c \in ackLost)

\* The exceptions, and what registry and events say of a device.
Muddled(d) ==
  \E c \in Conns :
    /\ dev[c] = d
    /\ c \in ackLost \/ (c \in overlap /\ phase[c] \in Alive)

LinkOf(d) ==
  IF Muddled(d) THEN "muddled"
  ELSE IF registry[d] # NoConn
         THEN IF d \in announced THEN "up" ELSE "registered"
         ELSE IF d \in announced THEN "removed" ELSE "off"

Links == [d \in Devices |-> LinkOf(d)]

Presence == INSTANCE PeerPresence WITH link <- Links

\* Registry and events tell of each device one story with one order: entered,
\* announced, withdrawn, bidden farewell; they may leave it only while
\* connections of the device overlap, or after a lost Ack, and take it up
\* again where it begins.
ImplementsPresence == Presence!PresenceSpec

----------------------------------------------------------------------------
(***************************************************************************)
(* The inductive invariant behind the safety properties.                   *)
(***************************************************************************)
\* Connections of one device that are alive together are in overlap.
TwinsOverlap ==
  \A c, x \in Conns :
    c # x /\ dev[c] = dev[x] /\ phase[c] \in Alive /\ phase[x] \in Alive
      => c \in overlap

\* Somebody vouches for every device that is announced.
AnnouncedByTask ==
  \A d \in announced :
    \E c \in Conns : dev[c] = d /\ (phase[c] \in Announced \/ c \in ackLost)

PhaseInv ==
  \A c \in Conns :
    /\ phase[c] \in Alive \cup {"admitted"} => dev[c] \in Devices
    /\ c \in ackLost => phase[c] = "over"
    /\ c \in overlap => phase[c] \in Alive \cup {"over"}

Inv == TypeOK /\ PhaseInv /\ TwinsOverlap /\ AnnouncedByTask
              /\ AloneIsExact /\ EntryOfLiveTask

----------------------------------------------------------------------------
\* What comments of the code say and the code does not do.

\* "Thread-safe registry of all currently-connected peers" (peer.rs:59).
ConnectedIsRegistered ==
  \A c \in Conns : phase[c] = "loop" => registry[dev[c]] # NoConn
=============================================================================
