---------------------------- MODULE PairingGate ----------------------------
(***************************************************************************)
(* PairingGate (gcontinuity-daemon/src/transport/websocket_server.rs, and  *)
(* the identical type of src/pairing/mod.rs): a mutex-protected map from   *)
(* device_id to the sending half of a tokio oneshot channel.  A handshake  *)
(* task registers and then waits on the receiving half; the D-Bus methods  *)
(* accept_pairing and reject_pairing resolve the entry of a device.        *)
(*                                                                         *)
(* The mutex is held for one map operation only, so each operation is one  *)
(* atomic step.  A connection has at most one oneshot channel at a time,   *)
(* which can thus be identified with it: those of websocket_server.rs      *)
(* register at most once, those of pairing/mod.rs after the last decision. *)
(***************************************************************************)
EXTENDS PeerIds

CONSTANTS
  Conns,     \* connections: one handle_peer task, hence one oneshot, each
  NoConn     \* "no entry for this device"

ASSUME GateAssumption == NoConn \notin Conns

VARIABLES
  gate,      \* PairingGate.inner: device_id -> connection owning the Sender
  chan       \* state of the oneshot of each connection

gateVars == <<gate, chan>>

(***************************************************************************)
(*   unused    register was not called                                     *)
(*   open      the Sender is in the map, the Receiver is being awaited     *)
(*   accepted, rejected   a decision was sent                              *)
(*   dropped   the Sender was dropped without a decision (RecvError)       *)
(*   gone      the Receiver was dropped, by a timeout or a crash           *)
(***************************************************************************)
ChanStates == {"unused", "open", "accepted", "rejected", "dropped", "gone"}
Verdicts   == {"accepted", "rejected"}

GateInit ==
  /\ gate = [d \in Devices |-> NoConn]
  /\ chan = [c \in Conns |-> "unused"]

\* What dropping the Sender does to the channel.
SenderDropped(s) == IF s = "open" THEN "dropped" ELSE s

\* (Mutant: register keeps the Sender it replaces alive elsewhere.)
GateRegisterKeepsOld(d, c) ==
  /\ chan[c] = "unused"
  /\ gate' = [gate EXCEPT ![d] = c]
  /\ chan' = [chan EXCEPT ![c] = "open"]

\* register: HashMap::insert replaces, and so drops, the Sender it finds.
GateInsert(d, c) ==
  /\ gate' = [gate EXCEPT ![d] = c]
  /\ chan' = [x \in Conns |-> IF x = c THEN "open"
                              ELSE IF x = gate[d] THEN SenderDropped(chan[x])
                              ELSE chan[x]]

\* The first and only register of a connection of websocket_server.rs.
GateRegister(d, c) == chan[c] = "unused" /\ GateInsert(d, c)

\* resolve, when it finds an entry and returns true; `let _ = tx.send(..)`
\* ignores that the Receiver may be gone.  Without an entry it returns false
\* and changes nothing.
GateResolve(d, verdict) ==
  /\ gate[d] # NoConn
  /\ gate' = [gate EXCEPT ![d] = NoConn]
  /\ chan' = [chan EXCEPT ![gate[d]] = IF @ = "open" THEN verdict ELSE @]

\* remove: discards whatever entry the device has, whoever registered it.
GateRemove(d) ==
  /\ gate' = [gate EXCEPT ![d] = NoConn]
  /\ chan' = [x \in Conns |-> IF x = gate[d] THEN SenderDropped(chan[x])
                                             ELSE chan[x]]

\* The future that awaits the Receiver is dropped; the map is not touched.
GateAbandon(c) ==
  /\ chan[c] # "unused"
  /\ chan' = [chan EXCEPT ![c] = "gone"]
  /\ UNCHANGED gate

\* The process dies: the map and every channel still in use are lost with it.
GateCrash ==
  /\ gate' = [d \in Devices |-> NoConn]
  /\ chan' = [c \in Conns |-> IF chan[c] = "open" THEN "gone" ELSE chan[c]]

GateNext ==
  \/ \E d \in Devices, c \in Conns : GateRegister(d, c)
  \/ \E d \in Devices, v \in Verdicts : GateResolve(d, v)
  \/ \E d \in Devices : GateRemove(d)
  \/ \E c \in Conns : GateAbandon(c)
  \/ GateCrash

\* What the gate promises to any user of it that registers each connection
\* at most once.
GateSpec == GateInit /\ [][GateNext]_gateVars

----------------------------------------------------------------------------

GateTypeOK ==
  /\ gate \in [Devices -> Conns \cup {NoConn}]
  /\ chan \in [Conns -> ChanStates]

\* A handshake that is still waiting for the user can be woken: the Sender of
\* every open channel is in the map, whatever was registered, resolved,
\* removed or abandoned in the meantime.
NoLostWakeup ==
  \A c \in Conns : chan[c] = "open" => \E d \in Devices : gate[d] = c

\* An entry of the map has not been decided yet, and no connection owns two.
EntriesPending ==
  /\ \A d \in Devices : gate[d] # NoConn => chan[gate[d]] \in {"open", "gone"}
  /\ \A d, e \in Devices : gate[d] = gate[e] /\ gate[d] # NoConn => d = e

GateInv == GateTypeOK /\ NoLostWakeup /\ EntriesPending

\* One click, one decision: a decision that was delivered is never replaced
\* by a later click, by a re-registration of the device or by a cleanup.
DecisionSticks ==
  [][\A c \in Conns : chan[c] \in Verdicts => chan'[c] \in {chan[c], "gone"}]_chan
============================================================================
