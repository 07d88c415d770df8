--------------------------- MODULE PairingSession ---------------------------
(***************************************************************************)
(* The sessions of the Phase-1 server: handle (server/connection.rs),      *)
(* handle_packet (pairing/mod.rs), the KeepaliveTask (keepalive/mod.rs)    *)
(* and the calls of the D-Bus service that meet them (dbus/mod.rs).  The   *)
(* sessions share the pairing gate, the trust store and connected_device.  *)
(*                                                                         *)
(* Every packet comes with a device_id of its own, in any state of the     *)
(* loop.  A step ends where the code waits and something shared may change *)
(* meanwhile.  Events and the packets sent to the phone are left out.      *)
(***************************************************************************)
EXTENDS Naturals, PairingGate

CONSTANTS
  Fps,        \* fingerprints of phones
  NoFp,       \* "the device is not in the store"
  NoDevice    \* connected_device or peer_info is None

ASSUME SessionAssumption == NoFp \notin Fps /\ NoDevice \notin Devices

VARIABLES
  pc,          \* where handle is
  state,       \* session.state
  info,        \* device_id of session.peer_info
  asks,        \* fingerprint of the PairRequest that waits for the user
  connected,   \* connected_device
  strayed,     \* history: the session of connected has changed its device_id
  store,       \* fingerprint in the trust store
  ticking,     \* the KeepaliveTask runs
  misses,      \* consecutive_misses
  quiet        \* checks since a Pong was read: 0, 1, or 2 for more

session == <<pc, state, info, asks>>
named   == <<connected, strayed>>
alive   == <<ticking, misses, quiet>>
vars == <<gateVars, session, named, store, alive>>

(***************************************************************************)
(*   new        not accepted yet                                           *)
(*   loop       in select!                                                 *)
(*   register, waiting, expired   a new device: before gate.register, for  *)
(*              the user, before gate.remove                               *)
(*   announce   paired; set_connected is next                              *)
(*   forget, clear   Disconnect: before gate.remove, set_disconnected      *)
(*   exit       left the loop;  over                                       *)
(***************************************************************************)
Steps  == {"new", "loop", "register", "waiting", "expired", "announce",
           "forget", "clear", "exit", "over"}
States == {"Idle", "AwaitingPair", "PairedConnected", "Disconnected"}

Init ==
  /\ GateInit
  /\ pc = [c \in Conns |-> "new"]
  /\ state = [c \in Conns |-> "Idle"]
  /\ info = [c \in Conns |-> NoDevice] /\ asks = [c \in Conns |-> NoFp]
  /\ connected = NoDevice /\ strayed = FALSE
  /\ store \in [Devices -> Fps \cup {NoFp}]
  /\ ticking = [c \in Conns |-> FALSE] /\ misses = [c \in Conns |-> 0]
  /\ quiet = [c \in Conns |-> 0]

At(c, from, to) == pc[c] = from /\ pc' = [pc EXCEPT ![c] = to]
Become(c, s)    == state' = [state EXCEPT ![c] = s]
Waits(c, f)     == asks' = [asks EXCEPT ![c] = f]

\* peer_info is replaced by that of the packet.
IsNow(c, d) ==
  /\ info' = [info EXCEPT ![c] = d]
  /\ strayed' = (strayed \/ (connected # NoDevice /\ connected = info[c] /\ connected # d))
  /\ UNCHANGED connected

\* disconnect_rx is ready: disconnect_tx was used, or dropped with the task.
Dead(c) == ~ticking[c]

\* store_device, then PairedConnected; or it fails, before or after the insert,
\* and the loop is left.
Trust(c, from, d, f) ==
  \/ /\ At(c, from, "announce") /\ Become(c, "PairedConnected")
     /\ store' = [store EXCEPT ![d] = f]
  \/ /\ At(c, from, "exit") /\ UNCHANGED state
     /\ store' \in {store, [store EXCEPT ![d] = f]}

----------------------------------------------------------------------------
\* accept, upgrade, and handle up to its loop.
Accept(c) ==
  /\ At(c, "new", "loop")
  /\ ticking' = [ticking EXCEPT ![c] = TRUE]
  /\ UNCHANGED <<gateVars, state, info, asks, named, store, misses, quiet>>

Hello(c, d) ==
  /\ pc[c] = "loop"
  /\ IsNow(c, d) /\ Become(c, "AwaitingPair")
  /\ UNCHANGED <<gateVars, pc, asks, store, alive>>

\* PairRequest: trusted at once, refused, or put to the user.
PairRequest(c, d, f) ==
  /\ pc[c] = "loop"
  /\ IsNow(c, d)
  /\ \/ store[d] = f /\ Trust(c, "loop", d, f) /\ UNCHANGED asks
     \/ /\ store[d] \notin {f, NoFp}
        /\ At(c, "loop", "exit") /\ Become(c, "Disconnected") /\ UNCHANGED <<asks, store>>
     \/ /\ store[d] = NoFp
        /\ At(c, "loop", "register") /\ Become(c, "AwaitingPair") /\ Waits(c, f)
        /\ UNCHANGED store
  /\ UNCHANGED <<gateVars, alive>>

\* PairAccept: the phone's user has accepted; without a Hello before it is ignored.
PairAccept(c, f) ==
  /\ pc[c] = "loop" /\ state[c] = "AwaitingPair" /\ info[c] # NoDevice
  /\ Trust(c, "loop", info[c], f)
  /\ UNCHANGED <<gateVars, info, asks, named, alive>>

PairReject(c) ==
  /\ At(c, "loop", "exit") /\ Become(c, "Disconnected")
  /\ UNCHANGED <<gateVars, info, asks, named, store, alive>>

\* It matters only as long as somebody checks.
Pong(c) ==
  /\ pc[c] = "loop" /\ ticking[c]
  /\ quiet' = [quiet EXCEPT ![c] = 0]
  /\ UNCHANGED <<gateVars, session, named, store, ticking, misses>>

Disconnect(c) ==
  /\ At(c, "loop", IF info[c] # NoDevice THEN "forget" ELSE "exit")
  /\ Become(c, "Disconnected")
  /\ UNCHANGED <<gateVars, info, asks, named, store, alive>>

\* The socket is closed or fails.
SocketEnds(c) ==
  /\ At(c, "loop", "exit")
  /\ UNCHANGED <<gateVars, state, info, asks, named, store, alive>>

\* disconnect_rx, once the loop comes back to select!.
DeadSignal(c) ==
  /\ Dead(c) /\ At(c, "loop", "exit")
  /\ UNCHANGED <<gateVars, state, info, asks, named, store, alive>>

----------------------------------------------------------------------------
Register(c) ==
  /\ At(c, "register", "waiting")
  /\ GateInsert(info[c], c)
  /\ UNCHANGED <<state, info, asks, named, store, alive>>

\* The user accepted; with the decision the Receiver is used up.
Accepted(c) ==
  /\ chan[c] = "accepted" /\ Trust(c, "waiting", info[c], asks[c])
  /\ GateAbandon(c) /\ Waits(c, NoFp)
  /\ UNCHANGED <<info, named, alive>>

\* (Mutant: only a click counts as a rejection, not a Sender that is gone.)
RejectedByClick(c) ==
  /\ chan[c] = "rejected"
  /\ At(c, "waiting", "exit") /\ Become(c, "Disconnected")
  /\ GateAbandon(c) /\ Waits(c, NoFp)
  /\ UNCHANGED <<info, named, store, alive>>

\* The user rejected, or the Sender is gone.
Rejected(c) ==
  /\ chan[c] \in {"rejected", "dropped"}
  /\ At(c, "waiting", "exit") /\ Become(c, "Disconnected")
  /\ GateAbandon(c) /\ Waits(c, NoFp)
  /\ UNCHANGED <<info, named, store, alive>>

\* 120 s without a decision: the Receiver is dropped, ...
Expire(c) ==
  /\ chan[c] = "open"
  /\ At(c, "waiting", "expired") /\ Become(c, "Disconnected")
  /\ GateAbandon(c) /\ Waits(c, NoFp)
  /\ UNCHANGED <<info, named, store, alive>>

\* (Mutant: the timeout does not clean up.)
LeaveEntry(c) ==
  /\ At(c, "expired", "exit")
  /\ UNCHANGED <<gateVars, state, info, asks, named, store, alive>>

\* ... then the entry of the device, whoever registered it by now.
RemoveEntry(c) ==
  /\ At(c, "expired", "exit")
  /\ GateRemove(info[c])
  /\ UNCHANGED <<state, info, asks, named, store, alive>>

\* set_connected.
SetConnected(c) ==
  /\ At(c, "announce", "loop")
  /\ connected' = info[c] /\ strayed' = FALSE
  /\ UNCHANGED <<gateVars, state, info, asks, store, alive>>

\* A Disconnect packet: gate.remove, ...
Forget(c) ==
  /\ At(c, "forget", "clear")
  /\ GateRemove(info[c])
  /\ UNCHANGED <<state, info, asks, named, store, alive>>

\* ... then set_disconnected, whichever device is connected.
SetDisconnected(c) ==
  /\ At(c, "clear", "exit")
  /\ connected' = NoDevice
  /\ UNCHANGED <<gateVars, state, info, asks, strayed, store, alive>>

\* (Mutant: only a session that is still paired clears connected_device.)
ExitIfPaired(c) ==
  /\ At(c, "exit", "over")
  /\ connected' = IF state[c] = "PairedConnected" /\ connected = info[c]
                    THEN NoDevice ELSE connected
  /\ Become(c, "Idle") /\ info' = [info EXCEPT ![c] = NoDevice]
  /\ UNCHANGED <<gateVars, asks, strayed, store, alive>>

\* What handle does after its loop; the session is dropped.
Exit(c) ==
  /\ At(c, "exit", "over")
  /\ connected' = IF connected = info[c] THEN NoDevice ELSE connected
  /\ Become(c, "Idle") /\ info' = [info EXCEPT ![c] = NoDevice]
  /\ UNCHANGED <<gateVars, asks, strayed, store, alive>>

----------------------------------------------------------------------------
Quieter(c) == IF quiet[c] = 2 THEN 2 ELSE quiet[c] + 1

\* consecutive_misses after a check: the last Pong that was read is at most
\* 30 s old when one was read since the check before, of any age when it was in
\* the round before, more than 35 s old otherwise.
Counts(c) == (IF quiet[c] = 2 THEN {} ELSE {0}) \cup (IF quiet[c] = 0 THEN {} ELSE {misses[c] + 1})

\* The task ends; its counts mean nothing any more.
Stops(c) ==
  /\ ticking' = [ticking EXCEPT ![c] = FALSE]
  /\ misses' = [misses EXCEPT ![c] = 0] /\ quiet' = [quiet EXCEPT ![c] = 0]

\* (Mutant: the first miss is forgotten.)
CheckForgets(c) ==
  /\ ticking[c]
  /\ quiet' = [quiet EXCEPT ![c] = Quieter(c)]
  /\ misses' = [misses EXCEPT ![c] = IF quiet[c] = 0 THEN 0 ELSE 1]
  /\ UNCHANGED <<gateVars, session, named, store, ticking>>

\* A Ping every 30 s and, 10 s later, the age of the last Pong against 35 s;
\* two misses in a row end the task and the session.
Check(c) ==
  /\ ticking[c]
  /\ \/ \E m \in Counts(c) \ {2} :
          /\ misses' = [misses EXCEPT ![c] = m] /\ quiet' = [quiet EXCEPT ![c] = Quieter(c)]
          /\ UNCHANGED ticking
     \/ 2 \in Counts(c) /\ Stops(c)
  /\ UNCHANGED <<gateVars, session, named, store>>

\* The Ping cannot be sent: the task ends, and its disconnect_tx with it.
PingFails(c) ==
  /\ ticking[c] /\ Stops(c)
  /\ UNCHANGED <<gateVars, session, named, store>>

----------------------------------------------------------------------------
\* accept_pairing and reject_pairing.
Click(d, verdict) ==
  /\ GateResolve(d, verdict)
  /\ UNCHANGED <<session, named, store, alive>>

UnpairDevice(d) ==
  /\ store' = [store EXCEPT ![d] = NoFp]
  /\ UNCHANGED <<gateVars, session, named, alive>>

Receive(c) ==
  \/ PairReject(c) \/ Pong(c) \/ Disconnect(c)
  \/ \E d \in Devices : Hello(c, d) \/ \E f \in Fps : PairRequest(c, d, f)
  \/ \E f \in Fps : PairAccept(c, f)

\* What a session does without the phone and the user.
Proceed(c) ==
  Register(c) \/ Accepted(c) \/ Rejected(c) \/ Expire(c) \/ RemoveEntry(c)
    \/ SetConnected(c) \/ Forget(c) \/ SetDisconnected(c) \/ Exit(c)

Next ==
  \/ \E c \in Conns : \/ Accept(c) \/ Receive(c) \/ SocketEnds(c) \/ DeadSignal(c)
                      \/ Proceed(c) \/ Check(c) \/ PingFails(c)
  \/ \E d \in Devices : UnpairDevice(d) \/ \E v \in Verdicts : Click(d, v)

Spec == Init /\ [][Next]_vars

\* Tasks that can run do, what is sent to the phone is taken by the socket, and
\* time passes: the timeout and the checks come.  select! picks among the ready
\* branches at random, so the end of the keepalive is not passed over for ever.
Fairness ==
  \A c \in Conns :
    WF_vars(Proceed(c)) /\ WF_vars(Check(c)) /\ SF_vars(DeadSignal(c))

FairSpec == Spec /\ Fairness

----------------------------------------------------------------------------
TypeOK ==
  /\ GateTypeOK
  /\ pc \in [Conns -> Steps] /\ state \in [Conns -> States]
  /\ info \in [Conns -> Devices \cup {NoDevice}]
  /\ asks \in [Conns -> Fps \cup {NoFp}]
  /\ connected \in Devices \cup {NoDevice} /\ strayed \in BOOLEAN
  /\ store \in [Devices -> Fps \cup {NoFp}]
  /\ ticking \in [Conns -> BOOLEAN]
  /\ misses \in [Conns -> 0..1] /\ quiet \in [Conns -> 0..2]

\* get_connected_device names a phone only while a session of that phone is there,
\* whatever the other sessions did meanwhile: the last one to pair, and its end
\* clears it.  The exception is a session that pairs and then sends another
\* device_id: it leaves the name behind (handle compares the new one at its end),
\* and no later end clears it unless a session of that phone ends.
ConnectedIsLive ==
  connected # NoDevice /\ ~strayed =>
    \E c \in Conns : info[c] = connected /\ pc[c] \notin {"new", "over"}

\* Every entry of the gate belongs to a session that waits for the user or is
\* about to remove it: here, unlike in the handshake of websocket_server.rs, no
\* entry is left by a session that has ended, and a click is lost only between
\* the end of the 120 s and the removal.
EntryIsWaitedFor ==
  \A d \in Devices : gate[d] # NoConn =>
    /\ info[gate[d]] = d
    /\ \/ pc[gate[d]] = "waiting" /\ chan[gate[d]] = "open"
       \/ pc[gate[d]] = "expired"

\* No session is stuck between two packets: the user is not waited for more
\* than the timeout, also when entries are replaced or removed by others.
SessionSettles ==
  \A c \in Conns : pc[c] \notin {"new", "loop", "over"} ~> pc[c] \in {"loop", "over"}

\* A phone that stops to answer is given up, whatever else it sends and wherever
\* its session is, unless it answers again: the keepalive ends.  And however it
\* ends, by two misses or by a Ping that cannot be sent, the session ends too.
SilentIsDropped ==
  \A c \in Conns :
    /\ ticking[c] /\ quiet[c] = 2 ~> quiet[c] = 0 \/ ~ticking[c]
    /\ pc[c] # "new" /\ ~ticking[c] ~> pc[c] = "over"
=============================================================================
