-------------------------- MODULE PairingHandshake --------------------------
(***************************************************************************)
(* The handshake of one connection and the pairing decision it may wait    *)
(* for: handle_peer up to the end of perform_handshake (transport/         *)
(* websocket_server.rs), the D-Bus methods accept_pairing, reject_pairing  *)
(* (dbus/transport_iface.rs) and unpair_device (dbus/mod.rs), and a crash  *)
(* of the daemon at any moment.                                            *)
(*                                                                         *)
(* Every connection is a task of its own; D-Bus calls run on other threads *)
(* of the same runtime.  A step of this module is what a task does between *)
(* two points where another thread can observe or change what it touches:  *)
(* the gate's mutex and each call into the store.                          *)
(***************************************************************************)
EXTENDS Naturals, PairingGate, PeerStore

CONSTANT NoDevice            \* no Hello received yet

ASSUME HandshakeAssumption == NoDevice \notin Devices

VARIABLES
  pc,        \* where the task of each connection is
  dev,       \* device_id of the Hello it received
  fp,        \* fingerprint of the PairRequest it received
  elapsed,   \* timers that have run out: 1, the 30 s of the whole handshake;
             \* 2, also the 120 s of the user's decision
  unpairing, \* devices between the remove and the flush of an unpair_device
  lastWrite, \* history: the connection that last wrote the store entry of a
             \* device; NoConn, an unpair_device or an earlier process
  reported,  \* history: what was said of the entry of a device since its last
             \* update began: the fingerprint of each PairAccept, or NoFp for
             \* the Ok of unpair_device
  early      \* history: devices told PairAccept as known ones, by an entry
             \* that was not on disk yet

taskVars == <<pc, dev, fp, elapsed>>
histVars == <<lastWrite, reported, early>>
vars     == <<gate, chan, store, durable, pc, dev, fp, elapsed, unpairing,
              lastWrite, reported, early>>

(***************************************************************************)
(*   idle        no connection yet                                         *)
(*   upgrade     TLS accept and WebSocket upgrade, under no timeout        *)
(*   hello, pairReq       reading until that packet arrives                *)
(*   trust, compare       is_trusted answered next; get_fingerprint next   *)
(*   register, waiting    at the gate: before register; on the oneshot     *)
(*   storing, flushing    inside store_device                              *)
(*   accepting, rejecting sending PairAccept; sending PairReject           *)
(*   cleanup     the decision timed out, gate.remove is next               *)
(*   admitted, closed     perform_handshake returned Ok; the task is over  *)
(***************************************************************************)
\* States in which the task is suspended at an .await inside the timeout(30 s).
Suspended == {"hello", "pairReq", "register", "waiting", "accepting",
              "rejecting", "cleanup"}
InHandshake == Suspended \cup {"trust", "compare", "storing", "flushing"}
PCs == InHandshake \cup {"idle", "upgrade", "admitted", "closed"}

Init ==
  /\ GateInit
  /\ StoreOpen
  /\ pc = [c \in Conns |-> "idle"]
  /\ dev = [c \in Conns |-> NoDevice]
  /\ fp = [c \in Conns |-> NoFp]
  /\ elapsed = [c \in Conns |-> 0]
  /\ unpairing = {}
  /\ lastWrite = [d \in Devices |-> NoConn]
  /\ reported = [d \in Devices |-> {}]
  /\ early = {}

Goto(c, from, to) == pc[c] = from /\ pc' = [pc EXCEPT ![c] = to]

----------------------------------------------------------------------------
\* The accept loop spawned handle_peer.
AcceptTcp(c) ==
  /\ Goto(c, "idle", "upgrade")
  /\ UNCHANGED <<gate, chan, store, durable, dev, fp, elapsed, unpairing, histVars>>

\* TLS and WebSocket are up, or one of them failed; the 30 s start here.
Upgrade(c) ==
  /\ \/ Goto(c, "upgrade", "hello")
     \/ Goto(c, "upgrade", "closed")
  /\ UNCHANGED <<gate, chan, store, durable, dev, fp, elapsed, unpairing, histVars>>

\* Hello received and answered.
RecvHello(c, d) ==
  /\ Goto(c, "hello", "pairReq")
  /\ dev' = [dev EXCEPT ![c] = d]
  /\ UNCHANGED <<gate, chan, store, durable, fp, elapsed, unpairing, histVars>>

\* The device_id that the PairRequest carries is ignored.
RecvPairRequest(c, f) ==
  /\ Goto(c, "pairReq", "trust")
  /\ fp' = [fp EXCEPT ![c] = f]
  /\ UNCHANGED <<gate, chan, store, durable, dev, elapsed, unpairing, histVars>>

\* End of stream, a socket error, Disconnect, or the Hello reply not sent.
\* A peer that leaves later is not noticed: the socket is not read again.
PeerLeaves(c) ==
  /\ Goto(c, "hello", "closed") \/ Goto(c, "pairReq", "closed")
  /\ UNCHANGED <<gate, chan, store, durable, dev, fp, elapsed, unpairing, histVars>>

----------------------------------------------------------------------------
\* is_trusted and get_fingerprint are two reads of the store.
CheckTrusted(c) ==
  /\ Goto(c, "trust", IF IsTrusted(dev[c]) THEN "compare" ELSE "register")
  /\ UNCHANGED <<gate, chan, store, durable, dev, fp, elapsed, unpairing, histVars>>

CompareFingerprint(c) ==
  /\ Goto(c, "compare", IF GetFingerprint(dev[c]) = fp[c] THEN "accepting"
                                                          ELSE "rejecting")
  /\ UNCHANGED <<gate, chan, store, durable, dev, fp, elapsed, unpairing, histVars>>

\* pairing_gate.register, then the PairingRequested event.
RegisterAtGate(c) ==
  /\ Goto(c, "register", "waiting")
  /\ GateRegister(dev[c], c)
  /\ UNCHANGED <<store, durable, dev, fp, elapsed, unpairing, histVars>>

\* (Mutant: a dropped sender counts as consent.)
DecideDroppedAccepts(c) ==
  /\ \/ /\ chan[c] \in {"accepted", "dropped"}
        /\ Goto(c, "waiting", "storing")
        /\ UNCHANGED gateVars
     \/ /\ chan[c] = "rejected"
        /\ Goto(c, "waiting", "rejecting")
        /\ UNCHANGED gateVars
     \/ /\ chan[c] = "open" /\ elapsed[c] = 2
        /\ Goto(c, "waiting", "cleanup")
        /\ GateAbandon(c)
  /\ UNCHANGED <<store, durable, dev, fp, elapsed, unpairing, histVars>>

\* timeout(120 s, rx): the receiver is polled before the timer.  A sender
\* dropped without a decision is handled as a rejection.
Decide(c) ==
  /\ \/ /\ chan[c] = "accepted"
        /\ Goto(c, "waiting", "storing")
        /\ UNCHANGED gateVars
     \/ /\ chan[c] \in {"rejected", "dropped"}
        /\ Goto(c, "waiting", "rejecting")
        /\ UNCHANGED gateVars
     \/ /\ chan[c] = "open" /\ elapsed[c] = 2
        /\ Goto(c, "waiting", "cleanup")
        /\ GateAbandon(c)
  /\ UNCHANGED <<store, durable, dev, fp, elapsed, unpairing, histVars>>

\* (History.)  c, or an unpair_device, begins to update the entry of d.
UpdateBegins(d, c) ==
  /\ lastWrite' = [lastWrite EXCEPT ![d] = c]
  /\ reported' = [reported EXCEPT ![d] = {}]
  /\ early' = early \ {d}

\* db.insert of store_device; an error ends the handshake.
InsertDevice(c) ==
  /\ \/ /\ Goto(c, "storing", "flushing")
        /\ StoreInsert(dev[c], fp[c])
        /\ UpdateBegins(dev[c], c)
     \/ /\ Goto(c, "storing", "closed")
        /\ UNCHANGED <<storeVars, histVars>>
  /\ UNCHANGED <<gate, chan, dev, fp, elapsed, unpairing>>

\* (Mutant: the result of the flush is ignored.)
FlushDeviceIgnored(c) ==
  /\ Goto(c, "flushing", "accepting")
  /\ StoreFlush \/ UNCHANGED storeVars
  /\ UNCHANGED <<gate, chan, dev, fp, elapsed, unpairing, histVars>>

\* db.flush of store_device; on an error the entry stays in the tree.
FlushDevice(c) ==
  /\ \/ Goto(c, "flushing", "accepting") /\ StoreFlush
     \/ Goto(c, "flushing", "closed") /\ UNCHANGED storeVars
  /\ UNCHANGED <<gate, chan, dev, fp, elapsed, unpairing, histVars>>

\* The entry that c answers for, which it has written or compared, is still there.
StillEntered(c) == IF chan[c] = "accepted" THEN lastWrite[dev[c]] = c
                                           ELSE store[dev[c]] = fp[c]

\* PairAccept, to a phone that the user has accepted and, silently, to a known one.
SendPairAccept(c) ==
  /\ \/ /\ Goto(c, "accepting", "admitted")
        /\ IF StillEntered(c)
           THEN /\ reported' = [reported EXCEPT ![dev[c]] = @ \cup {fp[c]}]
                /\ early' = IF chan[c] = "accepted" THEN early \ {dev[c]}
                            ELSE IF store[dev[c]] # durable[dev[c]] THEN early \cup {dev[c]}
                            ELSE early
           ELSE UNCHANGED <<reported, early>>
     \/ Goto(c, "accepting", "closed") /\ UNCHANGED <<reported, early>>
  /\ UNCHANGED <<gate, chan, store, durable, dev, fp, elapsed, unpairing, lastWrite>>

\* PairReject (a failure to send it is ignored), then the event, then bail.
SendPairReject(c) ==
  /\ Goto(c, "rejecting", "closed")
  /\ UNCHANGED <<gate, chan, store, durable, dev, fp, elapsed, unpairing, histVars>>

\* (Mutant: the removed Sender is kept alive, so its Receiver sleeps on.)
RemoveFromGateLeaky(c) ==
  /\ Goto(c, "cleanup", "closed")
  /\ gate' = [gate EXCEPT ![dev[c]] = NoConn]
  /\ UNCHANGED <<chan, store, durable, dev, fp, elapsed, unpairing, histVars>>

\* The decision timed out: gate.remove takes whatever entry the device has.
RemoveFromGate(c) ==
  /\ Goto(c, "cleanup", "closed")
  /\ GateRemove(dev[c])
  /\ UNCHANGED <<store, durable, dev, fp, elapsed, unpairing, histVars>>

----------------------------------------------------------------------------
\* A timer runs out.  tokio timers are never early and may be late.
Elapse(c) ==
  /\ \/ pc[c] \in InHandshake /\ elapsed[c] = 0
     \/ pc[c] = "waiting" /\ elapsed[c] = 1
  /\ elapsed' = [elapsed EXCEPT ![c] = @ + 1]
  /\ UNCHANGED <<gate, chan, store, durable, pc, dev, fp, unpairing, histVars>>

\* (Mutant: the timeout starts after the Hello.)
HandshakeTimeoutLate(c) ==
  /\ elapsed[c] >= 1
  /\ \E s \in Suspended \ {"hello"} : Goto(c, s, "closed")
  /\ IF pc[c] = "waiting" THEN GateAbandon(c) ELSE UNCHANGED gateVars
  /\ UNCHANGED <<store, durable, dev, fp, elapsed, unpairing, histVars>>

\* timeout(30 s, perform_handshake(..)) drops the handshake where it is
\* suspended, and with it the oneshot receiver; the gate is not told.
HandshakeTimeout(c) ==
  /\ elapsed[c] >= 1
  /\ \E s \in Suspended : Goto(c, s, "closed")
  /\ IF pc[c] = "waiting" THEN GateAbandon(c) ELSE UNCHANGED gateVars
  /\ UNCHANGED <<store, durable, dev, fp, elapsed, unpairing, histVars>>

----------------------------------------------------------------------------
\* (Mutant: the decision is sent and its entry left in the map.)
ResolvePairingKeepsEntry(d, verdict) ==
  /\ gate[d] # NoConn
  /\ chan' = [chan EXCEPT ![gate[d]] = IF @ = "open" THEN verdict ELSE @]
  /\ UNCHANGED <<gate, store, durable, taskVars, unpairing, histVars>>

\* D-Bus accept_pairing and reject_pairing, callable by anyone at any time.
ResolvePairing(d, verdict) ==
  /\ GateResolve(d, verdict)
  /\ UNCHANGED <<store, durable, taskVars, unpairing, histVars>>

\* D-Bus unpair_device: db.remove, and later db.flush, which may fail.
UnpairDevice(d) ==
  /\ d \notin unpairing
  /\ unpairing' = unpairing \cup {d}
  /\ StoreRemove(d)
  /\ UpdateBegins(d, NoConn)
  /\ UNCHANGED <<gate, chan, taskVars>>

FinishUnpair(d) ==
  /\ d \in unpairing
  /\ unpairing' = unpairing \ {d}
  /\ \/ /\ StoreFlush
        /\ reported' = IF lastWrite[d] = NoConn
                       THEN [reported EXCEPT ![d] = @ \cup {NoFp}] ELSE reported
     \/ UNCHANGED <<storeVars, reported>>
  /\ UNCHANGED <<gate, chan, taskVars, lastWrite, early>>

\* sled flushes on its own every half second.
BackgroundFlush ==
  /\ StoreFlush
  /\ UNCHANGED <<gate, chan, taskVars, unpairing, histVars>>

\* The daemon dies and is restarted (Restart=on-failure).
Crash ==
  /\ GateCrash
  /\ StoreCrash
  /\ pc' = [c \in Conns |-> IF pc[c] = "idle" THEN "idle" ELSE "closed"]
  /\ unpairing' = {}
  /\ UNCHANGED <<dev, fp, elapsed, histVars>>

----------------------------------------------------------------------------
\* What the task does by itself once it has what it waits for.
Proceed(c) ==
  \/ CheckTrusted(c)
  \/ CompareFingerprint(c)
  \/ RegisterAtGate(c)
  \/ Decide(c)
  \/ InsertDevice(c)
  \/ FlushDevice(c)
  \/ SendPairAccept(c)
  \/ SendPairReject(c)
  \/ RemoveFromGate(c)

FromPeer(c) ==
  \/ AcceptTcp(c)
  \/ Upgrade(c)
  \/ \E d \in Devices : RecvHello(c, d)
  \/ \E f \in Fingerprints : RecvPairRequest(c, f)
  \/ PeerLeaves(c)

FromUser(d) ==
  \/ \E v \in Verdicts : ResolvePairing(d, v)
  \/ UnpairDevice(d)
  \/ FinishUnpair(d)

RunNext ==
  \/ \E c \in Conns : Proceed(c) \/ FromPeer(c) \/ Elapse(c) \/ HandshakeTimeout(c)
  \/ \E d \in Devices : FromUser(d)
  \/ BackgroundFlush

Next == RunNext \/ Crash

Spec == Init /\ [][Next]_vars

\* The runtime polls a task that can run and fires a timer that has run out.
\* Nothing is assumed of peers, of the user, or of the TLS upgrade.
Fairness ==
  \A c \in Conns : WF_vars(Proceed(c)) /\ WF_vars(Elapse(c))
                                       /\ WF_vars(HandshakeTimeout(c))

FairSpec == Spec /\ Fairness

----------------------------------------------------------------------------
TypeOK ==
  /\ GateTypeOK
  /\ StoreTypeOK
  /\ pc \in [Conns -> PCs]
  /\ dev \in [Conns -> Devices \cup {NoDevice}]
  /\ fp \in [Conns -> Fingerprints \cup {NoFp}]
  /\ elapsed \in [Conns -> 0..2]
  /\ unpairing \subseteq Devices
  /\ lastWrite \in [Devices -> Conns \cup {NoConn}]
  /\ reported \in [Devices -> SUBSET (Fingerprints \cup {NoFp})]
  /\ early \subseteq Devices

----------------------------------------------------------------------------
(***************************************************************************)
(* The inductive invariant behind the safety properties below.             *)
(***************************************************************************)
\* What a connection has learnt and holds at each point of its handshake.
TaskInv ==
  \A c \in Conns :
    /\ pc[c] \in InHandshake \ {"hello"} => dev[c] \in Devices
    /\ pc[c] \in InHandshake \ {"hello", "pairReq"} => fp[c] \in Fingerprints
    /\ pc[c] \in {"idle", "upgrade", "hello", "pairReq", "trust", "compare",
                  "register"} => chan[c] = "unused"
    /\ pc[c] = "waiting" => chan[c] \notin {"unused", "gone"}
    /\ pc[c] \in {"storing", "flushing"} => chan[c] = "accepted"
    /\ chan[c] = "open" => pc[c] = "waiting"

\* An entry of the gate belongs to a connection of that device.
\* One whose receiver is gone has timed out.
OwnerInv ==
  \A d \in Devices : gate[d] # NoConn =>
    LET c == gate[d] IN
    /\ dev[c] = d
    /\ chan[c] = "gone" => pc[c] \in {"cleanup", "closed"} /\ elapsed[c] # 0

\* How far the last update of each device has come.
WriteInv ==
  \A d \in Devices :
    /\ lastWrite[d] # NoConn =>
         LET c == lastWrite[d] IN
         /\ dev[c] = d /\ fp[c] \in Fingerprints /\ chan[c] = "accepted"
         /\ pc[c] \in {"flushing", "accepting", "admitted", "closed"}
         /\ pc[c] \in {"flushing", "accepting"} => store[d] = fp[c]
         /\ pc[c] = "accepting" => durable[d] = fp[c]
         /\ pc[c] \in {"flushing", "accepting"} => reported[d] \subseteq {fp[c]}
    /\ d \in unpairing /\ lastWrite[d] = NoConn => store[d] = NoFp /\ reported[d] = {}
    /\ d \notin early => \A f \in reported[d] : store[d] = f /\ durable[d] = f

Inv == TypeOK /\ GateInv /\ TaskInv /\ OwnerInv /\ WriteInv

----------------------------------------------------------------------------
\* Whoever waits for the user can be reached: while a handshake waits on an
\* open oneshot, a click for its device resolves that very oneshot.  Breaks
\* if another connection of the device, a click, a cleanup or a crash ever
\* took the entry without waking the task it belonged to.
ClickReachesWaiter ==
  \A c \in Conns : pc[c] = "waiting" /\ chan[c] = "open" => gate[dev[c]] = c

\* A click that finds an entry is lost on nobody, unless the entry was left behind
\* by the 30 s timeout of handle_peer, which drops the handshake and does not tell
\* the gate: every other end of a handshake takes its entry away, also when other
\* connections of the device have registered, been decided or been cleaned up.
OnlyTimeoutLeavesEntry ==
  \A d \in Devices : gate[d] # NoConn =>
    LET c == gate[d] IN
    pc[c] \in {"waiting", "cleanup"} \/ (pc[c] = "closed" /\ elapsed[c] # 0)

\* A device becomes trusted by the user's consent only: the connection that
\* last wrote its store entry had been accepted, not rejected, superseded by
\* another connection of the device, or timed out.
TrustNeedsConsent ==
  \A d \in Devices : lastWrite[d] # NoConn => chan[lastWrite[d]] = "accepted"

\* What was reported survives a crash: whatever was said of the entry of a device
\* since its last update began, by any PairAccept, also the silent one to a known
\* phone, or by the Ok of unpair_device, a restarted daemon finds that fingerprint,
\* or no entry.  Pairings, unpairings and their flushes may overlap in any order.
\* One case is excepted, because the code lets it happen: a phone that comes back
\* while the flush of its own entry is under way, or after it has failed, is
\* admitted as a known one by an entry that a crash may still take away.
ReportedIsDurable ==
  \A d \in Devices \ early : \A f \in reported[d] : durable[d] = f

\* No handshake hangs, whatever the peer, the user and the other handshakes
\* do: it admits the peer or closes the connection.
HandshakeEnds ==
  \A c \in Conns : pc[c] \in InHandshake ~> pc[c] \in {"admitted", "closed"}
=============================================================================
