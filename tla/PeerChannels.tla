---------------------------- MODULE PeerChannels ----------------------------
(***************************************************************************)
(* Who waits for whom once peers are connected: the bounded channel of     *)
(* each peer, the read-write lock of the registry, and the feature queue.  *)
(* PeerRegistry (transport/peer.rs), route_packet (transport/mod.rs), the  *)
(* select! loop of handle_peer (transport/websocket_server.rs) and the     *)
(* D-Bus method send_packet (dbus/transport_iface.rs).                     *)
(*                                                                         *)
(* Tasks are the loops of the peers, D-Bus callers, and the broadcast of   *)
(* the shutdown.  Channels are counters: what a packet says only matters   *)
(* for where the loop takes it.  tokio's RwLock grants in the order of the *)
(* requests; a task that takes the write lock, changes the map and gives   *)
(* the lock back without waiting in between does so in one step here.      *)
(***************************************************************************)
EXTENDS Naturals, Sequences

CONSTANTS
  Peers,        \* connected peers, one connection each
  Callers,      \* D-Bus calls of send_packet that may be under way together
  Broadcaster,  \* run_server, which broadcasts once
  ChanCap,      \* capacity of a peer's channel (64)
  FeatureCap    \* capacity of the feature channel (256), which is never read

ASSUME ChannelsAssumption ==
  /\ Peers \cap Callers = {} /\ Broadcaster \notin Peers \cup Callers
  /\ ChanCap \in Nat \ {0} /\ FeatureCap \in Nat \ {0}

Tasks == Peers \cup Callers \cup {Broadcaster}

VARIABLES
  pc,          \* where each task is
  target,      \* the peer whose channel it sends to; a peer, for its Pong
  chan,        \* packets in the channel of each peer
  feature,     \* packets in the feature channel
  registered,  \* keys of the registry
  readers,     \* tasks that hold a read guard of the registry
  waiting,     \* tasks that asked for the lock, in order
  toTell       \* handles that the broadcast has not served

vars == <<pc, target, chan, feature, registered, readers, waiting, toTell>>

(***************************************************************************)
(* Loops:   select        waiting for any branch                           *)
(*          count         inc_received or inc_sent, then select            *)
(*          countPing, countFeature   inc_received of such a packet        *)
(*          feature       feature_tx.send                                  *)
(*          write         writing a packet to the socket                   *)
(*          leaving, over left the loop, registry.remove is next; ended    *)
(* Senders: lookup        send_to: asked for the read lock                 *)
(*          push          in tx.send of the target's channel               *)
(* Others:  idle; collect the broadcast asked for the read lock in get_all;*)
(*          pick          about to take its next handle; done              *)
(***************************************************************************)
Counting  == {"count", "countPing", "countFeature"}
WantsLock == Counting \cup {"leaving", "lookup", "collect"}

Init ==
  /\ pc = [t \in Tasks |-> IF t \in Peers THEN "select" ELSE "idle"]
  /\ target \in [Tasks -> Peers]
  /\ \A p \in Peers : target[p] = p
  /\ chan = [p \in Peers |-> 0]
  /\ feature = 0
  /\ registered = Peers
  /\ readers = {} /\ waiting = <<>> /\ toTell = {}

Goto(t, to) == pc' = [pc EXCEPT ![t] = to]

\* t goes to a step that needs the lock, behind those who already asked.
Ask(t, to) == Goto(t, to) /\ waiting' = Append(waiting, t)

\* Ctrl-C was pressed, and run_server has seen it.  A loop that sees the token even
\* before leaves, as far as the others can tell, because its peer does.
Cancelled == pc[Broadcaster] # "idle"

Open(p) == pc[p] # "over"
HasRoom(p) == chan[p] < ChanCap

----------------------------------------------------------------------------
\* A text message arrives; one branch body runs at a time.
Receive(p) ==
  /\ pc[p] = "select"
  /\ \E next \in Counting : Ask(p, next)
  /\ UNCHANGED <<target, chan, feature, registered, readers, toTell>>

\* The peer closes, or the socket fails, or no Pong came, or ...
Leave(p) ==
  /\ pc[p] = "select"
  /\ Ask(p, "leaving")
  /\ UNCHANGED <<target, chan, feature, registered, readers, toTell>>

\* ... the loop sees the token, and leaves whether or not its Disconnect is sent.
SeeCancelled(p) == Cancelled /\ Leave(p)

\* (Mutant: the last packet stays in the channel.)
TakeButLast(p) ==
  /\ pc[p] = "select" /\ chan[p] > 1
  /\ chan' = [chan EXCEPT ![p] = @ - 1]
  /\ Goto(p, "write")
  /\ UNCHANGED <<target, feature, registered, readers, waiting, toTell>>

\* Some(pkt) = peer_rx.recv(): the slot is free as soon as this returns.
TakeQueued(p) ==
  /\ pc[p] = "select" /\ chan[p] > 0
  /\ chan' = [chan EXCEPT ![p] = @ - 1]
  /\ Goto(p, "write")
  /\ UNCHANGED <<target, feature, registered, readers, waiting, toTell>>

\* The socket accepts the packet, or fails.
Written(p) ==
  /\ pc[p] = "write"
  /\ Ask(p, "count") \/ Ask(p, "leaving")
  /\ UNCHANGED <<target, chan, feature, registered, readers, toTell>>

\* feature_tx.send; the receiver exists as long as main does, unread.
PushFeature(p) ==
  /\ pc[p] = "feature" /\ feature < FeatureCap
  /\ feature' = feature + 1
  /\ Goto(p, "select")
  /\ UNCHANGED <<target, chan, registered, readers, waiting, toTell>>

----------------------------------------------------------------------------
\* D-Bus send_packet.
CallSend(k, p) ==
  /\ pc[k] = "idle"
  /\ target' = [target EXCEPT ![k] = p]
  /\ Ask(k, "lookup")
  /\ UNCHANGED <<chan, feature, registered, readers, toTell>>

\* The first in the queue gets the lock: a reader at once, a writer when no
\* read guard is left.
Granted(t) ==
  /\ waiting # <<>> /\ t = Head(waiting)
  /\ pc[t] \in {"lookup", "collect"} \/ readers = {}

\* inc_received, inc_sent: take the write lock, count, go on.
Count(p) ==
  /\ Granted(p)
  /\ \/ pc[p] = "count" /\ Goto(p, "select") /\ waiting' = Tail(waiting)
     \/ pc[p] = "countFeature" /\ Goto(p, "feature") /\ waiting' = Tail(waiting)
     \/ pc[p] = "countPing" /\ Goto(p, "lookup") /\ waiting' = Append(Tail(waiting), p)
  /\ UNCHANGED <<target, chan, feature, registered, readers, toTell>>

\* registry.remove, then the task and its Receiver are gone.
Remove(p) ==
  /\ pc[p] = "leaving" /\ Granted(p)
  /\ Goto(p, "over")
  /\ registered' = registered \ {p}
  /\ waiting' = Tail(waiting)
  /\ UNCHANGED <<target, chan, feature, readers, toTell>>

\* What a loop does after its Pong, and a caller after its packet.
Resume(t) == Goto(t, IF t \in Peers THEN "select" ELSE "idle")

\* (Mutant: a failed lookup keeps its place in the queue.)
LookupStays(t) ==
  /\ pc[t] = "lookup" /\ Granted(t)
  /\ IF target[t] \in registered
       THEN Goto(t, "push") /\ readers' = readers \cup {t} /\ waiting' = Tail(waiting)
       ELSE Resume(t) /\ UNCHANGED <<readers, waiting>>
  /\ UNCHANGED <<target, chan, feature, registered, toTell>>

\* (Mutant: a send to a peer that is not connected tries again.)
LookupRetries(t) ==
  /\ pc[t] = "lookup" /\ Granted(t)
  /\ IF target[t] \in registered
       THEN Goto(t, "push") /\ readers' = readers \cup {t} /\ waiting' = Tail(waiting)
       ELSE waiting' = Append(Tail(waiting), t) /\ UNCHANGED <<pc, readers>>
  /\ UNCHANGED <<target, chan, feature, registered, toTell>>

\* send_to: "not connected", or keep the read guard and send.
Lookup(t) ==
  /\ pc[t] = "lookup" /\ Granted(t)
  /\ waiting' = Tail(waiting)
  /\ IF target[t] \in registered
       THEN Goto(t, "push") /\ readers' = readers \cup {t}
       ELSE Resume(t) /\ UNCHANGED readers
  /\ UNCHANGED <<target, chan, feature, registered, toTell>>

\* tx.send of send_to: waits for room; the guard is dropped afterwards.  Until
\* then the loop of the target cannot remove itself, so its channel stays open.
Push(t) ==
  /\ pc[t] = "push" /\ t # Broadcaster
  /\ \/ Open(target[t]) /\ HasRoom(target[t])
        /\ chan' = [chan EXCEPT ![target[t]] = @ + 1]
     \/ ~Open(target[t]) /\ UNCHANGED chan
  /\ readers' = readers \ {t}
  /\ Resume(t)
  /\ UNCHANGED <<target, feature, registered, waiting, toTell>>

----------------------------------------------------------------------------
\* The accept loop sees the token.  broadcast: get_all clones the handles and gives
\* the lock back, ...
StartBroadcast ==
  /\ pc[Broadcaster] = "idle"
  /\ Ask(Broadcaster, "collect")
  /\ UNCHANGED <<target, chan, feature, registered, readers, toTell>>

Collect ==
  /\ pc[Broadcaster] = "collect" /\ Granted(Broadcaster)
  /\ waiting' = Tail(waiting)
  /\ toTell' = registered
  /\ Goto(Broadcaster, "pick")
  /\ UNCHANGED <<target, chan, feature, registered, readers>>

\* ... and serves one after the other, in the order of the map.
Pick ==
  /\ pc[Broadcaster] = "pick"
  /\ \/ /\ toTell = {}
        /\ Goto(Broadcaster, "done")
        /\ UNCHANGED <<target, toTell>>
     \/ \E p \in toTell :
          /\ target' = [target EXCEPT ![Broadcaster] = p]
          /\ toTell' = toTell \ {p}
          /\ Goto(Broadcaster, "push")
  /\ UNCHANGED <<chan, feature, registered, readers, waiting>>

\* (Mutant: the channel of a peer that has left is not noticed to be closed.)
PushBroadcastToClosed ==
  /\ pc[Broadcaster] = "push"
  /\ HasRoom(target[Broadcaster])
  /\ chan' = [chan EXCEPT ![target[Broadcaster]] = @ + 1]
  /\ Goto(Broadcaster, "pick")
  /\ UNCHANGED <<target, feature, registered, readers, waiting, toTell>>

PushBroadcast ==
  /\ pc[Broadcaster] = "push"
  /\ LET p == target[Broadcaster] IN
       \/ Open(p) /\ HasRoom(p) /\ chan' = [chan EXCEPT ![p] = @ + 1]
       \/ ~Open(p) /\ UNCHANGED chan
  /\ Goto(Broadcaster, "pick")
  /\ UNCHANGED <<target, feature, registered, readers, waiting, toTell>>

----------------------------------------------------------------------------
LoopStep(p) ==
  SeeCancelled(p) \/ TakeQueued(p) \/ Written(p) \/ PushFeature(p) \/ Count(p) \/ Remove(p)

SendStep(t) == Lookup(t) \/ Push(t)

BroadcastStep == Collect \/ Pick \/ PushBroadcast

Next ==
  \/ \E p \in Peers : Receive(p) \/ Leave(p) \/ LoopStep(p)
  \/ \E k \in Callers, p \in Peers : CallSend(k, p)
  \/ \E t \in Peers \cup Callers : SendStep(t)
  \/ StartBroadcast
  \/ BroadcastStep

Spec == Init /\ [][Next]_vars

\* A task that can go on does, and every socket write ends: no peer stops
\* reading.  Strong fairness: select! picks among the ready branches at random,
\* so neither a queued packet nor the token is passed over for ever.  Peers need
\* not send or leave, callers need not call, and nobody need press Ctrl-C.
Fairness ==
  /\ \A p \in Peers : /\ WF_vars(LoopStep(p) \/ SendStep(p))
                      /\ SF_vars(TakeQueued(p)) /\ SF_vars(SeeCancelled(p))
  /\ \A k \in Callers : WF_vars(SendStep(k))
  /\ WF_vars(BroadcastStep)

FairSpec == Spec /\ Fairness

----------------------------------------------------------------------------
PCs == WantsLock \cup {"select", "feature", "write", "over", "push", "idle",
                       "pick", "done"}

\* A task that asked for the lock is in the queue exactly once, and nobody
\* else is: no request is lost or granted twice.
QueueExact ==
  /\ \A i, j \in DOMAIN waiting : waiting[i] = waiting[j] => i = j
  /\ \A t \in Tasks : pc[t] \in WantsLock <=> \E i \in DOMAIN waiting : waiting[i] = t

TypeOK ==
  /\ pc \in [Tasks -> PCs]
  /\ target \in [Tasks -> Peers]
  /\ chan \in [Peers -> 0..ChanCap]
  /\ feature \in 0..FeatureCap
  /\ registered \subseteq Peers
  /\ readers \subseteq Tasks
  /\ waiting \in Seq(Tasks)
  /\ toTell \subseteq Peers
  /\ QueueExact

\* The loop of p waits for room in the feature queue, which nobody makes.
Stuck(p) == pc[p] = "feature" /\ feature = FeatureCap

\* The registry is locked for good: the holder of a read guard waits for room
\* in the channel of a peer whose loop will never again take a packet out,
\* because it waits for the lock itself, is the holder (a Pong to its own full
\* channel), or waits for room in the feature queue.
Jam(r, p) ==
  /\ r \in readers /\ target[r] = p /\ chan[p] = ChanCap
  /\ \/ p = r
     \/ pc[p] \in WantsLock
     \/ Stuck(p)

Jammed == \E r \in readers, p \in Peers : Jam(r, p)

\* A jam never resolves, whatever the peers and the callers do then.
JamIsForever == [][Jammed => Jammed']_vars

\* A jam is the only way to wait for the registry lock for ever: otherwise no
\* pattern of readers, writers, pushes and departures starves a loop or a caller.
LockWaitsEnd ==
  \A t \in Peers \cup Callers : pc[t] \in WantsLock ~> (pc[t] \notin WantsLock \/ Jammed)

\* The packet of a D-Bus caller is queued or refused, unless the registry jams or
\* the loop of the peer is stuck at the feature queue.  Without the two exceptions
\* this is what the comment of send_to says, and not so.
SendsReturn ==
  \A k \in Callers : pc[k] = "push" ~> (pc[k] # "push" \/ Jammed \/ Stuck(target[k]))

\* After Ctrl-C every loop has ended and the broadcast has returned, wherever the
\* loops, their channels and the callers were: unless the registry jams, or a loop
\* is stuck at the feature queue, which holds up the exit as long as main waits for
\* it (every task owns an event_tx).
ShutdownCompletes ==
  Cancelled ~> \/ pc[Broadcaster] = "done" /\ \A p \in Peers : pc[p] = "over"
               \/ Jammed \/ \E p \in Peers : Stuck(p)
=============================================================================
