------------------------- MODULE MessageLoopProofs -------------------------
(***************************************************************************)
(* Proofs about the message loop of a connection.  Keepalive: for any      *)
(* lengths of its two sleeps.  PeerChannels: for any peers and callers and *)
(* any capacities; no request for the registry lock is lost or granted     *)
(* twice, and a jam is for good.                                           *)
(***************************************************************************)
EXTENDS Keepalive, PeerChannels, TLAPS

----------------------------------------------------------------------------
(* The keepalive. *)

\* Every step of the keepalive keeps its invariant.
LEMMA KeepaliveStep == KeepaliveInv /\ [KeepaliveNext]_keepaliveVars => KeepaliveInv'
<1> SUFFICES ASSUME KeepaliveInv, [KeepaliveNext]_keepaliveVars PROVE KeepaliveInv'
  OBVIOUS
<1> USE KeepaliveAssumption
    DEF KeepaliveInv, KeepaliveTypeOK, StageInv, TimeoutNeedsSilence, Timer, Off
<1>1. CASE RecvText
  <2>1. silence' = 0 /\ pingTimer' = Off /\ pongTimer' = Off /\ status' = "open"
    BY <1>1 DEF RecvText, EnterSelect
  <2>2. pending' = FALSE
    BY <1>1 DEF RecvText, EnterSelect
  <2>3. ~pending' /\ pending' \in BOOLEAN
    BY <2>2, Zenon
  <2> QED BY <2>1, <2>3
<1>2. CASE RecvOther \/ SendQueued
  BY <1>2 DEF RecvOther, SendQueued, EnterSelect
<1>3. CASE PingDue
  BY <1>3 DEF PingDue, EnterSelect
<1>4. CASE PongTimeout \/ OtherEnd
  BY <1>4 DEF PongTimeout, OtherEnd
<1>5. CASE Tick
  <2> USE <1>5 DEF Tick, CountDown
  <2>1. KeepaliveTypeOK'
    OBVIOUS
  <2>2. silence' >= silence
    OBVIOUS
  <2>3. silence' = silence + 1 \/ silence = MaxSilence
    OBVIOUS
  <2>4. StageInv'
    BY <2>1, <2>2, <2>3
  <2> QED BY <2>1, <2>2, <2>4
<1>6. CASE UNCHANGED keepaliveVars
  BY <1>6 DEF keepaliveVars
<1> QED
  BY <1>1, <1>2, <1>3, <1>4, <1>5, <1>6 DEF KeepaliveNext, Event

\* The inductive invariant: no stage of the keepalive is reached early.
THEOREM KeepaliveInvariant == KeepaliveSpec => []KeepaliveInv
<1>1. ASSUME KeepaliveInit PROVE KeepaliveInv
  <2>1. silence = 0 /\ pingTimer = Off /\ pongTimer = Off /\ status = "open"
    BY <1>1 DEF KeepaliveInit
  <2>2. ~pending /\ pending \in BOOLEAN
    BY <1>1, Zenon DEF KeepaliveInit
  <2> QED
    BY <2>1, <2>2, KeepaliveAssumption
    DEF KeepaliveInv, KeepaliveTypeOK, StageInv, TimeoutNeedsSilence, Timer, Off
<1> QED BY <1>1, KeepaliveStep, PTL DEF KeepaliveSpec

\* The variables keep their types.
THEOREM KeepaliveTypeCorrect == KeepaliveSpec => []KeepaliveTypeOK
<1>1. KeepaliveInv => KeepaliveTypeOK
  BY DEF KeepaliveInv
<1> QED BY <1>1, KeepaliveInvariant, PTL

\* No peer is given up before 2 * PingAfter + PongWait of silence.
THEOREM Patience == KeepaliveSpec => []TimeoutNeedsSilence
<1>1. KeepaliveInv => TimeoutNeedsSilence
  BY DEF KeepaliveInv
<1> QED BY <1>1, KeepaliveInvariant, PTL

\* An unanswered Ping is always timed: PongTimeout comes unless a message comes or the
\* select! is entered anew.  This is what UnansweredPingEnds rests on besides fairness.
THEOREM PingIsTimed == KeepaliveSpec => [](pending => pongTimer \in 0..PongWait)
<1> DEFINE Timed == pending => pongTimer \in 0..PongWait
<1>1. KeepaliveInit => Timed
  BY DEF KeepaliveInit
<1>2. KeepaliveInv /\ Timed /\ [KeepaliveNext]_keepaliveVars => Timed'
  <2> SUFFICES ASSUME KeepaliveInv, Timed, [KeepaliveNext]_keepaliveVars PROVE Timed'
    OBVIOUS
  <2>1. CASE RecvText
    BY <2>1 DEF RecvText, EnterSelect
  <2>2. CASE RecvOther \/ SendQueued \/ PingDue
    <3>1. pongTimer' \in {PongWait, Off} /\ (pongTimer' = Off => ~pending')
      BY <2>2, KeepaliveAssumption DEF RecvOther, SendQueued, PingDue, EnterSelect, Off
    <3> QED BY <3>1, KeepaliveAssumption DEF Off
  <2>3. CASE Tick
    <3>1. pending' = pending /\ pongTimer' = CountDown(pongTimer)
      BY <2>3 DEF Tick
    <3>2. pongTimer \in 0..PongWait => CountDown(pongTimer) \in 0..PongWait
      BY KeepaliveAssumption DEF CountDown
    <3> QED BY <3>1, <3>2
  <2>4. CASE PongTimeout \/ OtherEnd \/ UNCHANGED keepaliveVars
    <3>1. pending' = pending /\ pongTimer' = pongTimer
      BY <2>4, Zenon DEF PongTimeout, OtherEnd, keepaliveVars
    <3> QED BY <3>1
  <2> QED BY <2>1, <2>2, <2>3, <2>4 DEF KeepaliveNext, Event
<1> QED BY <1>1, <1>2, KeepaliveInvariant, PTL DEF KeepaliveSpec

----------------------------------------------------------------------------
(* The queue of the lock.  Head, Tail and Append are met in two lemmas only. *)
USE ChannelsAssumption

\* The queue w holds each of the tasks in W once, and no other.
Queues(w, W) ==
  /\ \A i, j \in 1..Len(w) : w[i] = w[j] => i = j
  /\ \A t \in Tasks : t \in W <=> \E i \in 1..Len(w) : w[i] = t

\* A task that is not in the queue yet asks.
LEMMA AskKeeps ==
  ASSUME NEW w \in Seq(Tasks), NEW W, NEW t \in Tasks, Queues(w, W), t \notin W
  PROVE  Append(w, t) \in Seq(Tasks) /\ Queues(Append(w, t), W \cup {t})
<1> DEFINE v == Append(w, t)
<1>1. /\ v \in Seq(Tasks) /\ Len(w) \in Nat /\ Len(v) = Len(w) + 1 /\ v[Len(w) + 1] = t
      /\ \A i \in 1..Len(w) : v[i] = w[i]
  OBVIOUS
<1> HIDE DEF v
<1>2. \A i \in 1..Len(v) : i = Len(w) + 1 \/ i \in 1..Len(w)
  BY <1>1
<1>3. \A i \in 1..Len(w) : v[i] # t
  BY <1>1 DEF Queues
<1>4. \A i, j \in 1..Len(v) : v[i] = v[j] => i = j
  BY <1>1, <1>2, <1>3 DEF Queues
<1>5. ASSUME NEW x \in Tasks PROVE x \in W \cup {t} <=> \E i \in 1..Len(v) : v[i] = x
  <2>1. 1..Len(w) \subseteq 1..Len(v) /\ Len(w) + 1 \in 1..Len(v)
    BY <1>1
  <2>2. x \in W <=> \E i \in 1..Len(w) : w[i] = x
    BY DEF Queues
  <2> QED BY <1>1, <1>2, <2>1, <2>2
<1> QED BY <1>1, <1>4, <1>5 DEF Queues, v

\* The first in the queue is served.
LEMMA GrantKeeps ==
  ASSUME NEW w \in Seq(Tasks), NEW W, Queues(w, W), w # <<>>
  PROVE  /\ Head(w) \in Tasks /\ Head(w) \in W
         /\ Tail(w) \in Seq(Tasks) /\ Queues(Tail(w), W \ {Head(w)})
<1> DEFINE v == Tail(w)
           t == Head(w)
<1>1. /\ v \in Seq(Tasks) /\ Len(v) \in Nat /\ Len(w) \in Nat /\ Len(w) = Len(v) + 1
      /\ t = w[1] /\ 1 \in 1..Len(w) /\ t \in Tasks
      /\ \A i \in 1..Len(v) : i + 1 \in 1..Len(w) /\ v[i] = w[i + 1]
  OBVIOUS
<1> HIDE DEF v, t
<1>2. t \in W
  BY <1>1 DEF Queues
<1>3. \A i, j \in 1..Len(v) : v[i] = v[j] => i = j
  <2> SUFFICES ASSUME NEW i \in 1..Len(v), NEW j \in 1..Len(v), v[i] = v[j] PROVE i = j
    OBVIOUS
  <2>1. i + 1 = j + 1
    BY <1>1 DEF Queues
  <2> QED BY <2>1
<1>4. ASSUME NEW x \in Tasks PROVE x \in W \ {t} <=> \E i \in 1..Len(v) : v[i] = x
  <2>1. ASSUME NEW i \in 1..Len(v), v[i] = x PROVE x \in W \ {t}
    <3>1. i + 1 \in 1..Len(w) /\ w[i + 1] = x /\ i + 1 # 1
      BY <1>1, <2>1
    <3> QED BY <1>1, <3>1 DEF Queues
  <2>2. ASSUME x \in W \ {t} PROVE \E i \in 1..Len(v) : v[i] = x
    <3>1. PICK i \in 1..Len(w) : w[i] = x
      BY <2>2 DEF Queues
    <3>2. i # 1
      BY <1>1, <2>2, <3>1
    <3>3. i - 1 \in 1..Len(v) /\ (i - 1) + 1 = i
      BY <1>1, <3>2
    <3> QED BY <1>1, <3>1, <3>3
  <2> QED BY <2>1, <2>2
<1> QED BY <1>1, <1>2, <1>3, <1>4 DEF Queues, v, t

\* The tasks that asked for the lock.
Wanting == {t \in Tasks : pc[t] \in WantsLock}

\* QueueExact in the words of Queues.
LEMMA ExactIsQueues ==
  ASSUME waiting \in Seq(Tasks) PROVE QueueExact <=> Queues(waiting, Wanting)
<1>1. DOMAIN waiting = 1..Len(waiting)
  OBVIOUS
<1> QED BY <1>1 DEF QueueExact, Queues, Wanting

----------------------------------------------------------------------------
\* Everything but the queue has its type.
Shapes ==
  /\ pc \in [Tasks -> PCs]
  /\ target \in [Tasks -> Peers]
  /\ chan \in [Peers -> 0..ChanCap]
  /\ feature \in 0..FeatureCap
  /\ registered \subseteq Peers
  /\ readers \subseteq Tasks
  /\ toTell \subseteq Peers

\* The queue is that of the tasks that want the lock.
Lined == waiting \in Seq(Tasks) /\ Queues(waiting, Wanting)

\* Who holds a read guard; who is registered; where a Pong goes; what only a
\* loop, a caller or the broadcast does.
Roles ==
  /\ readers = {t \in Peers \cup Callers : pc[t] = "push"}
  /\ registered = {p \in Peers : pc[p] # "over"}
  /\ \A p \in Peers : target[p] = p /\ pc[p] \notin {"idle", "collect", "pick", "done"}

\* The inductive invariant of PeerChannels.
ChannelsInv == Shapes /\ Lined /\ Roles

\* How a step that puts its task into the queue, serves it, serves it and puts
\* it back at the end, or leaves the queue alone keeps the queue right.
LEMMA Asks ==
  ASSUME Shapes, Lined, NEW t \in Tasks, NEW to \in WantsLock, Ask(t, to), pc[t] \notin WantsLock
  PROVE  Lined'
<1>1. /\ waiting \in Seq(Tasks) /\ Queues(waiting, Wanting) /\ t \notin Wanting
      /\ waiting' = Append(waiting, t)
  BY DEF Lined, Wanting, Ask
<1>2. Append(waiting, t) \in Seq(Tasks) /\ Queues(Append(waiting, t), Wanting \cup {t})
  BY <1>1, AskKeeps
<1>3. Wanting' = Wanting \cup {t}
  BY DEF Wanting, Ask, Goto, Shapes
<1> QED BY <1>1, <1>2, <1>3 DEF Lined

LEMMA Served ==
  ASSUME Shapes, Lined, NEW t \in Tasks, NEW to, Granted(t), Goto(t, to), to \notin WantsLock,
         waiting' = Tail(waiting)
  PROVE  Lined'
<1>1. /\ waiting \in Seq(Tasks) /\ Queues(waiting, Wanting) /\ waiting # <<>> /\ t = Head(waiting)
  BY DEF Lined, Granted
<1>2. Tail(waiting) \in Seq(Tasks) /\ Queues(Tail(waiting), Wanting \ {t})
  BY <1>1, GrantKeeps
<1>3. Wanting' = Wanting \ {t}
  BY DEF Wanting, Goto, Shapes
<1> QED BY <1>2, <1>3 DEF Lined

LEMMA ServedAndAsks ==
  ASSUME Shapes, Lined, NEW t \in Tasks, NEW to \in WantsLock, Granted(t), Goto(t, to),
         waiting' = Append(Tail(waiting), t)
  PROVE  Lined'
<1> DEFINE v == Tail(waiting)
<1>1. /\ waiting \in Seq(Tasks) /\ Queues(waiting, Wanting) /\ waiting # <<>> /\ t = Head(waiting)
  BY DEF Lined, Granted
<1>2. v \in Seq(Tasks) /\ Queues(v, Wanting \ {t}) /\ t \in Wanting
  BY <1>1, GrantKeeps
<1> HIDE DEF v
<1>3. t \notin Wanting \ {t}
  OBVIOUS
<1>4. Append(v, t) \in Seq(Tasks) /\ Queues(Append(v, t), (Wanting \ {t}) \cup {t})
  BY <1>2, <1>3, AskKeeps
<1>5. Wanting' = (Wanting \ {t}) \cup {t}
  BY <1>2 DEF Wanting, Goto, Shapes
<1> QED BY <1>4, <1>5 DEF Lined, v

LEMMA Unqueued ==
  ASSUME Shapes, Lined, NEW t \in Tasks, NEW to, Goto(t, to), to \notin WantsLock,
         pc[t] \notin WantsLock, waiting' = waiting
  PROVE  Lined'
<1>1. Wanting' = Wanting
  BY DEF Wanting, Goto, Shapes
<1> QED BY <1>1 DEF Lined

----------------------------------------------------------------------------
\* At the start nobody waits.
LEMMA ChannelsInit == Init => ChannelsInv
<1> SUFFICES ASSUME Init PROVE ChannelsInv
  OBVIOUS
<1> USE DEF Init
<1>1. Shapes
  BY DEF Shapes, PCs, Tasks
<1>2. Roles
  BY DEF Roles, Tasks
<1>3. Lined
  <2>1. waiting \in Seq(Tasks) /\ Len(waiting) = 0
    OBVIOUS
  <2>2. Wanting = {}
    BY DEF Wanting, WantsLock, Counting
  <2> QED BY <2>1, <2>2 DEF Lined, Queues
<1> QED BY <1>1, <1>2, <1>3 DEF ChannelsInv

\* A step of a loop, of a sender, of a new caller, of the broadcast.
LEMMA LoopKeeps ==
  ASSUME ChannelsInv, NEW p \in Peers, Receive(p) \/ Leave(p) \/ LoopStep(p)
  PROVE  ChannelsInv'
<1> USE DEF Shapes, Roles, PCs, WantsLock, Counting
<1>0. p \in Tasks /\ p \in Peers \cup Callers /\ Shapes /\ Lined /\ Roles /\ pc[p] \in PCs
  BY DEF ChannelsInv, Tasks
<1>1. ASSUME NEW to \in WantsLock, Ask(p, to), pc[p] \in {"select", "write"},
             UNCHANGED <<target, chan, feature, registered, readers, toTell>>,
             to \in Counting \cup {"leaving"}
      PROVE  ChannelsInv'
  <2>1. Lined'
    BY <1>0, <1>1, Asks
  <2>2. Shapes' /\ Roles'
    BY <1>0, <1>1 DEF Ask, Goto, Tasks
  <2> QED BY <2>1, <2>2 DEF ChannelsInv
<1>2. CASE Receive(p)
  BY <1>1, <1>2 DEF Receive
<1>3. CASE Leave(p)
  BY <1>1, <1>3 DEF Leave
<1>4. CASE TakeQueued(p)
  <2>1. Lined'
    BY <1>0, <1>4, Unqueued DEF TakeQueued
  <2>2. Shapes' /\ Roles'
    BY <1>0, <1>4 DEF TakeQueued, Goto, Tasks
  <2> QED BY <2>1, <2>2 DEF ChannelsInv
<1>5. CASE Written(p)
  BY <1>1, <1>5 DEF Written
<1>6. CASE PushFeature(p)
  <2>1. Lined'
    BY <1>0, <1>6, Unqueued DEF PushFeature
  <2>2. Shapes' /\ Roles'
    BY <1>0, <1>6 DEF PushFeature, Goto, Tasks
  <2> QED BY <2>1, <2>2 DEF ChannelsInv
<1>7. CASE Count(p)
  <2>1. Lined'
    <3>1. CASE pc[p] \in {"count", "countFeature"}
      BY <1>0, <1>7, <3>1, Served DEF Count
    <3>2. CASE pc[p] = "countPing"
      BY <1>0, <1>7, <3>2, ServedAndAsks DEF Count
    <3> QED BY <1>7, <3>1, <3>2 DEF Count
  <2>2. Shapes' /\ Roles'
    BY <1>0, <1>7 DEF Count, Goto, Tasks
  <2> QED BY <2>1, <2>2 DEF ChannelsInv
<1>8. CASE Remove(p)
  <2>1. Lined'
    BY <1>0, <1>8, Served DEF Remove
  <2>2. Shapes' /\ Roles'
    BY <1>0, <1>8 DEF Remove, Goto, Tasks
  <2> QED BY <2>1, <2>2 DEF ChannelsInv
<1> QED BY <1>2, <1>3, <1>4, <1>5, <1>6, <1>7, <1>8 DEF LoopStep, SeeCancelled

LEMMA SenderKeeps ==
  ASSUME ChannelsInv, NEW t \in Peers \cup Callers, SendStep(t)
  PROVE  ChannelsInv'
<1> USE DEF Shapes, Roles, PCs, WantsLock, Counting
<1>0. t \in Tasks /\ Shapes /\ Lined /\ Roles /\ pc[t] \in PCs
  BY DEF ChannelsInv, Tasks
<1>1. CASE Lookup(t)
  <2>1. Lined'
    BY <1>0, <1>1, Served DEF Lookup, Resume
  <2>2. Shapes' /\ Roles'
    BY <1>0, <1>1 DEF Lookup, Resume, Goto, Tasks
  <2> QED BY <2>1, <2>2 DEF ChannelsInv
<1>2. CASE Push(t)
  <2>1. Lined'
    BY <1>0, <1>2, Unqueued DEF Push, Resume
  <2>2. chan' \in [Peers -> 0..ChanCap]
    BY <1>0, <1>2 DEF Push, HasRoom
  <2>3. Shapes' /\ Roles'
    BY <1>0, <1>2, <2>2 DEF Push, Resume, Goto, Tasks
  <2> QED BY <2>1, <2>3 DEF ChannelsInv
<1> QED BY <1>1, <1>2 DEF SendStep

LEMMA CallerKeeps ==
  ASSUME ChannelsInv, NEW k \in Callers, NEW p \in Peers, CallSend(k, p)
  PROVE  ChannelsInv'
<1> USE DEF Shapes, Roles, PCs, WantsLock, Counting
<1>0. k \in Tasks /\ k \notin Peers /\ Shapes /\ Lined /\ Roles
  BY DEF ChannelsInv, Tasks
<1>1. Lined'
  BY <1>0, Asks DEF CallSend
<1>2. Shapes' /\ Roles'
  BY <1>0 DEF CallSend, Ask, Goto, Tasks
<1> QED BY <1>1, <1>2 DEF ChannelsInv

LEMMA BroadcastKeeps ==
  ASSUME ChannelsInv, StartBroadcast \/ BroadcastStep
  PROVE  ChannelsInv'
<1> USE DEF Shapes, Roles, PCs, WantsLock, Counting
<1> DEFINE b == Broadcaster
<1>0. b \in Tasks /\ b \notin Peers \cup Callers /\ Shapes /\ Lined /\ Roles
  BY DEF ChannelsInv, Tasks
<1>1. CASE StartBroadcast
  <2>1. Lined'
    BY <1>0, <1>1, Asks DEF StartBroadcast
  <2>2. Shapes' /\ Roles'
    BY <1>0, <1>1 DEF StartBroadcast, Ask, Goto, Tasks
  <2> QED BY <2>1, <2>2 DEF ChannelsInv
<1>2. CASE Collect
  <2>1. Lined'
    BY <1>0, <1>2, Served DEF Collect
  <2>2. Shapes' /\ Roles'
    BY <1>0, <1>2 DEF Collect, Goto, Tasks
  <2> QED BY <2>1, <2>2 DEF ChannelsInv
<1>3. CASE Pick
  <2>1. Lined'
    BY <1>0, <1>3, Unqueued DEF Pick
  <2>2. Shapes' /\ Roles'
    BY <1>0, <1>3 DEF Pick, Goto, Tasks
  <2> QED BY <2>1, <2>2 DEF ChannelsInv
<1>4. CASE PushBroadcast
  <2>1. Lined'
    BY <1>0, <1>4, Unqueued DEF PushBroadcast
  <2>2. chan' \in [Peers -> 0..ChanCap]
    BY <1>0, <1>4 DEF PushBroadcast, HasRoom
  <2>3. Shapes' /\ Roles'
    BY <1>0, <1>4, <2>2 DEF PushBroadcast, Goto, Tasks
  <2> QED BY <2>1, <2>3 DEF ChannelsInv
<1> QED BY <1>1, <1>2, <1>3, <1>4 DEF BroadcastStep

\* Every step keeps the invariant.
LEMMA ChannelsStep == ChannelsInv /\ [Next]_vars => ChannelsInv'
<1> SUFFICES ASSUME ChannelsInv, [Next]_vars PROVE ChannelsInv'
  OBVIOUS
<1>1. CASE UNCHANGED vars
  BY <1>1 DEF vars, ChannelsInv, Shapes, Lined, Roles, Wanting, Queues
<1> QED BY <1>1, LoopKeeps, SenderKeeps, CallerKeeps, BroadcastKeeps DEF Next

\* The invariant holds for ever.
THEOREM ChannelsInvariant == Spec => []ChannelsInv
<1> QED BY ChannelsInit, ChannelsStep, PTL DEF Spec

\* Types, and that no request for the lock is lost or served twice.
THEOREM ChannelsTypeCorrect == Spec => []TypeOK
<1>1. ChannelsInv => TypeOK
  BY ExactIsQueues DEF ChannelsInv, Shapes, Lined, TypeOK
<1> QED BY <1>1, ChannelsInvariant, PTL

----------------------------------------------------------------------------
\* A loop that a jam is about does nothing but push to itself.
LEMMA JamStep ==
  ASSUME ChannelsInv, Next, NEW r \in readers, NEW p \in Peers, Jam(r, p)
  PROVE  Jammed'
<1> USE DEF ChannelsInv, Shapes, Roles
<1>1. /\ r \in Peers \cup Callers /\ r # Broadcaster /\ pc[r] = "push" /\ target[r] = p
      /\ chan[p] = ChanCap /\ ~HasRoom(p) /\ p \in Tasks /\ r \in Tasks
      /\ p = r \/ pc[p] \in WantsLock \/ (pc[p] = "feature" /\ feature = FeatureCap)
      /\ pc[p] \notin {"select", "write", "over"} /\ p \in registered
      /\ readers # {}
  BY DEF Jam, Stuck, HasRoom, Tasks, WantsLock, Counting
<1>2. ASSUME r \in readers', target'[r] = p, chan'[p] = ChanCap,
             pc'[p] = pc[p], pc[p] = "feature" => feature' = feature
      PROVE  Jammed'
  BY <1>1, <1>2 DEF Jammed, Jam, Stuck
<1>3. ASSUME NEW q \in Peers, Receive(q) \/ Leave(q) \/ TakeQueued(q) \/ Written(q)
      PROVE  Jammed'
  BY <1>1, <1>2, <1>3 DEF Receive, Leave, TakeQueued, Written, Ask, Goto
<1>4. ASSUME NEW q \in Peers, PushFeature(q)
      PROVE  Jammed'
  <2>1. feature \in Nat /\ feature < FeatureCap /\ pc[q] = "feature"
    BY <1>4 DEF PushFeature
  <2>2. q # p /\ q # r /\ pc[p] # "feature"
    BY <1>1, <2>1 DEF WantsLock, Counting
  <2>3. UNCHANGED <<readers, target, chan>> /\ pc'[p] = pc[p]
    BY <1>4, <2>2 DEF PushFeature, Goto
  <2> QED BY <1>1, <1>2, <2>2, <2>3
<1>5. ASSUME NEW q \in Peers, Count(q) \/ Remove(q)
      PROVE  Jammed'
  BY <1>1, <1>5 DEF Count, Remove, Granted
<1>6. ASSUME NEW k \in Callers, NEW q \in Peers, CallSend(k, q)
      PROVE  Jammed'
  BY <1>1, <1>2, <1>6 DEF CallSend, Ask, Goto
<1>7. ASSUME NEW t \in Peers \cup Callers, Lookup(t)
      PROVE  Jammed'
  <2>1. CASE t = p
    <3>1. p \in readers' /\ UNCHANGED <<target, chan>> /\ target[p] = p
      BY <1>1, <1>7, <2>1 DEF Lookup
    <3> QED BY <1>1, <3>1 DEF Jammed, Jam, Stuck
  <2>2. CASE t # p
    BY <1>1, <1>2, <1>7, <2>2 DEF Lookup, Resume, Goto
  <2> QED BY <2>1, <2>2
<1>8. ASSUME NEW t \in Peers \cup Callers, Push(t)
      PROVE  Jammed'
  <2>1. target[t] # p
    BY <1>1, <1>8 DEF Push, Open
  <2>2. t # r /\ t # p
    BY <1>1, <1>8, <2>1 DEF Push, WantsLock, Counting
  <2>3. target[t] \in Peers /\ chan'[p] = chan[p]
    BY <1>8, <2>1 DEF Push, Tasks
  <2> QED BY <1>1, <1>2, <1>8, <2>2, <2>3 DEF Push, Resume, Goto
<1>9. CASE StartBroadcast \/ Collect \/ Pick
  BY <1>1, <1>2, <1>9 DEF StartBroadcast, Collect, Pick, Ask, Goto
<1>10. CASE PushBroadcast
  BY <1>1, <1>2, <1>10 DEF PushBroadcast, Open, Goto
<1> QED
  BY <1>3, <1>4, <1>5, <1>6, <1>7, <1>8, <1>9, <1>10 DEF Next, LoopStep, SeeCancelled, SendStep, BroadcastStep

\* A jam of the registry lock is for good: proved for any number of peers and
\* callers, and any capacities.
THEOREM JamLasts == Spec => JamIsForever
<1>1. ChannelsInv /\ [Next]_vars => [Jammed => Jammed']_vars
  BY JamStep DEF Jammed
<1>2. Spec => [][Jammed => Jammed']_vars
  BY <1>1, ChannelsInvariant, PTL DEF Spec
<1> QED BY <1>2 DEF JamIsForever

\* If the first in the queue cannot have the lock, some holder of a read guard goes on,
\* or the loop that it waits for does, or the registry is jammed: there is no other
\* deadlock.  This is what LockWaitsEnd rests on besides fairness.
OnlyAJamHolds ==
  waiting # <<>> =>
    \/ Granted(Head(waiting))
    \/ \E r \in readers :
         /\ pc[r] = "push" /\ r # Broadcaster
         /\ LET p == target[r] IN
              \/ ~Open(p) \/ HasRoom(p)
              \/ pc[p] = "select" /\ chan[p] > 0
              \/ pc[p] = "write"
              \/ pc[p] = "feature" /\ feature < FeatureCap
              \/ Jam(r, p)

THEOREM JamIsTheOnlyLock == Spec => []OnlyAJamHolds
<1>1. ASSUME ChannelsInv, waiting # <<>>, ~Granted(Head(waiting)) PROVE OnlyAJamHolds
  <2> USE DEF ChannelsInv, Shapes, Roles
  <2>1. PICK r \in readers : TRUE
    BY <1>1 DEF Granted
  <2> DEFINE p == target[r]
  <2>2. r \in Peers \cup Callers /\ pc[r] = "push" /\ r # Broadcaster /\ p \in Peers
    BY <1>1, <2>1 DEF Tasks
  <2> HIDE DEF p
  <2>3. /\ pc[p] \in PCs \ {"idle", "collect", "pick", "done"}
        /\ target[p] = p /\ p # Broadcaster
    BY <1>1, <2>2 DEF Tasks
  <2>4. chan[p] < ChanCap \/ (chan[p] = ChanCap /\ chan[p] > 0)
    BY <1>1, <2>2
  <2>5. feature < FeatureCap \/ feature = FeatureCap
    BY <1>1
  <2>6. CASE pc[p] = "push"
    <3>1. p \in readers
      BY <1>1, <2>2, <2>6
    <3>2. HasRoom(p) \/ Jam(p, p)
      BY <2>3, <2>4, <3>1 DEF HasRoom, Jam, Stuck
    <3> QED BY <2>3, <2>6, <3>1, <3>2 DEF OnlyAJamHolds
  <2>7. CASE pc[p] # "push"
    <3>1. pc[p] \in WantsLock \cup {"select", "feature", "write", "over"}
      BY <2>3, <2>7 DEF PCs
    <3>2. \/ ~Open(p) \/ HasRoom(p) \/ (pc[p] = "select" /\ chan[p] > 0) \/ pc[p] = "write"
          \/ (pc[p] = "feature" /\ feature < FeatureCap) \/ Jam(r, p)
      BY <2>1, <2>4, <2>5, <3>1 DEF Open, HasRoom, Jam, Stuck, p
    <3> QED BY <2>1, <2>2, <3>2 DEF OnlyAJamHolds, p
  <2> QED BY <2>6, <2>7
<1>2. ChannelsInv => OnlyAJamHolds
  BY <1>1 DEF OnlyAJamHolds
<1> QED BY <1>2, ChannelsInvariant, PTL
=============================================================================
