--------------------------- MODULE PairingProofs ---------------------------
(***************************************************************************)
(* Proofs about PairingGate, PairingHandshake and PairingDialogs, for any  *)
(* number of connections, devices and fingerprints: what the gate promises *)
(* to any user of it; that the handshake uses it so, and the handshake's   *)
(* own safety properties, crashes included; and that a request is decided  *)
(* by a click that was meant for it.                                       *)
(***************************************************************************)
EXTENDS PairingHandshake, PairingDialogs, TLAPS

----------------------------------------------------------------------------
(* The gate. *)

\* Every operation of the gate keeps its invariant: whatever is registered,
\* resolved, removed or abandoned, an entry is pending and a waiter can be woken.
LEMMA GateStep == GateInv /\ [GateNext]_gateVars => GateInv'
<1> SUFFICES ASSUME GateInv, [GateNext]_gateVars PROVE GateInv'
  OBVIOUS
<1> USE GateAssumption DEF GateInv, GateTypeOK, NoLostWakeup, EntriesPending,
                           ChanStates, Verdicts
<1>1. ASSUME NEW d \in Devices, NEW c \in Conns, GateRegister(d, c)
      PROVE  GateInv'
  <2> USE <1>1 DEF GateRegister, GateInsert, SenderDropped
  <2>1. GateTypeOK'
    OBVIOUS
  <2>2. gate'[d] = c /\ chan'[c] = "open"
    OBVIOUS
  <2>3. \A e \in Devices : gate[e] # c \/ chan[c] = "gone"
    OBVIOUS
  <2>4. ASSUME NEW x \in Conns, chan'[x] = "open"
        PROVE  \E e \in Devices : gate'[e] = x
    <3>1. CASE x = c
      BY <2>2, <3>1
    <3>2. CASE x # c
      <4>1. chan[x] = "open" /\ gate[d] # x
        BY <2>4, <3>2
      <4>2. PICK e \in Devices : gate[e] = x
        BY <4>1
      <4> QED BY <4>1, <4>2
    <3> QED BY <3>1, <3>2
  <2>5. EntriesPending'
    BY <2>2, <2>3
  <2> QED BY <2>1, <2>4, <2>5
<1>2. ASSUME NEW d \in Devices, NEW v \in Verdicts, GateResolve(d, v)
      PROVE  GateInv'
  BY <1>2 DEF GateResolve
<1>3. ASSUME NEW d \in Devices, GateRemove(d)
      PROVE  GateInv'
  BY <1>3 DEF GateRemove, SenderDropped
<1>4. ASSUME NEW c \in Conns, GateAbandon(c)
      PROVE  GateInv'
  BY <1>4 DEF GateAbandon
<1>5. CASE GateCrash
  BY <1>5 DEF GateCrash
<1>6. CASE UNCHANGED gateVars
  BY <1>6 DEF gateVars
<1> QED
  BY <1>1, <1>2, <1>3, <1>4, <1>5, <1>6 DEF GateNext

\* An empty gate satisfies it.
LEMMA GateStart == GateInit => GateInv
BY GateAssumption DEF GateInit, GateInv, GateTypeOK, NoLostWakeup, EntriesPending, ChanStates

\* The invariant holds in every state of any user of the gate.
THEOREM GateInvariant == GateSpec => []GateInv
<1> QED BY GateStart, GateStep, PTL DEF GateSpec

\* No handshake task waits for a decision that nobody can deliver any more.
THEOREM GateNoLostWakeup == GateSpec => []NoLostWakeup
<1>1. GateInv => NoLostWakeup
  BY DEF GateInv
<1> QED
  BY <1>1, GateInvariant, PTL

\* A delivered decision is final.
THEOREM GateDecisionSticks == GateSpec => DecisionSticks
<1> DEFINE Sticks == \A c \in Conns :
                       chan[c] \in Verdicts => chan'[c] \in {chan[c], "gone"}
<1>1. GateInv /\ [GateNext]_gateVars => [Sticks]_chan
  <2> SUFFICES ASSUME GateInv, GateNext, NEW c \in Conns, chan[c] \in Verdicts
               PROVE  chan'[c] \in {chan[c], "gone"}
    BY DEF gateVars
  <2> USE DEF GateInv, GateTypeOK, EntriesPending, Verdicts, ChanStates
  <2>1. CASE \E d \in Devices, x \in Conns : GateRegister(d, x)
    BY <2>1 DEF GateRegister, GateInsert, SenderDropped
  <2>2. CASE \E d \in Devices, v \in Verdicts : GateResolve(d, v)
    BY <2>2 DEF GateResolve
  <2>3. CASE \E d \in Devices : GateRemove(d)
    BY <2>3 DEF GateRemove, SenderDropped
  <2>4. CASE \E x \in Conns : GateAbandon(x)
    BY <2>4 DEF GateAbandon
  <2>5. CASE GateCrash
    BY <2>5 DEF GateCrash
  <2> QED BY <2>1, <2>2, <2>3, <2>4, <2>5 DEF GateNext
<1>2. GateSpec => [][Sticks]_chan
  BY <1>1, GateInvariant, PTL DEF GateSpec
<1> QED
  BY <1>2 DEF DecisionSticks

----------------------------------------------------------------------------
(* The handshake. *)

USE GateAssumption, StoreAssumption, HandshakeAssumption

\* The part of the invariant that is not the gate's.
RestInv == TypeOK /\ TaskInv /\ OwnerInv /\ WriteInv

\* Every step of the handshake is a step of the gate or leaves it alone.
LEMMA GateSimulation == Inv /\ [Next]_vars => [GateNext]_gateVars
<1> SUFFICES ASSUME Inv, [Next]_vars PROVE [GateNext]_gateVars
  OBVIOUS
<1> USE DEF gateVars
<1>1. ASSUME NEW c \in Conns, Proceed(c) PROVE [GateNext]_gateVars
  <2>1. pc[c] \in InHandshake \ {"hello"} => dev[c] \in Devices
    BY DEF Inv, TaskInv
  <2>2. CASE RegisterAtGate(c)
    BY <2>1, <2>2 DEF RegisterAtGate, Goto, GateNext, InHandshake, Suspended
  <2>3. CASE RemoveFromGate(c)
    BY <2>1, <2>3 DEF RemoveFromGate, Goto, GateNext, InHandshake, Suspended
  <2>4. CASE Decide(c)
    BY <2>4 DEF Decide, GateNext
  <2>5. CASE ~(RegisterAtGate(c) \/ RemoveFromGate(c) \/ Decide(c))
    BY <1>1, <2>5 DEF Proceed, CheckTrusted, CompareFingerprint, InsertDevice,
                      FlushDevice, SendPairAccept, SendPairReject
  <2> QED BY <2>2, <2>3, <2>4, <2>5
<1>2. ASSUME NEW c \in Conns, FromPeer(c) \/ Elapse(c) PROVE [GateNext]_gateVars
  BY <1>2 DEF FromPeer, AcceptTcp, Upgrade, RecvHello, RecvPairRequest,
              PeerLeaves, Elapse
<1>3. ASSUME NEW c \in Conns, HandshakeTimeout(c) PROVE [GateNext]_gateVars
  BY <1>3 DEF HandshakeTimeout, GateNext
<1>4. ASSUME NEW d \in Devices, FromUser(d) PROVE [GateNext]_gateVars
  BY <1>4 DEF FromUser, ResolvePairing, UnpairDevice, FinishUnpair, GateNext
<1>5. CASE BackgroundFlush
  BY <1>5 DEF BackgroundFlush
<1>6. CASE Crash
  BY <1>6 DEF Crash, GateNext
<1>7. CASE UNCHANGED vars
  BY <1>7 DEF vars
<1> QED
  BY <1>1, <1>2, <1>3, <1>4, <1>5, <1>6, <1>7 DEF Next, RunNext

LEMMA InitInv == Init => Inv
<1> SUFFICES ASSUME Init PROVE Inv
  OBVIOUS
<1> USE DEF Init, GateInit, StoreOpen
<1>1. GateInv
  BY GateStart
<1>2. TypeOK
  BY <1>1 DEF TypeOK, GateInv, StoreTypeOK, PCs
<1>3. TaskInv /\ OwnerInv
  BY DEF TaskInv, OwnerInv, InHandshake, Suspended
<1>4. WriteInv
  <2>1. \A d \in Devices : lastWrite[d] = NoConn /\ reported[d] = {} /\ unpairing = {}
    OBVIOUS
  <2> QED BY <2>1 DEF WriteInv
<1> QED BY <1>1, <1>2, <1>3, <1>4 DEF Inv

\* Steps of a connection that read packets or the store and move on.
LEMMA ReadingStep ==
  ASSUME Inv, NEW c \in Conns,
         \/ FromPeer(c) \/ Elapse(c) \/ CheckTrusted(c)
         \/ CompareFingerprint(c) \/ SendPairReject(c)
  PROVE  RestInv'
<1> USE DEF Inv, TypeOK, GateTypeOK, StoreTypeOK, storeVars, histVars, taskVars,
            Goto, PCs, InHandshake, Suspended
<1>1. UNCHANGED <<gate, chan, store, durable, unpairing, lastWrite, reported>>
  BY DEF FromPeer, AcceptTcp, Upgrade, RecvHello, RecvPairRequest, PeerLeaves,
         Elapse, CheckTrusted, CompareFingerprint, SendPairReject
<1>2. CASE AcceptTcp(c) \/ Upgrade(c) \/ PeerLeaves(c) \/ SendPairReject(c)
  <2>1. TypeOK' /\ TaskInv' /\ OwnerInv'
    BY <1>1, <1>2 DEF TaskInv, OwnerInv, AcceptTcp, Upgrade, PeerLeaves, SendPairReject
  <2>2. WriteInv'
    BY <1>1, <1>2 DEF WriteInv, AcceptTcp, Upgrade, PeerLeaves, SendPairReject
  <2> QED BY <2>1, <2>2 DEF RestInv
<1>3. CASE \E d \in Devices : RecvHello(c, d)
  <2>1. \A d \in Devices : gate[d] # c
    BY <1>3 DEF RecvHello, TaskInv, GateInv, EntriesPending
  <2> QED
    BY <1>1, <1>3, <2>1 DEF RestInv, TaskInv, OwnerInv, WriteInv, RecvHello
<1>4. CASE \E f \in Fingerprints : RecvPairRequest(c, f)
  BY <1>1, <1>4 DEF RestInv, TaskInv, OwnerInv, WriteInv, RecvPairRequest
<1>5. CASE CheckTrusted(c) \/ CompareFingerprint(c)
  BY <1>1, <1>5 DEF RestInv, TaskInv, OwnerInv, WriteInv,
     CheckTrusted, CompareFingerprint
<1>6. CASE Elapse(c)
  BY <1>1, <1>6 DEF RestInv, TaskInv, OwnerInv, WriteInv, Elapse
<1> QED BY <1>2, <1>3, <1>4, <1>5, <1>6 DEF FromPeer

\* Steps of a connection at the gate.
LEMMA GateUserStep ==
  ASSUME Inv, NEW c \in Conns,
         RegisterAtGate(c) \/ Decide(c) \/ RemoveFromGate(c) \/ HandshakeTimeout(c)
  PROVE  RestInv'
<1> USE DEF Inv, TypeOK, GateTypeOK, StoreTypeOK, histVars, storeVars, gateVars,
            Goto, PCs, InHandshake, Suspended, ChanStates
<1>1. UNCHANGED <<store, durable, dev, fp, elapsed, unpairing, lastWrite, reported>>
  BY DEF RegisterAtGate, Decide, RemoveFromGate, HandshakeTimeout
<1>2. CASE RegisterAtGate(c)
  <2>1. dev[c] \in Devices /\ chan[c] = "unused"
    BY <1>2 DEF RegisterAtGate, TaskInv
  <2>2. TypeOK' /\ OwnerInv'
    BY <1>1, <1>2, <2>1 DEF RegisterAtGate, GateRegister, GateInsert, SenderDropped, OwnerInv
  <2>3. TaskInv'
    BY <1>1, <1>2, <2>1 DEF RegisterAtGate, GateRegister, GateInsert, SenderDropped, TaskInv
  <2>4. WriteInv'
    BY <1>1, <1>2, <2>1
    DEF RegisterAtGate, GateRegister, GateInsert, SenderDropped, WriteInv
  <2> QED BY <2>2, <2>3, <2>4 DEF RestInv
<1>3. CASE Decide(c)
  <2>1. TypeOK' /\ OwnerInv'
    BY <1>1, <1>3 DEF Decide, GateAbandon, OwnerInv
  <2>2. TaskInv'
    BY <1>1, <1>3 DEF Decide, GateAbandon, TaskInv
  <2>3. WriteInv'
    BY <1>1, <1>3 DEF Decide, GateAbandon, WriteInv
  <2> QED BY <2>1, <2>2, <2>3 DEF RestInv
<1>4. CASE RemoveFromGate(c)
  <2>1. dev[c] \in Devices
    BY <1>4 DEF RemoveFromGate, TaskInv
  <2>2. TypeOK' /\ OwnerInv'
    BY <1>1, <1>4, <2>1 DEF RemoveFromGate, GateRemove, SenderDropped, OwnerInv
  <2>3. TaskInv'
    BY <1>1, <1>4, <2>1 DEF RemoveFromGate, GateRemove, SenderDropped, TaskInv
  <2>4. WriteInv'
    BY <1>1, <1>4, <2>1 DEF RemoveFromGate, GateRemove, SenderDropped, WriteInv
  <2> QED BY <2>2, <2>3, <2>4 DEF RestInv
<1>5. CASE HandshakeTimeout(c)
  <2>1. TypeOK' /\ OwnerInv'
    BY <1>1, <1>5 DEF HandshakeTimeout, GateAbandon, OwnerInv
  <2>2. TaskInv'
    BY <1>1, <1>5 DEF HandshakeTimeout, GateAbandon, TaskInv
  <2>3. WriteInv'
    BY <1>1, <1>5 DEF HandshakeTimeout, GateAbandon, WriteInv
  <2> QED BY <2>1, <2>2, <2>3 DEF RestInv
<1> QED BY <1>2, <1>3, <1>4, <1>5

\* Steps of a connection that the user accepted, and of a known one.
LEMMA StoringStep ==
  ASSUME Inv, NEW c \in Conns, InsertDevice(c) \/ FlushDevice(c) \/ SendPairAccept(c)
  PROVE  RestInv'
<1> USE DEF Inv, TypeOK, GateTypeOK, StoreTypeOK, histVars, storeVars, gateVars,
            Goto, PCs, InHandshake, Suspended
<1>1. UNCHANGED <<gate, chan, dev, fp, elapsed, unpairing>>
  BY DEF InsertDevice, FlushDevice, SendPairAccept
<1>2. dev[c] \in Devices /\ fp[c] \in Fingerprints
  BY DEF InsertDevice, FlushDevice, SendPairAccept, TaskInv
<1>3. OwnerInv'
  <2>1. /\ pc[c] \in {"storing", "flushing", "accepting"}
        /\ \A x \in Conns \ {c} : pc'[x] = pc[x]
    BY DEF InsertDevice, FlushDevice, SendPairAccept
  <2> QED  BY <1>1, <2>1 DEF OwnerInv
<1>4. CASE InsertDevice(c)
  <2>1. TypeOK' /\ TaskInv'
    BY <1>1, <1>2, <1>4 DEF InsertDevice, UpdateBegins, StoreInsert, TaskInv
  <2>2. WriteInv'
    BY <1>1, <1>2, <1>4 DEF InsertDevice, UpdateBegins, StoreInsert, TaskInv, WriteInv
  <2> QED BY <1>3, <2>1, <2>2 DEF RestInv
<1>5. CASE FlushDevice(c)
  <2>1. TypeOK' /\ TaskInv'
    BY <1>1, <1>2, <1>5 DEF FlushDevice, StoreFlush, TaskInv
  <2>2. WriteInv'
    BY <1>1, <1>2, <1>5 DEF FlushDevice, StoreFlush, WriteInv
  <2> QED BY <1>3, <2>1, <2>2 DEF RestInv
<1>6. CASE SendPairAccept(c)
  <2>1. TypeOK' /\ TaskInv'
    BY <1>1, <1>2, <1>6 DEF SendPairAccept, TaskInv
  <2>2. WriteInv'
    BY <1>1, <1>2, <1>6 DEF SendPairAccept, StillEntered, WriteInv
  <2> QED BY <1>3, <2>1, <2>2 DEF RestInv
<1> QED BY <1>4, <1>5, <1>6

\* Steps of D-Bus callers.
LEMMA UserStep ==
  ASSUME Inv, NEW d \in Devices, FromUser(d)
  PROVE  RestInv'
<1> USE DEF Inv, TypeOK, GateTypeOK, StoreTypeOK, histVars, storeVars, gateVars,
            taskVars, ChanStates, Verdicts
<1>1. CASE \E v \in Verdicts : ResolvePairing(d, v)
  <2>1. TypeOK' /\ OwnerInv'
    BY <1>1 DEF ResolvePairing, GateResolve, OwnerInv
  <2>2. TaskInv'
    BY <1>1 DEF ResolvePairing, GateResolve, TaskInv
  <2>3. WriteInv'
    BY <1>1 DEF ResolvePairing, GateResolve, WriteInv
  <2> QED BY <2>1, <2>2, <2>3 DEF RestInv
<1>2. CASE UnpairDevice(d)
  <2>1. TypeOK' /\ OwnerInv' /\ TaskInv'
    BY <1>2 DEF UnpairDevice, UpdateBegins, StoreRemove, OwnerInv, TaskInv
  <2>2. WriteInv'
    BY <1>2 DEF UnpairDevice, UpdateBegins, StoreRemove, WriteInv
  <2> QED BY <2>1, <2>2 DEF RestInv
<1>3. CASE FinishUnpair(d)
  <2>1. TypeOK' /\ OwnerInv' /\ TaskInv'
    BY <1>3 DEF FinishUnpair, StoreFlush, OwnerInv, TaskInv
  <2>2. WriteInv'
    BY <1>3 DEF FinishUnpair, StoreFlush, WriteInv
  <2> QED BY <2>1, <2>2 DEF RestInv
<1> QED BY <1>1, <1>2, <1>3 DEF FromUser

\* The environment: sled's flush and the crash.
LEMMA EnvironmentStep ==
  ASSUME Inv, BackgroundFlush \/ Crash \/ UNCHANGED vars
  PROVE  RestInv'
<1> USE DEF Inv, TypeOK, GateTypeOK, StoreTypeOK, histVars, taskVars, ChanStates,
            PCs, InHandshake, Suspended
<1>1. CASE BackgroundFlush
  BY <1>1 DEF BackgroundFlush, StoreFlush, RestInv, OwnerInv, TaskInv, WriteInv
<1>2. CASE Crash
  <2>1. TypeOK' /\ OwnerInv' /\ TaskInv'
    BY <1>2 DEF Crash, GateCrash, StoreCrash, OwnerInv, TaskInv
  <2>2. WriteInv'
    BY <1>2 DEF Crash, GateCrash, StoreCrash, WriteInv
  <2> QED BY <2>1, <2>2 DEF RestInv
<1>3. CASE UNCHANGED vars
  BY <1>3 DEF vars, RestInv, OwnerInv, TaskInv, WriteInv
<1> QED BY <1>1, <1>2, <1>3

LEMMA InvStep == Inv /\ [Next]_vars => Inv'
<1> SUFFICES ASSUME Inv, [Next]_vars PROVE Inv'
  OBVIOUS
<1>1. GateInv'
  BY GateSimulation, GateStep DEF Inv
<1>2. RestInv'
  BY ReadingStep, GateUserStep, StoringStep, UserStep, EnvironmentStep
  DEF Next, RunNext, Proceed
<1> QED BY <1>1, <1>2 DEF Inv, RestInv

\* The inductive invariant: what each connection, each entry of the gate and
\* each entry of the store has gone through.
THEOREM Invariant == Spec => []Inv
BY InitInv, InvStep, PTL DEF Spec

\* The variables keep their types.
THEOREM TypeCorrect == Spec => []TypeOK
<1>1. Inv => TypeOK
  BY DEF Inv
<1> QED BY <1>1, Invariant, PTL

\* A click reaches the handshake that waits for it.
THEOREM ClickReaches == Spec => []ClickReachesWaiter
<1>1. Inv => ClickReachesWaiter
  <2> SUFFICES ASSUME Inv, NEW c \in Conns, pc[c] = "waiting", chan[c] = "open"
               PROVE  gate[dev[c]] = c
    BY DEF ClickReachesWaiter
  <2>1. PICK d \in Devices : gate[d] = c
    BY DEF Inv, GateInv, NoLostWakeup
  <2> QED BY <2>1 DEF Inv, OwnerInv
<1> QED BY <1>1, Invariant, PTL

\* Only a handshake that has timed out leaves an entry behind.
THEOREM OnlyTimeout == Spec => []OnlyTimeoutLeavesEntry
<1>1. Inv => OnlyTimeoutLeavesEntry
  BY DEF Inv, TypeOK, GateTypeOK, GateInv, EntriesPending, TaskInv, OwnerInv, OnlyTimeoutLeavesEntry
<1> QED BY <1>1, Invariant, PTL

\* The store trusts a device because the user accepted it, for nothing else.
THEOREM Consent == Spec => []TrustNeedsConsent
<1>1. Inv => TrustNeedsConsent
  BY DEF Inv, WriteInv, TrustNeedsConsent
<1> QED BY <1>1, Invariant, PTL

\* What was reported of a pairing or an unpairing survives a crash, but for a phone
\* admitted as a known one before its entry was on disk.
THEOREM Durability == Spec => []ReportedIsDurable
<1>1. Inv => ReportedIsDurable
  BY DEF Inv, TypeOK, WriteInv, ReportedIsDurable
<1> QED BY <1>1, Invariant, PTL

----------------------------------------------------------------------------
(* The dialogs. *)
USE DialogAssumption

\* The daemon's part of a request is the gate's.
LEMMA DialogSimulation == DialogInv /\ [DialogNext]_requestVars => [GateNext]_gateVars
<1> SUFFICES ASSUME DialogInv, DialogNext PROVE [GateNext]_gateVars
  BY DEF requestVars, gateVars
<1> USE DEF gateVars
<1>1. ASSUME NEW c \in Conns, Request(c) \/ GiveUp(c) \/ CleanUp(c) PROVE [GateNext]_gateVars
  BY <1>1 DEF Request, GiveUp, CleanUp, GateNext
<1>2. ASSUME NEW x \in Dialogs, Deliver(x) PROVE [GateNext]_gateVars
  <2>1. clicked[x] \in Verdicts /\ DevOf[x[1]] \in Devices
    BY <1>2 DEF Deliver, DialogInv, RequestInv, Dialogs
  <2> QED BY <1>2, <2>1 DEF Deliver, Resolve, GateNext
<1>3. ASSUME NEW c \in Conns, SendRequested(c) \/ Emit(c) \/ Lag(c) PROVE [GateNext]_gateVars
  BY <1>3 DEF SendRequested, Emit, Lag
<1>4. ASSUME NEW x \in Dialogs, NEW v \in Verdicts, Answer(x, v) PROVE [GateNext]_gateVars
  BY <1>4 DEF Answer
<1>5. CASE QuitGtk \/ \E w \in Windows : OpenWindow(w) \/ CloseWindow(w)
  BY <1>5 DEF OpenWindow, CloseWindow, QuitGtk
<1> QED BY <1>1, <1>2, <1>3, <1>4, <1>5 DEF DialogNext

\* No connection's request is the dialog of nobody.
LEMMA NobodysDialog == NoDialog \notin Dialogs
BY GateAssumption DEF NoDialog, Dialogs

\* A new request replaces the entry of its device; it is crowded, or alone on its way.
LEMMA RequestKeeps ==
  ASSUME DialogInv, GateInv', NEW c \in Conns, Request(c)
  PROVE  DialogInv'
<1> USE DEF DialogInv, DialogTypeOK, GateInv, GateTypeOK, Stages, Request, Pass
<1> DEFINE d == DevOf[c]
<1>0. d \in Devices /\ stage[c] = "none" /\ chan[c] = "unused" /\ c # NoConn
  BY DEF RequestInv
<1>1. DialogTypeOK'
  OBVIOUS
<1>2. /\ \A x \in Conns \ {c} : stage'[x] = stage[x] /\ (chan'[x] = chan[x] \/ chan'[x] = "dropped")
      /\ stage'[c] = "unsent" /\ chan'[c] = "open" /\ gate'[d] = c
      /\ \A e \in Devices \ {d} : gate'[e] = gate[e]
      /\ UNCHANGED <<dialog, clicked, decider>>
  BY DEF GateRegister, GateInsert, SenderDropped
<1>3. ASSUME NEW x \in Conns \ {c}, DevOf[x] = d PROVE chan'[x] # "open"
  <2>1. CASE chan[x] = "open"
    <3>1. gate[d] = x
      BY <1>3, <2>1 DEF NoLostWakeup, RequestInv
    <3> QED BY <1>0, <1>3, <2>1, <3>1 DEF GateRegister, GateInsert, SenderDropped
  <2> QED BY <1>2, <2>1
<1>4. \A x \in Conns \ {c} : OnItsWay(x)' <=> OnItsWay(x)
  BY <1>2 DEF OnItsWay
<1>5. RequestInv'
  <2>1. \A e \in Devices : gate'[e] # NoConn => DevOf[gate'[e]] = e
    BY <1>0, <1>2 DEF RequestInv
  <2>2. ASSUME NEW y \in Conns \ crowded', NEW x \in Conns, chan'[y] = "open",
               DevOf[x] = DevOf[y], OnItsWay(x)'
        PROVE  x = y
    <3>1. CASE y = c
      BY <1>4, <2>2, <3>1 DEF Rivals
    <3>2. CASE y # c
      <4>1. DevOf[y] # d /\ chan[y] = "open" /\ y \notin crowded
        BY <1>2, <1>3, <2>2, <3>2
      <4> QED BY <1>4, <2>2, <4>1 DEF RequestInv
    <3> QED BY <3>1, <3>2
  <2>3. \A x \in Conns : stage'[x] = "none" => chan'[x] = "unused"
    <3>1. ASSUME NEW x \in Conns, stage'[x] = "none" PROVE chan'[x] = "unused"
      <4>1. x # c /\ chan[x] = "unused"
        BY <1>2, <3>1 DEF RequestInv
      <4> QED BY <4>1 DEF GateRegister, GateInsert, SenderDropped
    <3> QED BY <3>1
  <2>4. \A x \in Conns : stage'[x] \in {"none", "unsent", "sent"} =>
          \A w \in Windows : dialog'[<<x, w>>] = "none"
    BY <1>0, <1>2 DEF RequestInv
  <2>5. \A x \in Conns : chan'[x] \in Verdicts => dialog'[decider'[x]] = "closed"
    BY <1>2 DEF RequestInv, Verdicts
  <2>6. \A x \in Dialogs : dialog'[x] = "calling" => clicked'[x] \in Verdicts
    BY <1>2 DEF RequestInv
  <2> QED BY <2>1, <2>2, <2>3, <2>4, <2>5, <2>6 DEF RequestInv
<1>6. DecidedByClick'
  <2> SUFFICES ASSUME NEW x \in Conns, chan'[x] \in Verdicts
               PROVE  /\ decider'[x] \in Dialogs /\ clicked'[decider'[x]] = chan'[x]
                      /\ DevOf[decider'[x][1]] = DevOf[x]
                      /\ x \notin crowded' => decider'[x][1] = x
    BY DEF DecidedByClick
  <2>1. x # c /\ chan'[x] = chan[x]
    BY <1>2 DEF Verdicts
  <2>2. crowded \subseteq crowded'
    OBVIOUS
  <2> QED BY <1>2, <2>1, <2>2 DEF DecidedByClick
<1> QED BY <1>1, <1>5, <1>6

\* A wait that ends, and a cleanup, decide nothing.
LEMMA EndKeeps ==
  ASSUME DialogInv, GateInv', NEW c \in Conns, GiveUp(c) \/ CleanUp(c)
  PROVE  DialogInv'
<1> USE DEF DialogInv, DialogTypeOK, GateInv, GateTypeOK
<1>0. DevOf[c] \in Devices
  OBVIOUS
<1>1. /\ DialogTypeOK'
      /\ UNCHANGED <<stage, dialog, clicked, window, decider, crowded>>
  BY DEF GiveUp, CleanUp
<1>2. \A e \in Devices : gate'[e] \in {gate[e], NoConn}
  BY <1>0 DEF GiveUp, CleanUp, GateAbandon, GateRemove
<1>3. \A x \in Conns : /\ chan'[x] \in Verdicts => chan'[x] = chan[x]
                       /\ chan'[x] = "open" => chan[x] = "open"
                       /\ chan[x] = "unused" => chan'[x] = "unused"
  BY <1>0 DEF GiveUp, CleanUp, GateAbandon, GateRemove, SenderDropped, Verdicts
<1>4. \A x \in Conns : OnItsWay(x)' <=> OnItsWay(x)
  BY <1>1 DEF OnItsWay
<1>5. RequestInv'
  BY <1>1, <1>2, <1>3, <1>4 DEF RequestInv
<1>6. DecidedByClick'
  BY <1>1, <1>3 DEF DecidedByClick
<1> QED BY <1>1, <1>5, <1>6

\* Steps between the daemon's event and the call leave the gate alone, open dialogs for
\* a request that is on its way anyway, and answer none whose call has returned.
LEMMA WayKeeps ==
  ASSUME DialogInv, GateInv', DialogTypeOK',
         UNCHANGED <<gate, chan, decider, crowded>>,
         \A c \in Conns : OnItsWay(c)' => OnItsWay(c),
         \A c \in Conns : stage'[c] = "none" <=> stage[c] = "none",
         \A c \in Conns : stage'[c] \in {"none", "unsent", "sent"} =>
           /\ stage[c] \in {"none", "unsent", "sent"}
           /\ \A w \in Windows : dialog'[<<c, w>>] = dialog[<<c, w>>],
         \A x \in Dialogs : dialog[x] = "closed" => dialog'[x] = "closed" /\ clicked'[x] = clicked[x],
         \A x \in Dialogs : dialog'[x] = "calling" => clicked'[x] \in Verdicts
  PROVE  DialogInv'
<1> USE DEF DialogInv
<1>1. \A c \in Conns : chan[c] \in Verdicts =>
        /\ decider[c] \in Dialogs /\ dialog[decider[c]] = "closed"
        /\ dialog'[decider[c]] = "closed" /\ clicked'[decider[c]] = clicked[decider[c]]
  BY DEF RequestInv, DecidedByClick
<1>2. RequestInv'
  <2>1. \A c \in Conns : stage'[c] \in {"none", "unsent", "sent"} =>
          \A w \in Windows : dialog'[<<c, w>>] = "none"
    BY DEF RequestInv
  <2> QED BY <1>1, <2>1 DEF RequestInv
<1>3. DecidedByClick'
  BY <1>1 DEF DecidedByClick
<1> QED BY <1>2, <1>3

\* The event of a request, and its dialogs.
LEMMA EventKeeps ==
  ASSUME DialogInv, GateInv', NEW c \in Conns, SendRequested(c) \/ Emit(c) \/ Lag(c)
  PROVE  DialogInv'
<1> USE DEF DialogInv, DialogTypeOK, GateInv, GateTypeOK, Stages, DialogStates
<1>1. PICK to \in SUBSET Windows :
        /\ \A w \in to : window[w] # "none"
        /\ dialog' = [x \in Dialogs |-> IF x[1] = c /\ x[2] \in to THEN "shown" ELSE dialog[x]]
        /\ stage[c] = "sent" \/ to = {}
  <2>1. CASE Emit(c)
    <3>1. PICK to \in Audience :
            dialog' = [x \in Dialogs |-> IF x[1] = c /\ x[2] \in to THEN "shown" ELSE dialog[x]]
      BY <2>1 DEF Emit
    <3>2. to \in SUBSET Windows /\ \A w \in to : window[w] # "none"
      BY DEF Audience
    <3> QED BY <2>1, <3>1, <3>2 DEF Emit, Pass
  <2>2. CASE SendRequested(c) \/ Lag(c)
    <3>1. dialog' = [x \in Dialogs |-> dialog[x]]
      BY <2>2 DEF SendRequested, Lag
    <3> WITNESS {} \in SUBSET Windows
    <3> QED BY <3>1
  <2> QED BY <2>1, <2>2
<1>2. /\ UNCHANGED <<gate, chan, clicked, window, cleaning, decider, crowded>>
      /\ stage[c] \in {"unsent", "sent"} /\ stage'[c] \in {"sent", "over"}
      /\ stage' = [stage EXCEPT ![c] = stage'[c]]
      /\ stage[c] = "sent" => stage'[c] = "over"
  BY DEF SendRequested, Emit, Lag, Pass, gateVars
<1>3. DialogTypeOK'
  <2>1. dialog' \in [Dialogs -> DialogStates]
    BY <1>1
  <2>2. \A x \in Dialogs : window'[x[2]] = "none" => dialog'[x] \notin {"shown", "calling"}
    BY <1>1, <1>2
  <2> QED BY <1>2, <2>1, <2>2
<1>4. \A x \in Conns : OnItsWay(x)' => OnItsWay(x)
  <2>1. OnItsWay(c)
    BY <1>2 DEF OnItsWay
  <2>2. ASSUME NEW x \in Conns \ {c} PROVE OnItsWay(x)' => OnItsWay(x)
    BY <1>1, <1>2 DEF OnItsWay, Dialogs
  <2> QED BY <2>1, <2>2
<1>5. \A x \in Conns : /\ stage'[x] = "none" <=> stage[x] = "none"
                       /\ stage'[x] \in {"none", "unsent", "sent"} =>
                            /\ stage[x] \in {"none", "unsent", "sent"}
                            /\ \A w \in Windows : dialog'[<<x, w>>] = dialog[<<x, w>>]
  BY <1>1, <1>2 DEF Dialogs
<1>6. \A x \in Dialogs : /\ dialog[x] = "closed" => dialog'[x] = "closed"
                         /\ dialog'[x] = "calling" => dialog[x] = "calling"
  <2>1. ASSUME NEW x \in Dialogs, x[1] = c, x[2] \in to PROVE dialog[x] = "none"
    <3>1. x = <<c, x[2]>> /\ x[2] \in Windows /\ stage[c] = "sent"
      BY <1>1, <2>1 DEF Dialogs
    <3> QED BY <3>1 DEF RequestInv
  <2> QED BY <1>1, <2>1
<1>7. \A x \in Dialogs : dialog'[x] = "calling" => clicked'[x] \in Verdicts
  BY <1>2, <1>6 DEF RequestInv
<1> QED BY <1>2, <1>3, <1>4, <1>5, <1>6, <1>7, WayKeeps

\* What the user does with the dialogs and the windows.
LEMMA UserKeeps ==
  ASSUME DialogInv, GateInv',
         \/ QuitGtk
         \/ \E w \in Windows : OpenWindow(w) \/ CloseWindow(w)
         \/ \E x \in Dialogs, v \in Verdicts : Answer(x, v)
  PROVE  DialogInv'
<1> USE DEF DialogInv, DialogTypeOK, GateInv, GateTypeOK, DialogStates, WindowStates, Verdicts
<1>1. /\ UNCHANGED <<gate, chan, stage, cleaning, decider, crowded>>
      /\ DialogTypeOK'
  <2>1. CASE QuitGtk
    BY <2>1 DEF QuitGtk, gateVars
  <2>2. CASE \E w \in Windows : OpenWindow(w)
    BY <2>2 DEF OpenWindow, gateVars, Dialogs
  <2>3. ASSUME NEW w \in Windows, CloseWindow(w)
        PROVE  UNCHANGED <<gate, chan, stage, cleaning, decider, crowded>> /\ DialogTypeOK'
    <3>1. UNCHANGED <<gate, chan, stage, cleaning, decider, crowded>>
      BY <2>3 DEF CloseWindow, gateVars
    <3>2. /\ dialog' \in [Dialogs -> DialogStates]
          /\ clicked' \in [Dialogs -> Verdicts \cup {"none"}]
          /\ window' = [window EXCEPT ![w] = "closed"]
          /\ \A x \in Dialogs : dialog'[x] \in {"shown", "calling"} => dialog[x] \in {"shown", "calling"}
      BY <2>3 DEF CloseWindow
    <3>3. \A x \in Dialogs : window'[x[2]] = "none" => window[x[2]] = "none"
      BY <3>2 DEF Dialogs
    <3> QED BY <3>1, <3>2, <3>3
  <2>4. CASE \E x \in Dialogs, v \in Verdicts : Answer(x, v)
    BY <2>4 DEF Answer, gateVars
  <2> QED BY <2>1, <2>2, <2>3, <2>4
<1>2. \A x \in Dialogs :
        \/ dialog'[x] = dialog[x] /\ clicked'[x] = clicked[x]
        \/ dialog[x] \in {"shown", "calling"} /\ dialog'[x] = "missed"
        \/ dialog[x] = "shown" /\ dialog'[x] = "calling" /\ clicked'[x] \in Verdicts
  <2>1. CASE QuitGtk
    BY <2>1 DEF QuitGtk
  <2>2. CASE \E w \in Windows : OpenWindow(w)
    BY <2>2 DEF OpenWindow
  <2>3. CASE \E w \in Windows : CloseWindow(w)
    BY <2>3 DEF CloseWindow
  <2>4. CASE \E x \in Dialogs, v \in Verdicts : Answer(x, v)
    BY <2>4 DEF Answer
  <2> QED BY <2>1, <2>2, <2>3, <2>4
<1>3. \A c \in Conns : OnItsWay(c)' => OnItsWay(c)
  BY <1>1, <1>2 DEF OnItsWay, Dialogs
<1>4. \A c \in Conns : stage[c] \in {"none", "unsent", "sent"} =>
        \A w \in Windows : dialog'[<<c, w>>] = dialog[<<c, w>>]
  BY <1>2 DEF RequestInv, Dialogs
<1>5. \A x \in Dialogs : /\ dialog[x] = "closed" => dialog'[x] = "closed" /\ clicked'[x] = clicked[x]
                         /\ dialog'[x] = "calling" => clicked'[x] \in Verdicts
  BY <1>2 DEF RequestInv
<1> QED BY <1>1, <1>3, <1>4, <1>5, WayKeeps

\* A call decides the entry of its device, if there is one that waits.
LEMMA DeliverKeeps ==
  ASSUME DialogInv, GateInv', NEW x \in Dialogs, Deliver(x)
  PROVE  DialogInv'
<1> USE DEF DialogInv, DialogTypeOK, GateInv, GateTypeOK, DialogStates, Deliver
<1> DEFINE c == x[1]
           d == DevOf[c]
           e == gate[d]
<1>0. /\ c \in Conns /\ x[2] \in Windows /\ x = <<c, x[2]>> /\ d \in Devices
      /\ dialog[x] = "calling" /\ clicked[x] \in Verdicts /\ OnItsWay(c)
      /\ stage[c] \notin {"none", "unsent", "sent"}
  <2>1. c \in Conns /\ x[2] \in Windows /\ x = <<c, x[2]>>
    BY DEF Dialogs
  <2>2. dialog[<<c, x[2]>>] = "calling" /\ clicked[x] \in Verdicts
    BY <2>1 DEF RequestInv
  <2>3. OnItsWay(c)
    BY <2>1, <2>2 DEF OnItsWay
  <2>4. stage[c] \notin {"none", "unsent", "sent"}
    BY <2>1, <2>2 DEF RequestInv
  <2> QED BY <2>1, <2>2, <2>3, <2>4
<1>1. /\ UNCHANGED <<stage, clicked, window, cleaning, crowded>>
      /\ dialog' = [dialog EXCEPT ![x] = "closed"]
  OBVIOUS
<1>2. /\ \A y \in Conns : OnItsWay(y)' => OnItsWay(y)
      /\ \A y \in Dialogs : dialog'[y] = "calling" => clicked'[y] \in Verdicts
      /\ \A y \in Conns : stage'[y] \in {"none", "unsent", "sent"} =>
           \A w \in Windows : dialog'[<<y, w>>] = "none"
  <2>1. \A y \in Conns : OnItsWay(y)' => OnItsWay(y)
    BY <1>0, <1>1 DEF OnItsWay, Dialogs
  <2>2. \A y \in Dialogs : dialog'[y] = "calling" => clicked'[y] \in Verdicts
    BY <1>1 DEF RequestInv
  <2>3. \A y \in Conns, w \in Windows : stage'[y] \in {"none", "unsent", "sent"} =>
          <<y, w>> # x /\ dialog[<<y, w>>] = "none"
    BY <1>0, <1>1 DEF RequestInv
  <2> QED BY <1>1, <2>1, <2>2, <2>3 DEF Dialogs
<1>3. \A y \in Conns : chan[y] \in Verdicts =>
        decider[y] \in Dialogs /\ dialog'[decider[y]] = "closed"
  BY <1>1 DEF RequestInv, DecidedByClick
<1>4. CASE e = NoConn \/ chan[e] # "open"
  <2>1. UNCHANGED <<chan, decider>> /\ \A f \in Devices : gate'[f] \in {gate[f], NoConn}
    BY <1>0, <1>4 DEF Resolve, GateResolve, gateVars
  <2>2. DialogTypeOK'
    BY <1>1, <2>1
  <2>3. RequestInv'
    BY <1>1, <1>2, <1>3, <2>1 DEF RequestInv
  <2>4. DecidedByClick'
    BY <1>1, <2>1 DEF DecidedByClick
  <2> QED BY <2>2, <2>3, <2>4
<1>5. CASE e # NoConn /\ chan[e] = "open"
  <2>1. /\ e \in Conns /\ DevOf[e] = d /\ (e \notin crowded => c = e)
        /\ gate' = [gate EXCEPT ![d] = NoConn]
        /\ chan' = [chan EXCEPT ![e] = clicked[x]]
        /\ decider' = [decider EXCEPT ![e] = x]
    BY <1>0, <1>5 DEF Resolve, GateResolve, RequestInv
  <2>2. stage[e] # "none"
    BY <1>5, <2>1 DEF RequestInv
  <2>3. DialogTypeOK'
    BY <1>1, <2>1
  <2>4. clicked[x] # "open" /\ clicked[x] # "unused"
    BY <1>0 DEF Verdicts
  <2> HIDE DEF c, d, e
  <2>5. RequestInv'
    <3>1. \A y \in Conns : stage'[y] = "none" => chan'[y] = "unused"
      BY <1>1, <2>1, <2>2 DEF RequestInv
    <3>2. \A f \in Devices : gate'[f] # NoConn => DevOf[gate'[f]] = f
      BY <2>1 DEF RequestInv
    <3>3. \A y \in Conns : chan'[y] = "open" => chan[y] = "open"
      BY <2>1, <2>4
    <3>4. \A y \in Conns : chan'[y] \in Verdicts => dialog'[decider'[y]] = "closed"
      BY <1>1, <1>3, <2>1
    <3> QED BY <1>1, <1>2, <3>1, <3>2, <3>3, <3>4 DEF RequestInv
  <2>6. DecidedByClick'
    BY <1>0, <1>1, <2>1 DEF DecidedByClick, c, d
  <2> QED BY <2>3, <2>5, <2>6
<1> QED BY <1>4, <1>5

\* At the start no device has asked.
LEMMA DialogStart == DialogInit => DialogInv
<1> SUFFICES ASSUME DialogInit PROVE DialogInv
  OBVIOUS
<1> USE DEF DialogInit
<1>1. GateInv
  BY GateStart
<1>2. DialogTypeOK
  BY <1>1 DEF DialogTypeOK, GateInv, Stages, DialogStates, WindowStates
<1>3. \A c \in Conns : ~OnItsWay(c)
  BY DEF OnItsWay, Dialogs
<1>4. RequestInv /\ DecidedByClick
  BY <1>3 DEF GateInit, RequestInv, DecidedByClick, Verdicts, Dialogs
<1> QED BY <1>1, <1>2, <1>4 DEF DialogInv

\* Every step keeps the invariant.
LEMMA DialogStep == DialogInv /\ [DialogNext]_requestVars => DialogInv'
<1> SUFFICES ASSUME DialogInv, [DialogNext]_requestVars PROVE DialogInv'
  OBVIOUS
<1>1. GateInv'
  <2>1. GateInv /\ [GateNext]_gateVars
    BY DialogSimulation DEF DialogInv
  <2> QED BY <2>1, GateStep
<1>2. CASE UNCHANGED requestVars
  <2>1. UNCHANGED <<gate, chan, stage, dialog, clicked, window, cleaning, decider, crowded>>
    BY <1>2 DEF requestVars, gateVars, dialogVars
  <2>2. DialogTypeOK' /\ DecidedByClick'
    BY <2>1 DEF DialogInv, DialogTypeOK, DecidedByClick, GateTypeOK
  <2>3. RequestInv'
    BY <2>1 DEF DialogInv, RequestInv, OnItsWay
  <2> QED BY <1>1, <2>2, <2>3 DEF DialogInv
<1>3. CASE DialogNext
  BY <1>1, <1>3, RequestKeeps, EndKeeps, EventKeeps, UserKeeps, DeliverKeeps DEF DialogNext
<1> QED BY <1>2, <1>3

\* The inductive invariant of PairingDialogs.
THEOREM DialogInvariant == DialogSpec => []DialogInv
<1> QED BY DialogStart, DialogStep, PTL DEF DialogSpec

\* The variables keep their types, and no dialog is open without the application.
THEOREM DialogTypeCorrect == DialogSpec => []DialogTypeOK
<1>1. DialogInv => DialogTypeOK
  BY DEF DialogInv
<1> QED BY <1>1, DialogInvariant, PTL

\* What decides a request is the click of a user in a dialog of its device, for any
\* number of windows: one of that very request, unless a leftover of another one was
\* about when it asked.
THEOREM ClickDecides == DialogSpec => []DecidedByClick
<1>1. DialogInv => DecidedByClick
  BY DEF DialogInv
<1> QED BY <1>1, DialogInvariant, PTL

\* The call of a waiting request's own dialog decides that very request, whatever other
\* requests, dialogs and cleanups of the device have done in between.  This is what
\* ClickEndsWait rests on besides fairness.
OwnCallDecides ==
  [][\A x \in Dialogs : Deliver(x) /\ chan[x[1]] = "open" => chan'[x[1]] = clicked[x]]_requestVars

THEOREM OwnCallReaches == DialogSpec => OwnCallDecides
<1>1. ASSUME DialogInv, NEW x \in Dialogs, Deliver(x), chan[x[1]] = "open"
      PROVE  chan'[x[1]] = clicked[x]
  <2> USE DEF DialogInv, GateInv
  <2> DEFINE c == x[1]
  <2>0. c \in Conns
    BY DEF Dialogs
  <2>1. PICK d \in Devices : gate[d] = c
    BY <1>1, <2>0 DEF NoLostWakeup
  <2>2. gate[d] # NoConn /\ c # NoConn
    BY <2>0, <2>1, GateAssumption
  <2>3. DevOf[c] = d
    BY <1>1, <2>1, <2>2 DEF RequestInv
  <2>4. GateResolve(DevOf[c], clicked[x])
    BY <1>1, <2>1, <2>2, <2>3 DEF Deliver, Resolve
  <2> QED BY <1>1, <2>0, <2>1, <2>3, <2>4 DEF GateResolve, GateTypeOK
<1>2. DialogInv /\ [DialogNext]_requestVars =>
        [\A x \in Dialogs : Deliver(x) /\ chan[x[1]] = "open" => chan'[x[1]] = clicked[x]]_requestVars
  BY <1>1
<1> QED BY <1>2, DialogInvariant, PTL DEF DialogSpec, OwnCallDecides
=============================================================================
