------------------------ MODULE PairingSessionProofs ------------------------
(***************************************************************************)
(* Proofs about PairingSession, for any number of phones and sessions.     *)
(*                                                                         *)
(* The invariant adds to what is claimed that a session past its request   *)
(* has a peer_info, and that one without a socket has none.                *)
(***************************************************************************)
EXTENDS PairingSession, TLAPS

SessionInv ==
  \A c \in Conns :
    /\ pc[c] \in {"register", "waiting", "announce", "forget", "clear", "expired"}
         => info[c] # NoDevice
    /\ pc[c] \in {"register", "waiting"} => asks[c] # NoFp
    /\ pc[c] \in {"new", "over"} => info[c] = NoDevice

Inv == TypeOK /\ SessionInv /\ EntryIsWaitedFor /\ ConnectedIsLive

\* Before the first connection nothing is registered or connected.
LEMMA InvInit == Init => Inv
<1> SUFFICES ASSUME Init PROVE Inv
  OBVIOUS
<1>1. TypeOK
  <2>1. GateTypeOK
    BY DEF Init, GateInit, GateTypeOK, ChanStates
  <2>2. /\ pc \in [Conns -> Steps] /\ state \in [Conns -> States]
        /\ info \in [Conns -> Devices \cup {NoDevice}]
        /\ asks \in [Conns -> Fps \cup {NoFp}]
    BY DEF Init, Steps, States
  <2>3. /\ ticking \in [Conns -> BOOLEAN]
        /\ misses \in [Conns -> 0..1] /\ quiet \in [Conns -> 0..2]
    BY DEF Init
  <2>4. /\ connected \in Devices \cup {NoDevice} /\ strayed \in BOOLEAN
        /\ store \in [Devices -> Fps \cup {NoFp}]
    BY DEF Init
  <2> QED BY <2>1, <2>2, <2>3, <2>4 DEF TypeOK
<1>2. SessionInv /\ ConnectedIsLive
  BY DEF Init, SessionInv, ConnectedIsLive
<1>3. EntryIsWaitedFor
  BY DEF Init, GateInit, EntryIsWaitedFor
<1> QED BY <1>1, <1>2, <1>3 DEF Inv

----------------------------------------------------------------------------
\* The packets of the phone.
LEMMA ReceiveKeeps ==
  ASSUME Inv, NEW c \in Conns,
         (\E d \in Devices : Hello(c, d)) \/ (\E d \in Devices, f \in Fps : PairRequest(c, d, f)) \/ (\E f \in Fps : PairAccept(c, f)) \/ PairReject(c) \/ Pong(c) \/ Disconnect(c)
  PROVE  Inv'
<1> USE GateAssumption, SessionAssumption
       DEF Inv, At, Become, Waits, session, named, alive, gateVars
<1>1. ASSUME NEW d \in Devices, Hello(c, d) PROVE Inv'
  <2>1. TypeOK'
    BY <1>1 DEF Hello, IsNow, TypeOK, GateTypeOK, ChanStates, Steps, States
  <2>2. SessionInv'
    BY <1>1 DEF Hello, IsNow, TypeOK, GateTypeOK, SessionInv
  <2>3. EntryIsWaitedFor'
    BY <1>1 DEF Hello, IsNow, TypeOK, GateTypeOK, SessionInv, EntryIsWaitedFor
  <2>4. ConnectedIsLive'
    BY <1>1 DEF Hello, IsNow, TypeOK, SessionInv, ConnectedIsLive
  <2> QED  BY <2>1, <2>2, <2>3, <2>4
<1>2. ASSUME NEW d \in Devices, NEW f \in Fps, PairRequest(c, d, f) PROVE Inv'
  <2>1. TypeOK'
    BY <1>2 DEF PairRequest, IsNow, Trust, TypeOK, GateTypeOK, ChanStates, Steps, States
  <2>2. SessionInv'
    BY <1>2 DEF PairRequest, IsNow, Trust, TypeOK, GateTypeOK, SessionInv
  <2>3. EntryIsWaitedFor'
    BY <1>2 DEF PairRequest, IsNow, Trust, TypeOK, GateTypeOK, SessionInv, EntryIsWaitedFor
  <2>4. ConnectedIsLive'
    BY <1>2 DEF PairRequest, IsNow, Trust, TypeOK, SessionInv, ConnectedIsLive
  <2> QED  BY <2>1, <2>2, <2>3, <2>4
<1>3. ASSUME NEW f \in Fps, PairAccept(c, f) PROVE Inv'
  <2>1. TypeOK'
    BY <1>3 DEF PairAccept, Trust, TypeOK, GateTypeOK, ChanStates, Steps, States
  <2>2. SessionInv'
    BY <1>3 DEF PairAccept, Trust, TypeOK, GateTypeOK, SessionInv
  <2>3. EntryIsWaitedFor'
    BY <1>3 DEF PairAccept, Trust, TypeOK, GateTypeOK, SessionInv, EntryIsWaitedFor
  <2>4. ConnectedIsLive'
    BY <1>3 DEF PairAccept, Trust, TypeOK, SessionInv, ConnectedIsLive
  <2> QED  BY <2>1, <2>2, <2>3, <2>4
<1>4. CASE PairReject(c)
  <2>1. TypeOK'
    BY <1>4 DEF PairReject, TypeOK, GateTypeOK, ChanStates, Steps, States
  <2>2. SessionInv'
    BY <1>4 DEF PairReject, TypeOK, GateTypeOK, SessionInv
  <2>3. EntryIsWaitedFor'
    BY <1>4 DEF PairReject, TypeOK, GateTypeOK, SessionInv, EntryIsWaitedFor
  <2>4. ConnectedIsLive'
    BY <1>4 DEF PairReject, TypeOK, SessionInv, ConnectedIsLive
  <2> QED  BY <2>1, <2>2, <2>3, <2>4
<1>5. CASE Pong(c)
  <2>1. TypeOK'
    BY <1>5 DEF Pong, TypeOK, GateTypeOK, ChanStates, Steps, States
  <2>2. SessionInv'
    BY <1>5 DEF Pong, TypeOK, GateTypeOK, SessionInv
  <2>3. EntryIsWaitedFor'
    BY <1>5 DEF Pong, TypeOK, GateTypeOK, SessionInv, EntryIsWaitedFor
  <2>4. ConnectedIsLive'
    BY <1>5 DEF Pong, TypeOK, SessionInv, ConnectedIsLive
  <2> QED  BY <2>1, <2>2, <2>3, <2>4
<1>6. CASE Disconnect(c)
  <2>1. TypeOK'
    BY <1>6 DEF Disconnect, TypeOK, GateTypeOK, ChanStates, Steps, States
  <2>2. SessionInv'
    BY <1>6 DEF Disconnect, TypeOK, GateTypeOK, SessionInv
  <2>3. EntryIsWaitedFor'
    BY <1>6 DEF Disconnect, TypeOK, GateTypeOK, SessionInv, EntryIsWaitedFor
  <2>4. ConnectedIsLive'
    BY <1>6 DEF Disconnect, TypeOK, SessionInv, ConnectedIsLive
  <2> QED  BY <2>1, <2>2, <2>3, <2>4
<1> QED  BY <1>1, <1>2, <1>3, <1>4, <1>5, <1>6

\* How a session begins, and leaves its loop.
LEMMA LoopKeeps ==
  ASSUME Inv, NEW c \in Conns,
         Accept(c) \/ SocketEnds(c) \/ DeadSignal(c)
  PROVE  Inv'
<1> USE GateAssumption, SessionAssumption
       DEF Inv, At, Become, Waits, session, named, alive, gateVars
<1>1. CASE Accept(c)
  <2>1. TypeOK'
    BY <1>1 DEF Accept, TypeOK, GateTypeOK, ChanStates, Steps, States
  <2>2. SessionInv'
    BY <1>1 DEF Accept, TypeOK, GateTypeOK, SessionInv
  <2>3. EntryIsWaitedFor'
    BY <1>1 DEF Accept, TypeOK, GateTypeOK, SessionInv, EntryIsWaitedFor
  <2>4. ConnectedIsLive'
    BY <1>1 DEF Accept, TypeOK, SessionInv, ConnectedIsLive
  <2> QED  BY <2>1, <2>2, <2>3, <2>4
<1>2. CASE SocketEnds(c)
  <2>1. TypeOK'
    BY <1>2 DEF SocketEnds, TypeOK, GateTypeOK, ChanStates, Steps, States
  <2>2. SessionInv'
    BY <1>2 DEF SocketEnds, TypeOK, GateTypeOK, SessionInv
  <2>3. EntryIsWaitedFor'
    BY <1>2 DEF SocketEnds, TypeOK, GateTypeOK, SessionInv, EntryIsWaitedFor
  <2>4. ConnectedIsLive'
    BY <1>2 DEF SocketEnds, TypeOK, SessionInv, ConnectedIsLive
  <2> QED  BY <2>1, <2>2, <2>3, <2>4
<1>3. CASE DeadSignal(c)
  <2>1. TypeOK'
    BY <1>3 DEF DeadSignal, TypeOK, GateTypeOK, ChanStates, Steps, States
  <2>2. SessionInv'
    BY <1>3 DEF DeadSignal, TypeOK, GateTypeOK, SessionInv
  <2>3. EntryIsWaitedFor'
    BY <1>3 DEF DeadSignal, TypeOK, GateTypeOK, SessionInv, EntryIsWaitedFor
  <2>4. ConnectedIsLive'
    BY <1>3 DEF DeadSignal, TypeOK, SessionInv, ConnectedIsLive
  <2> QED  BY <2>1, <2>2, <2>3, <2>4
<1> QED  BY <1>1, <1>2, <1>3

\* From the request to the decision of the user.
LEMMA DecideKeeps ==
  ASSUME Inv, NEW c \in Conns,
         Register(c) \/ Accepted(c) \/ Rejected(c) \/ Expire(c) \/ RemoveEntry(c)
  PROVE  Inv'
<1> USE GateAssumption, SessionAssumption
       DEF Inv, At, Become, Waits, session, named, alive, gateVars
<1>1. CASE Register(c)
  <2>1. TypeOK'
    BY <1>1 DEF Register, GateInsert, SenderDropped, TypeOK, GateTypeOK, ChanStates, Steps, States
  <2>2. SessionInv'
    BY <1>1 DEF Register, GateInsert, SenderDropped, TypeOK, GateTypeOK, SessionInv
  <2>3. EntryIsWaitedFor'
    BY <1>1 DEF Register, GateInsert, SenderDropped, TypeOK, GateTypeOK, SessionInv, EntryIsWaitedFor
  <2>4. ConnectedIsLive'
    BY <1>1 DEF Register, GateInsert, SenderDropped, TypeOK, SessionInv, ConnectedIsLive
  <2> QED  BY <2>1, <2>2, <2>3, <2>4
<1>2. CASE Accepted(c)
  <2>1. TypeOK'
    BY <1>2 DEF Accepted, Trust, GateAbandon, TypeOK, GateTypeOK, ChanStates, Steps, States
  <2>2. SessionInv'
    BY <1>2 DEF Accepted, Trust, GateAbandon, TypeOK, GateTypeOK, SessionInv
  <2>3. EntryIsWaitedFor'
    BY <1>2 DEF Accepted, Trust, GateAbandon, TypeOK, GateTypeOK, SessionInv, EntryIsWaitedFor
  <2>4. ConnectedIsLive'
    BY <1>2 DEF Accepted, Trust, GateAbandon, TypeOK, SessionInv, ConnectedIsLive
  <2> QED  BY <2>1, <2>2, <2>3, <2>4
<1>3. CASE Rejected(c)
  <2>1. TypeOK'
    BY <1>3 DEF Rejected, GateAbandon, TypeOK, GateTypeOK, ChanStates, Steps, States
  <2>2. SessionInv'
    BY <1>3 DEF Rejected, GateAbandon, TypeOK, GateTypeOK, SessionInv
  <2>3. EntryIsWaitedFor'
    BY <1>3 DEF Rejected, GateAbandon, TypeOK, GateTypeOK, SessionInv, EntryIsWaitedFor
  <2>4. ConnectedIsLive'
    BY <1>3 DEF Rejected, GateAbandon, TypeOK, SessionInv, ConnectedIsLive
  <2> QED  BY <2>1, <2>2, <2>3, <2>4
<1>4. CASE Expire(c)
  <2>1. TypeOK'
    BY <1>4 DEF Expire, GateAbandon, TypeOK, GateTypeOK, ChanStates, Steps, States
  <2>2. SessionInv'
    BY <1>4 DEF Expire, GateAbandon, TypeOK, GateTypeOK, SessionInv
  <2>3. EntryIsWaitedFor'
    BY <1>4 DEF Expire, GateAbandon, TypeOK, GateTypeOK, SessionInv, EntryIsWaitedFor
  <2>4. ConnectedIsLive'
    BY <1>4 DEF Expire, GateAbandon, TypeOK, SessionInv, ConnectedIsLive
  <2> QED  BY <2>1, <2>2, <2>3, <2>4
<1>5. CASE RemoveEntry(c)
  <2>1. TypeOK'
    BY <1>5 DEF RemoveEntry, GateRemove, SenderDropped, TypeOK, GateTypeOK, ChanStates, Steps, States
  <2>2. SessionInv'
    BY <1>5 DEF RemoveEntry, GateRemove, SenderDropped, TypeOK, GateTypeOK, SessionInv
  <2>3. EntryIsWaitedFor'
    BY <1>5 DEF RemoveEntry, GateRemove, SenderDropped, TypeOK, GateTypeOK, SessionInv, EntryIsWaitedFor
  <2>4. ConnectedIsLive'
    BY <1>5 DEF RemoveEntry, GateRemove, SenderDropped, TypeOK, SessionInv, ConnectedIsLive
  <2> QED  BY <2>1, <2>2, <2>3, <2>4
<1> QED  BY <1>1, <1>2, <1>3, <1>4, <1>5

\* connected_device is written.
LEMMA ConnectKeeps ==
  ASSUME Inv, NEW c \in Conns,
         SetConnected(c) \/ Forget(c) \/ SetDisconnected(c) \/ Exit(c)
  PROVE  Inv'
<1> USE GateAssumption, SessionAssumption
       DEF Inv, At, Become, Waits, session, named, alive, gateVars
<1>1. CASE SetConnected(c)
  <2>1. TypeOK'
    BY <1>1 DEF SetConnected, TypeOK, GateTypeOK, ChanStates, Steps, States
  <2>2. SessionInv'
    BY <1>1 DEF SetConnected, TypeOK, GateTypeOK, SessionInv
  <2>3. EntryIsWaitedFor'
    BY <1>1 DEF SetConnected, TypeOK, GateTypeOK, SessionInv, EntryIsWaitedFor
  <2>4. ConnectedIsLive'
    BY <1>1 DEF SetConnected, TypeOK, SessionInv, ConnectedIsLive
  <2> QED  BY <2>1, <2>2, <2>3, <2>4
<1>2. CASE Forget(c)
  <2>1. TypeOK'
    BY <1>2 DEF Forget, GateRemove, SenderDropped, TypeOK, GateTypeOK, ChanStates, Steps, States
  <2>2. SessionInv'
    BY <1>2 DEF Forget, GateRemove, SenderDropped, TypeOK, GateTypeOK, SessionInv
  <2>3. EntryIsWaitedFor'
    BY <1>2 DEF Forget, GateRemove, SenderDropped, TypeOK, GateTypeOK, SessionInv, EntryIsWaitedFor
  <2>4. ConnectedIsLive'
    BY <1>2 DEF Forget, GateRemove, SenderDropped, TypeOK, SessionInv, ConnectedIsLive
  <2> QED  BY <2>1, <2>2, <2>3, <2>4
<1>3. CASE SetDisconnected(c)
  <2>1. TypeOK'
    BY <1>3 DEF SetDisconnected, TypeOK, GateTypeOK, ChanStates, Steps, States
  <2>2. SessionInv'
    BY <1>3 DEF SetDisconnected, TypeOK, GateTypeOK, SessionInv
  <2>3. EntryIsWaitedFor'
    BY <1>3 DEF SetDisconnected, TypeOK, GateTypeOK, SessionInv, EntryIsWaitedFor
  <2>4. ConnectedIsLive'
    BY <1>3 DEF SetDisconnected, TypeOK, SessionInv, ConnectedIsLive
  <2> QED  BY <2>1, <2>2, <2>3, <2>4
<1>4. CASE Exit(c)
  <2>1. TypeOK'
    BY <1>4 DEF Exit, TypeOK, GateTypeOK, ChanStates, Steps, States
  <2>2. SessionInv'
    BY <1>4 DEF Exit, TypeOK, GateTypeOK, SessionInv
  <2>3. EntryIsWaitedFor'
    BY <1>4 DEF Exit, TypeOK, GateTypeOK, SessionInv, EntryIsWaitedFor
  <2>4. ConnectedIsLive'
    BY <1>4 DEF Exit, TypeOK, SessionInv, ConnectedIsLive
  <2> QED  BY <2>1, <2>2, <2>3, <2>4
<1> QED  BY <1>1, <1>2, <1>3, <1>4

\* The keepalive task: only its own variables change.
LEMMA KeepaliveKeeps ==
  ASSUME Inv, NEW c \in Conns, Check(c) \/ PingFails(c)
  PROVE  Inv'
<1>1. /\ UNCHANGED <<gateVars, session, named, store>>
      /\ ticking' \in [Conns -> BOOLEAN]
      /\ misses' \in [Conns -> 0..1] /\ quiet' \in [Conns -> 0..2]
  <2>1. CASE PingFails(c)
    BY <2>1 DEF PingFails, Stops, Inv, TypeOK
  <2>2. CASE Check(c)
    <3>1. CASE Stops(c)
      BY <2>2, <3>1 DEF Check, Stops, Inv, TypeOK
    <3>2. CASE \E m \in Counts(c) \ {2} :
                 /\ misses' = [misses EXCEPT ![c] = m]
                 /\ quiet' = [quiet EXCEPT ![c] = Quieter(c)] /\ UNCHANGED ticking
      <4>1. PICK m \in Counts(c) \ {2} :
                 /\ misses' = [misses EXCEPT ![c] = m]
                 /\ quiet' = [quiet EXCEPT ![c] = Quieter(c)] /\ UNCHANGED ticking
        BY <3>2
      <4>2. m \in 0..1
        BY <4>1 DEF Counts, Inv, TypeOK
      <4>3. Quieter(c) \in 0..2
        BY DEF Quieter, Inv, TypeOK
      <4> QED BY <2>2, <4>1, <4>2, <4>3 DEF Check, Inv, TypeOK
    <3> QED BY <2>2, <3>1, <3>2 DEF Check
  <2> QED BY <2>1, <2>2
<1> QED
  BY <1>1 DEF Inv, TypeOK, GateTypeOK, SessionInv, EntryIsWaitedFor, ConnectedIsLive,
              gateVars, session, named

\* The calls of the D-Bus service.
LEMMA CallsKeep ==
  ASSUME Inv, NEW d \in Devices, UnpairDevice(d) \/ \E v \in Verdicts : Click(d, v)
  PROVE  Inv'
<1> USE GateAssumption, SessionAssumption DEF Inv, session, named, alive, gateVars
<1>1. CASE UnpairDevice(d)
  BY <1>1 DEF UnpairDevice, TypeOK, GateTypeOK, SessionInv, EntryIsWaitedFor, ConnectedIsLive
<1>2. ASSUME NEW v \in Verdicts, Click(d, v) PROVE Inv'
  <2>1. TypeOK'
    BY <1>2 DEF Click, GateResolve, TypeOK, GateTypeOK, ChanStates, Verdicts
  <2>2. SessionInv' /\ ConnectedIsLive'
    BY <1>2 DEF Click, GateResolve, SessionInv, ConnectedIsLive
  <2>3. EntryIsWaitedFor'
    BY <1>2 DEF Click, GateResolve, TypeOK, GateTypeOK, EntryIsWaitedFor
  <2> QED  BY <2>1, <2>2, <2>3
<1> QED  BY <1>1, <1>2

\* The invariant is inductive.
LEMMA InvStep == Inv /\ [Next]_vars => Inv'
<1> SUFFICES ASSUME Inv, [Next]_vars PROVE Inv'
  OBVIOUS
<1>1. CASE UNCHANGED vars
  BY <1>1 DEF vars, gateVars, session, named, alive, Inv, TypeOK, GateTypeOK, SessionInv,
              EntryIsWaitedFor, ConnectedIsLive
<1>2. CASE Next
  BY <1>2, ReceiveKeeps, LoopKeeps, DecideKeeps, ConnectKeeps, KeepaliveKeeps, CallsKeep
     DEF Next, Receive, Proceed
<1> QED  BY <1>1, <1>2

----------------------------------------------------------------------------
\* The invariant holds however the sessions interleave.
THEOREM Invariant == Spec => []Inv
  BY InvInit, InvStep, PTL DEF Spec

\* The variables of the sessions keep their types (pairing/mod.rs).
THEOREM TypeCorrect == Spec => []TypeOK
<1>1. Inv => TypeOK
  BY DEF Inv
<1> QED  BY <1>1, Invariant, PTL

\* connected_device names a phone only while a session of it is there, unless the
\* session that paired has changed its device_id since (connection.rs:88-99).
THEOREM Live == Spec => []ConnectedIsLive
<1>1. Inv => ConnectedIsLive
  BY DEF Inv
<1> QED  BY <1>1, Invariant, PTL

\* No entry of the gate outlives the session that waits for it (handle_packet).
THEOREM WaitedFor == Spec => []EntryIsWaitedFor
<1>1. Inv => EntryIsWaitedFor
  BY DEF Inv
<1> QED  BY <1>1, Invariant, PTL

----------------------------------------------------------------------------
\* No session is stranded: one that waits has been decided, or has lost its Sender,
\* or owns the entry of its phone, so that a click reaches it.  This is what
\* SessionSettles rests on besides fairness.
NobodyIsStranded ==
  \A c \in Conns : pc[c] = "waiting" =>
    \/ chan[c] \in Verdicts \cup {"dropped"}
    \/ chan[c] = "open" /\ gate[info[c]] = c

\* What the steps of a session do to its pc and to the gate.
LEMMA WaitStep == Inv /\ NobodyIsStranded /\ [Next]_vars => NobodyIsStranded'
<1> SUFFICES ASSUME Inv, NobodyIsStranded, [Next]_vars PROVE NobodyIsStranded'
  OBVIOUS
<1> USE GateAssumption DEF TypeOK, GateTypeOK, session, named, alive, At
<1>0. TypeOK /\ SessionInv /\ EntryIsWaitedFor
  BY DEF Inv
<1>1. ASSUME NEW c \in Conns,
             \/ Accept(c) \/ Receive(c) \/ SocketEnds(c) \/ DeadSignal(c)
             \/ SetConnected(c) \/ SetDisconnected(c) \/ Exit(c)
      PROVE  NobodyIsStranded'
  <2>1. /\ UNCHANGED gateVars /\ pc'[c] # "waiting"
        /\ \A x \in Conns \ {c} : pc'[x] = pc[x] /\ info'[x] = info[x]
    <3>1. CASE Accept(c) \/ SocketEnds(c) \/ DeadSignal(c) \/ SetConnected(c)
                 \/ SetDisconnected(c) \/ Exit(c)
      BY <1>0, <3>1 DEF Accept, SocketEnds, DeadSignal, SetConnected, SetDisconnected, Exit
    <3>2. CASE Receive(c)
      BY <1>0, <3>2 DEF Receive, Hello, PairRequest, PairAccept, PairReject, Pong, Disconnect,
                        IsNow, Trust
    <3> QED BY <1>1, <3>1, <3>2
  <2> QED BY <2>1 DEF NobodyIsStranded, gateVars
<1>2. ASSUME NEW c \in Conns, Register(c) PROVE NobodyIsStranded'
  BY <1>0, <1>2 DEF Register, GateInsert, SenderDropped, NobodyIsStranded, SessionInv, Verdicts
<1>3. ASSUME NEW c \in Conns, Accepted(c) \/ Rejected(c) \/ Expire(c) PROVE NobodyIsStranded'
  BY <1>0, <1>3 DEF Accepted, Rejected, Expire, Trust, GateAbandon, NobodyIsStranded, Verdicts
<1>4. ASSUME NEW c \in Conns, RemoveEntry(c) \/ Forget(c) PROVE NobodyIsStranded'
  BY <1>0, <1>4 DEF RemoveEntry, Forget, GateRemove, SenderDropped, NobodyIsStranded, Verdicts,
                    SessionInv
<1>5. ASSUME NEW d \in Devices, NEW v \in Verdicts, Click(d, v) PROVE NobodyIsStranded'
  <2>1. /\ UNCHANGED <<pc, info>> /\ gate[d] # NoConn
        /\ gate' = [gate EXCEPT ![d] = NoConn]
        /\ \A x \in Conns : chan'[x] = IF x = gate[d] /\ chan[x] = "open" THEN v ELSE chan[x]
    BY <1>0, <1>5 DEF Click, GateResolve
  <2> QED BY <1>0, <2>1 DEF NobodyIsStranded, Verdicts, SessionInv
<1>6. CASE \/ \E c \in Conns : Check(c) \/ PingFails(c)
           \/ \E d \in Devices : UnpairDevice(d)
           \/ UNCHANGED vars
  BY <1>6 DEF Check, PingFails, UnpairDevice, vars, gateVars, NobodyIsStranded
<1> QED BY <1>1, <1>2, <1>3, <1>4, <1>5, <1>6 DEF Next, Proceed

\* A session that waits can always be decided or be told that it cannot (handle_packet).
THEOREM NotStranded == Spec => []NobodyIsStranded
<1>1. Init => NobodyIsStranded
  BY DEF Init, GateInit, NobodyIsStranded
<1> QED BY <1>1, Invariant, WaitStep, PTL DEF Spec
=============================================================================
