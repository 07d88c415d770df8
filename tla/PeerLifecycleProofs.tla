------------------------ MODULE PeerLifecycleProofs ------------------------
(***************************************************************************)
(* Proofs about PeerLifecycle, for any sets of connections and devices.    *)
(***************************************************************************)
EXTENDS PeerLifecycle, TLAPS

USE LifecycleAssumption DEF Goto, Held, Announced, Alive, serverVars, historyVars

LEMMA InitInv == Init => Inv
BY DEF Init, Inv, TypeOK, Phases, PhaseInv, TwinsOverlap, AnnouncedByTask,
       AloneIsExact, EntryOfLiveTask

\* Stages before registration, and of a loop that goes on or is left.
LEMMA QuietStep ==
  ASSUME Inv, NEW c \in Conns,
         \/ Accept(c) \/ Upgrade(c) \/ EndHandshake(c)
         \/ LeaveLoop(c) \/ SeeCancelled(c) \/ Wedge(c) \/ WriteQueued(c)
  PROVE  Inv'
<1> USE DEF Inv, TypeOK, Phases, PhaseInv
<1>1. CASE EndHandshake(c)
  <2> USE <1>1 DEF EndHandshake, Refuse, Admit
  <2>1. TypeOK' /\ PhaseInv'
    OBVIOUS
  <2>2. TwinsOverlap'
    BY DEF TwinsOverlap
  <2>3. AnnouncedByTask'
    BY DEF AnnouncedByTask
  <2>4. AloneIsExact' /\ EntryOfLiveTask'
    BY DEF AloneIsExact, EntryOfLiveTask
  <2> QED BY <2>1, <2>2, <2>3, <2>4
<1>2. CASE Accept(c) \/ Upgrade(c) \/ LeaveLoop(c) \/ SeeCancelled(c) \/ Wedge(c) \/ WriteQueued(c)
  <2> USE <1>2 DEF Accept, Upgrade, LeaveLoop, SeeCancelled, Wedge, WriteQueued
  <2>1. TypeOK' /\ PhaseInv'
    OBVIOUS
  <2>2. TwinsOverlap'
    BY DEF TwinsOverlap
  <2>3. AnnouncedByTask'
    BY DEF AnnouncedByTask
  <2>4. AloneIsExact' /\ EntryOfLiveTask'
    BY DEF AloneIsExact, EntryOfLiveTask
  <2> QED BY <2>1, <2>2, <2>3, <2>4
<1> QED BY <1>1, <1>2

\* Registration and the greeting.
LEMMA JoinStep ==
  ASSUME Inv, NEW c \in Conns, Register(c) \/ AnnounceConnected(c) \/ SendAck(c)
  PROVE  Inv'
<1> USE DEF Inv, TypeOK, Phases, PhaseInv
<1>1. CASE Register(c)
  <2> USE <1>1 DEF Register
  <2>1. TypeOK' /\ PhaseInv'
    BY DEF Twins
  <2>2. \A x \in Conns : x # c /\ dev[x] = dev[c] /\ phase[x] \in Alive
                           => c \in overlap' /\ x \in overlap'
    BY DEF Twins
  <2>3. overlap \subseteq overlap'
    OBVIOUS
  <2>4. TwinsOverlap'
    BY <2>2, <2>3 DEF TwinsOverlap
  <2>5. AnnouncedByTask'
    BY DEF AnnouncedByTask
  <2>6. AloneIsExact' /\ EntryOfLiveTask'
    BY <2>2, <2>3 DEF AloneIsExact, EntryOfLiveTask
  <2> QED BY <2>1, <2>4, <2>5, <2>6
<1>2. CASE AnnounceConnected(c)
  <2> USE <1>2 DEF AnnounceConnected
  <2>1. TypeOK' /\ PhaseInv' /\ TwinsOverlap'
    BY DEF TwinsOverlap
  <2>2. AnnouncedByTask'
    BY DEF AnnouncedByTask
  <2>3. AloneIsExact' /\ EntryOfLiveTask'
    BY DEF AloneIsExact, EntryOfLiveTask
  <2> QED BY <2>1, <2>2, <2>3
<1>3. CASE SendAck(c)
  <2> USE <1>3 DEF SendAck
  <2>1. TypeOK' /\ PhaseInv' /\ TwinsOverlap'
    BY DEF TwinsOverlap
  <2>2. AnnouncedByTask'
    BY DEF AnnouncedByTask
  <2>3. AloneIsExact' /\ EntryOfLiveTask'
    BY DEF AloneIsExact, EntryOfLiveTask
  <2> QED BY <2>1, <2>2, <2>3
<1> QED BY <1>1, <1>2, <1>3

\* Removal, which may hit another connection's entry.
LEMMA LeaveStep ==
  ASSUME Inv, NEW c \in Conns, Remove(c) \/ AnnounceDisconnected(c)
  PROVE  Inv'
<1> USE DEF Inv, TypeOK, Phases, PhaseInv
<1>1. \A x \in Conns \ overlap : x # c /\ phase[x] \in Alive => dev[x] # dev[c]
  BY DEF TwinsOverlap, Remove, AnnounceDisconnected
<1>2. CASE Remove(c)
  <2> USE <1>2 DEF Remove
  <2>1. TypeOK' /\ PhaseInv' /\ TwinsOverlap'
    BY DEF TwinsOverlap
  <2>2. AnnouncedByTask'
    BY DEF AnnouncedByTask
  <2>3. AloneIsExact' /\ EntryOfLiveTask'
    BY <1>1 DEF AloneIsExact, EntryOfLiveTask
  <2> QED BY <2>1, <2>2, <2>3
<1>3. CASE AnnounceDisconnected(c)
  <2> USE <1>3 DEF AnnounceDisconnected
  <2>1. TypeOK' /\ PhaseInv' /\ TwinsOverlap'
    BY DEF TwinsOverlap
  <2>2. AnnouncedByTask'
    BY DEF AnnouncedByTask
  <2>3. AloneIsExact' /\ EntryOfLiveTask'
    BY <1>1 DEF AloneIsExact, EntryOfLiveTask
  <2> QED BY <2>1, <2>2, <2>3
<1> QED BY <1>2, <1>3

\* The shutdown touches no connection, entry or event.
LEMMA ServerInv ==
  ASSUME Inv, Cancel \/ ServerStep \/ Fail \/ UNCHANGED vars
  PROVE  Inv'
<1>1. UNCHANGED <<phase, dev, registry, announced, ackLost, overlap>>
  BY DEF Cancel, ServerStep, StopListening, BroadcastTo, FinishBroadcast, Exit, Fail, vars
<1>2. TypeOK'
  BY <1>1 DEF Inv, TypeOK, Cancel, ServerStep, StopListening, BroadcastTo,
              FinishBroadcast, Exit, Fail, vars
<1> QED
  BY <1>1, <1>2 DEF Inv, PhaseInv, TwinsOverlap, AnnouncedByTask, AloneIsExact,
                    EntryOfLiveTask

\* The inductive invariant of the life of connections.
THEOREM Invariant == Spec => []Inv
<1>1. Inv /\ [Next]_vars => Inv'
  BY QuietStep, JoinStep, LeaveStep, ServerInv DEF Next, Proceed
<1> QED BY <1>1, InitInv, PTL DEF Spec

\* The variables keep their types.
THEOREM TypeCorrect == Spec => []TypeOK
<1>1. Inv => TypeOK
  BY DEF Inv
<1> QED BY <1>1, Invariant, PTL

\* A device with one connection at a time is seen exactly as it is.
THEOREM Exactness == Spec => []AloneIsExact
<1>1. Inv => AloneIsExact
  BY DEF Inv
<1> QED BY <1>1, Invariant, PTL

\* What has ended is forgotten by the registry and by the clients, unless an
\* Ack was lost.
THEOREM Forgotten == Spec => []GoneIsForgotten
<1>1. Inv => EntryOfLiveTask
  BY DEF Inv
<1>2. Inv => \A d \in announced :
                \E c \in Conns : dev[c] = d /\ (phase[c] # "over" \/ c \in ackLost)
  BY DEF Inv, AnnouncedByTask, Announced
<1>3. Inv => GoneIsForgotten
  BY <1>1, <1>2 DEF GoneIsForgotten
<1> QED BY <1>3, Invariant, PTL

----------------------------------------------------------------------------
(***************************************************************************)
(* The refinement.  A connection only changes the link of its own device,  *)
(* and the invariant says what the link was before.                        *)
(***************************************************************************)
Moves == {<<"off", "registered">>, <<"registered", "up">>, <<"up", "removed">>,
          <<"removed", "off">>, <<"muddled", "off">>, <<"registered", "muddled">>,
          <<"up", "muddled">>, <<"removed", "muddled">>}

\* One step of the abstract specification, told by the devices' links.
LEMMA OneLink ==
  ASSUME NEW d \in Devices,
         \A e \in Devices \ {d} : LinkOf(e)' = LinkOf(e),
         LinkOf(d)' = LinkOf(d) \/ <<LinkOf(d), LinkOf(d)'>> \in Moves
  PROVE  [Presence!PresenceNext]_Links
<1>1. \A e \in Devices : Links[e] = LinkOf(e) /\ Links'[e] = LinkOf(e)'
  BY DEF Links
<1>2. Links' = [Links EXCEPT ![d] = LinkOf(d)']
  BY <1>1 DEF Links
<1>3. CASE LinkOf(d)' = LinkOf(d)
  BY <1>2, <1>3, <1>1 DEF Links
<1>4. CASE <<LinkOf(d), LinkOf(d)'>> \in Moves
  <2>1. Links[d] = LinkOf(d)
    BY <1>1
  <2>2. \/ Links[d] = "off" /\ LinkOf(d)' = "registered"
        \/ Links[d] = "registered" /\ LinkOf(d)' = "up"
        \/ Links[d] = "up" /\ LinkOf(d)' = "removed"
        \/ Links[d] = "removed" /\ LinkOf(d)' = "off"
        \/ Links[d] = "muddled" /\ LinkOf(d)' = "off"
        \/ Links[d] # "off" /\ LinkOf(d)' = "muddled"
    BY <1>4, <2>1 DEF Moves
  <2>3. \/ Links[d] = "off" /\ Links' = [Links EXCEPT ![d] = "registered"]
        \/ Links[d] = "registered" /\ Links' = [Links EXCEPT ![d] = "up"]
        \/ Links[d] = "up" /\ Links' = [Links EXCEPT ![d] = "removed"]
        \/ Links[d] = "removed" /\ Links' = [Links EXCEPT ![d] = "off"]
        \/ Links[d] = "muddled" /\ Links' = [Links EXCEPT ![d] = "off"]
        \/ Links[d] # "off" /\ Links' = [Links EXCEPT ![d] = "muddled"]
    BY <1>2, <2>2
  <2> QED
    BY <2>3 DEF Presence!PresenceNext, Presence!Enter, Presence!Announce,
                Presence!Withdraw, Presence!Farewell, Presence!Muddle,
                Presence!StraightenOut, Presence!Move
<1> QED BY <1>3, <1>4

\* Where the exceptions, the entry and the announcement of a device stay,
\* its link does.
LEMMA LinkStays ==
  ASSUME NEW e \in Devices,
         Muddled(e)' <=> Muddled(e),
         registry[e]' = registry[e], e \in announced' <=> e \in announced
  PROVE  LinkOf(e)' = LinkOf(e)
BY DEF LinkOf

\* A task that is alive without a twin is what registry and events tell of its
\* device, and a device without a living task or a lost Ack is in neither.
LinkTold ==
  /\ \A c \in Conns : phase[c] \in Alive /\ ~Muddled(dev[c]) =>
       LinkOf(dev[c]) = IF phase[c] \in {"registered", "removed"} THEN phase[c] ELSE "up"
  /\ \A d \in Devices :
       (\A x \in Conns : dev[x] = d => phase[x] \notin Alive /\ x \notin ackLost)
         => LinkOf(d) = "off"

LEMMA InvTells == Inv => LinkTold
<1> SUFFICES ASSUME Inv PROVE LinkTold
  OBVIOUS
<1>1. ASSUME NEW c \in Conns, phase[c] \in Alive, ~Muddled(dev[c])
      PROVE  LinkOf(dev[c]) = IF phase[c] \in {"registered", "removed"}
                              THEN phase[c] ELSE "up"
  <2> USE <1>1 DEF Inv, PhaseInv, Muddled
  <2>1. c \notin overlap /\ dev[c] \in Devices
    OBVIOUS
  <2>2. \A x \in Conns : dev[x] = dev[c] /\ x # c => phase[x] \notin Alive /\ x \notin ackLost
    BY DEF TwinsOverlap
  <2>3. /\ phase[c] \in Held => registry[dev[c]] = c
        /\ phase[c] \in Announced => dev[c] \in announced
    BY <2>1 DEF AloneIsExact
  <2>4. phase[c] = "registered" => dev[c] \notin announced
    BY <2>2 DEF AnnouncedByTask
  <2>5. phase[c] = "removed" => registry[dev[c]] = NoConn
    BY <2>1, <2>2 DEF EntryOfLiveTask, TypeOK
  <2> QED BY <2>3, <2>4, <2>5 DEF LinkOf
<1>2. ASSUME NEW d \in Devices,
             \A x \in Conns : dev[x] = d => phase[x] \notin Alive /\ x \notin ackLost
      PROVE  LinkOf(d) = "off"
  <2>1. registry[d] = NoConn
    BY <1>2 DEF Inv, TypeOK, EntryOfLiveTask
  <2>2. d \notin announced
    BY <1>2 DEF Inv, AnnouncedByTask
  <2>3. ~Muddled(d)
    BY <1>2 DEF Muddled
  <2> QED BY <2>1, <2>2, <2>3 DEF LinkOf
<1> QED BY <1>1, <1>2 DEF LinkTold

LEMMA InvTellsNext == Inv' => LinkTold'
BY InvTells, PTL

LEMMA QuietLinks ==
  ASSUME Inv, NEW c \in Conns,
         \/ Accept(c) \/ Upgrade(c) \/ EndHandshake(c)
         \/ LeaveLoop(c) \/ SeeCancelled(c) \/ Wedge(c) \/ WriteQueued(c)
  PROVE  \A e \in Devices : LinkOf(e)' = LinkOf(e)
<1> USE DEF Inv, TypeOK, PhaseInv, Accept, Upgrade, EndHandshake, Refuse, Admit,
            LeaveLoop, SeeCancelled, Wedge, WriteQueued
<1> SUFFICES ASSUME NEW e \in Devices PROVE LinkOf(e)' = LinkOf(e)
  OBVIOUS
<1>1. ackLost' = ackLost /\ overlap' = overlap /\ registry' = registry
      /\ announced' = announced
  OBVIOUS
<1>2. \A x \in Conns : x # c => phase'[x] = phase[x] /\ dev'[x] = dev[x]
  OBVIOUS
<1>3. \/ phase[c] \in Alive /\ phase'[c] \in Alive /\ dev'[c] = dev[c]
      \/ phase[c] \notin Alive /\ phase'[c] \notin Alive /\ c \notin ackLost
  OBVIOUS
<1>4. Muddled(e)' <=> Muddled(e)
  BY <1>1, <1>2, <1>3 DEF Muddled
<1> QED BY <1>1, <1>4, LinkStays

\* What a step of the task c leaves alone of every other device.
LEMMA OtherLinks ==
  ASSUME NEW c \in Conns, dev' = dev,
         \A x \in Conns : dev[x] # dev[c] => /\ phase'[x] = phase[x]
                                             /\ x \in ackLost' <=> x \in ackLost
                                             /\ x \in overlap' <=> x \in overlap,
         \A e \in Devices \ {dev[c]} : /\ registry'[e] = registry[e]
                                       /\ e \in announced' <=> e \in announced
  PROVE  \A e \in Devices \ {dev[c]} : LinkOf(e)' = LinkOf(e)
<1> SUFFICES ASSUME NEW e \in Devices \ {dev[c]} PROVE LinkOf(e)' = LinkOf(e)
  OBVIOUS
<1>1. Muddled(e)' <=> Muddled(e)
  BY DEF Muddled
<1> QED BY <1>1, LinkStays

\* The steps that change registry, events or the exceptions, link by link.
LEMMA OwnLink ==
  ASSUME Inv, Inv', NEW c \in Conns,
         \/ Register(c) \/ AnnounceConnected(c) \/ SendAck(c)
         \/ Remove(c) \/ AnnounceDisconnected(c)
  PROVE  LET d == dev[c] IN
         LinkOf(d)' = LinkOf(d) \/ <<LinkOf(d), LinkOf(d)'>> \in Moves
<1> DEFINE d == dev[c]
           told(ph) == IF ph \in {"registered", "removed"} THEN ph ELSE "up"
<1> USE DEF Register, AnnounceConnected, SendAck, Remove, AnnounceDisconnected, Inv, PhaseInv
<1>1. d \in Devices /\ dev' = dev
  OBVIOUS
<1>2. \A x \in Conns : x # c => phase'[x] = phase[x]
  BY DEF TypeOK
<1>3. CASE Muddled(d) /\ Muddled(d)'
  BY <1>3 DEF LinkOf
<1>4. CASE ~Muddled(d) /\ ~Muddled(d)' /\ phase[c] \in Alive /\ phase'[c] \in Alive
  <2>1. LinkOf(d) = told(phase[c])
    BY <1>4, InvTells DEF LinkTold
  <2>2. LinkOf(d)' = told(phase'[c])
    BY <1>1, <1>4, InvTellsNext DEF LinkTold
  <2> QED BY <1>4, <2>1, <2>2 DEF Moves, TypeOK
<1>5. CASE ~Muddled(d) /\ ~Muddled(d)' /\ ~(phase[c] \in Alive /\ phase'[c] \in Alive)
  <2>1. \A x \in Conns : dev[x] = d /\ x # c => phase[x] \notin Alive /\ x \notin ackLost
    BY <1>1, <1>2, <1>5 DEF TwinsOverlap, Twins, Muddled
  <2>2. CASE Register(c)
    <3>1. LinkOf(d) = "off"
      BY <1>1, <2>1, <2>2, InvTells DEF LinkTold
    <3>2. LinkOf(d)' = "registered"
      BY <1>1, <1>5, <2>2, InvTellsNext DEF LinkTold, TypeOK
    <3> QED BY <3>1, <3>2 DEF Moves
  <2>3. CASE AnnounceDisconnected(c)
    <3>1. LinkOf(d) = "removed"
      BY <1>1, <1>5, <2>3, InvTells DEF LinkTold
    <3>2. LinkOf(d)' = "off"
      BY <1>1, <1>2, <2>1, <2>3, InvTellsNext DEF LinkTold, TypeOK
    <3> QED BY <3>1, <3>2 DEF Moves
  <2>4. CASE SendAck(c)
    BY <1>1, <1>5, <2>4 DEF Muddled, TypeOK
  <2> QED BY <1>5, <2>2, <2>3, <2>4 DEF TypeOK
<1>6. CASE Muddled(d) /\ ~Muddled(d)'
  <2>1. AnnounceDisconnected(c)
    BY <1>1, <1>2, <1>6 DEF Muddled, TypeOK
  <2>2. \A x \in Conns : dev[x] = d => phase'[x] \notin Alive /\ x \notin ackLost'
    BY <1>1, <1>2, <1>6, <2>1 DEF Muddled, TypeOK, TwinsOverlap
  <2>3. LinkOf(d)' = "off"
    BY <1>1, <2>2, InvTellsNext DEF LinkTold
  <2>4. LinkOf(d) = "muddled"
    BY <1>6 DEF LinkOf
  <2> QED BY <2>3, <2>4 DEF Moves
<1>7. CASE ~Muddled(d) /\ Muddled(d)'
  <2>1. \E x \in Conns : dev[x] = d /\ phase[x] \in Alive
    BY <1>1, <1>2, <1>7 DEF Muddled, TypeOK, Twins
  <2>2. LinkOf(d) \in {"registered", "up", "removed"}
    BY <1>7, <2>1, InvTells DEF LinkTold
  <2>3. LinkOf(d)' = "muddled"
    BY <1>1, <1>7 DEF LinkOf
  <2> QED BY <2>2, <2>3 DEF Moves
<1> QED BY <1>3, <1>4, <1>5, <1>6, <1>7

\* Registry and events tell one story of every device, in one order.
THEOREM PresenceImplemented == Spec => ImplementsPresence
<1>1. Init => Presence!PresenceInit
  BY DEF Init, Presence!PresenceInit, Links, LinkOf, Muddled
<1>2. Inv /\ Inv' /\ [Next]_vars => [Presence!PresenceNext]_Links
  <2> SUFFICES ASSUME Inv, Inv', [Next]_vars PROVE [Presence!PresenceNext]_Links
    OBVIOUS
  <2>1. ASSUME NEW c \in Conns,
               \/ Accept(c) \/ Upgrade(c) \/ EndHandshake(c)
               \/ LeaveLoop(c) \/ SeeCancelled(c) \/ Wedge(c) \/ WriteQueued(c)
        PROVE  UNCHANGED Links
    BY <2>1, QuietLinks DEF Links
  <2>2. ASSUME NEW c \in Conns,
               \/ Register(c) \/ AnnounceConnected(c) \/ SendAck(c)
               \/ Remove(c) \/ AnnounceDisconnected(c)
        PROVE  [Presence!PresenceNext]_Links
    <3>1. dev[c] \in Devices /\ dev' = dev
      BY <2>2 DEF Inv, PhaseInv, Register, AnnounceConnected, SendAck, Remove,
                  AnnounceDisconnected
    <3>2. \A e \in Devices \ {dev[c]} : LinkOf(e)' = LinkOf(e)
      BY <2>2, <3>1, OtherLinks
         DEF Inv, TypeOK, Register, AnnounceConnected, SendAck, Remove,
             AnnounceDisconnected, Twins
    <3> QED BY <2>2, <3>1, <3>2, OwnLink, OneLink
  <2>3. ASSUME Cancel \/ ServerStep \/ Fail \/ UNCHANGED vars PROVE UNCHANGED Links
    <3>1. UNCHANGED <<phase, dev, registry, announced, ackLost, overlap>>
      BY <2>3 DEF Cancel, ServerStep, StopListening, BroadcastTo, FinishBroadcast,
                  Exit, Fail, vars
    <3> QED BY <3>1 DEF Links, LinkOf, Muddled
  <2> QED BY <2>1, <2>2, <2>3 DEF Next, Proceed
<1> QED BY <1>1, <1>2, Invariant, PTL DEF Spec, ImplementsPresence, Presence!PresenceSpec

----------------------------------------------------------------------------
\* What "stopped cleanly" (main.rs) means, reached after Ctrl-C only and never by an
\* error: every connection has ended, the broadcast has returned, and clients and
\* registry have been told of every end, but for lost Acks.
ExitIsClean ==
  server = "exited" =>
    /\ cancelled /\ toTell = {}
    /\ \A c \in Conns : phase[c] \in {"idle", "over"}
    /\ \A d \in announced : \E c \in ackLost : dev[c] = d
    /\ \A d \in Devices : registry[d] # NoConn => registry[d] \in ackLost

\* The shutdown in its order, whatever connections do meanwhile.
ShutdownInv ==
  /\ server \notin {"listening", "failed"} => cancelled
  /\ server \in {"stopped", "exited"} => toTell = {}
  /\ server = "exited" => \A c \in Conns : phase[c] \in {"idle", "over"}

\* No step of a connection or of the server upsets that order.
LEMMA ShutdownStep == Inv /\ ShutdownInv /\ [Next]_vars => ShutdownInv'
<1> SUFFICES ASSUME Inv, ShutdownInv, [Next]_vars PROVE ShutdownInv'
  OBVIOUS
<1> USE DEF Inv, TypeOK, ShutdownInv
<1>1. ASSUME NEW c \in Conns, Accept(c) \/ Upgrade(c) \/ EndHandshake(c) PROVE ShutdownInv'
  BY <1>1 DEF Accept, Upgrade, EndHandshake, Admit, Refuse
<1>2. ASSUME NEW c \in Conns, LeaveLoop(c) \/ Wedge(c) PROVE ShutdownInv'
  BY <1>2 DEF LeaveLoop, Wedge
<1>3. ASSUME NEW c \in Conns, Proceed(c) PROVE ShutdownInv'
  BY <1>3 DEF Proceed, Register, AnnounceConnected, SendAck, SeeCancelled, LeaveLoop,
              WriteQueued, Remove, AnnounceDisconnected
<1>4. CASE Cancel \/ ServerStep \/ Fail
  BY <1>4 DEF Cancel, ServerStep, StopListening, BroadcastTo, FinishBroadcast, Exit, Fail
<1>5. CASE UNCHANGED vars
  BY <1>5 DEF vars
<1> QED BY <1>1, <1>2, <1>3, <1>4, <1>5 DEF Next

\* Whenever main returns Ok, it has stopped cleanly (websocket_server.rs run_server,
\* main.rs try_join!); an error of accept() or of the bridge is not Ok, and may end the
\* process with peers connected.
THEOREM CleanExit == Spec => []ExitIsClean
<1>1. Init => ShutdownInv
  BY DEF Init, ShutdownInv
<1>2. ASSUME Inv, ShutdownInv, server = "exited" PROVE ExitIsClean
  <2>1. \A c \in Conns : phase[c] \in {"idle", "over"}
    BY <1>2 DEF ShutdownInv
  <2>2. cancelled /\ toTell = {}
    <3>1. server \notin {"listening", "failed"} /\ server \in {"stopped", "exited"}
      BY <1>2
    <3> QED BY <1>2, <3>1, Zenon DEF ShutdownInv
  <2>3. \A d \in announced : \E c \in ackLost : dev[c] = d
    BY <1>2, <2>1 DEF Inv, AnnouncedByTask
  <2>4. \A d \in Devices : registry[d] # NoConn => registry[d] \in ackLost
    BY <1>2, <2>1 DEF Inv, TypeOK, EntryOfLiveTask
  <2> QED BY <2>1, <2>2, <2>3, <2>4 DEF ExitIsClean
<1>3. Inv /\ ShutdownInv => ExitIsClean
  BY <1>2 DEF ExitIsClean
<1> QED BY <1>1, <1>3, ShutdownStep, Invariant, PTL DEF Spec
=============================================================================
