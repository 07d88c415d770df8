------------------------ MODULE DesktopClientsProofs ------------------------
(***************************************************************************)
(* What the desktop shows of the daemon's peers is true whenever nothing   *)
(* is on its way: proofs for the application's window, its connection      *)
(* page and the panel of the GNOME Shell, for any number of devices, of    *)
(* events and of places in the channel.                                    *)
(*                                                                         *)
(* The argument is the same for all three.  BusInv says what the channel   *)
(* still promises about the peers; a view's invariant says that what it    *)
(* shows is either true or will be corrected by a signal that is still     *)
(* queued or still in the channel.  A step of the peers is summed up by    *)
(* Told, a read of the bridge by Received, what a pair of streams makes of *)
(* a signal by Heard and Kept; the steps of a view need nothing else.      *)
(***************************************************************************)
EXTENDS DesktopClients, TLAPS

USE BridgeAssumption, WindowAssumption, PanelAssumption

\* Sequences of events: in the order in which they were sent; all of one sent
\* before all of the other; with a DeviceDisconnected of d sent after the m-th
\* event; without a signal; with the connection of d as the last signal.
InOrder(q) == \A i, j \in 1..Len(q) : i < j => q[i].n < q[j].n
Before(q, r) == \A i \in 1..Len(q), j \in 1..Len(r) : q[i].n < r[j].n
DiscAfter(q, d, m) ==
  \E i \in 1..Len(q) : q[i].kind = "disc" /\ q[i].dev = d /\ q[i].n > m
Quiet(q) == \A i \in 1..Len(q) : q[i].kind = "other"
EndsUp(q, d) ==
  \E i \in 1..Len(q) : /\ q[i].kind = "conn" /\ q[i].dev = d
                       /\ \A j \in 1..Len(q) : j > i => q[j].kind = "other"

\* The devices that nobody should show.
Gone == {d \in Devices : link[d] = "off" /\ d \notin orphaned}

\* Of each device that is gone but said to be there the end is said later.
Covers(q, G) == \A i \in 1..Len(q) :
  q[i].kind = "conn" /\ q[i].dev \in G => DiscAfter(q, q[i].dev, q[i].n)

\* The bridge has skipped nothing, and one device was connected at a time.
Steady == ~lagged /\ ~together

\* What the channel promises about the peers.
BusInv ==
  /\ BridgeTypeOK
  /\ InOrder(bus) /\ \A i \in 1..Len(bus) : bus[i].n <= sent
  /\ ~together => \A x, y \in Devices : link[x] # "off" /\ link[y] # "off" => x = y
  /\ ~lagged => Covers(bus, Gone)
  /\ Steady => \A d \in Devices : link[d] = "up" => EndsUp(bus, d) \/ Quiet(bus)

----------------------------------------------------------------------------
\* c is q without its first event e; r is q with e as its last event.
Pops(q, e, c) == q # <<>> /\ e = Head(q) /\ c = Tail(q)
Pushes(q, e, r) == r = Append(q, e)

\* The fields of an event.
LEMMA EventType ==
  \A e \in Events : e.n \in Nat \ {0} /\ e.dev \in Devices /\ e.kind \in Kinds \cup {"other"}
  BY DEF Events

\* What is in a sequence that has lost its first element.
LEMMA PopAny ==
  ASSUME NEW T, NEW q \in Seq(T), NEW e, NEW c, Pops(q, e, c)
  PROVE  /\ q # <<>> /\ e \in T /\ c \in Seq(T)
         /\ Len(q) \in Nat /\ Len(c) \in Nat /\ Len(q) = Len(c) + 1
         /\ 1 \in 1..Len(q) /\ e = q[1]
         /\ \A i \in 1..Len(c) : i + 1 \in 1..Len(q) /\ c[i] = q[i + 1]
         /\ \A i \in 1..Len(q) : i = 1 \/ \E j \in 1..Len(c) : i = j + 1 /\ c[j] = q[i]
<1>1. /\ q # <<>> /\ e \in T /\ c \in Seq(T)
      /\ Len(q) \in Nat /\ Len(c) \in Nat /\ Len(q) = Len(c) + 1
      /\ 1 \in 1..Len(q) /\ e = q[1]
      /\ \A i \in 1..Len(c) : i + 1 \in 1..Len(q) /\ c[i] = q[i + 1]
  BY DEF Pops
<1>2. ASSUME NEW i \in 1..Len(q), i # 1
      PROVE  \E j \in 1..Len(c) : i = j + 1 /\ c[j] = q[i]
  <2>1. i - 1 \in 1..Len(c) /\ i = (i - 1) + 1
    BY <1>1, <1>2
  <2> QED BY <1>1, <2>1
<1> QED BY <1>1, <1>2

\* What is in a sequence that has got one more element.
LEMMA PushAny ==
  ASSUME NEW T, NEW q \in Seq(T), NEW e \in T, NEW r, Pushes(q, e, r)
  PROVE  /\ r \in Seq(T) /\ r # <<>>
         /\ Len(q) \in Nat /\ Len(r) \in Nat /\ Len(r) = Len(q) + 1
         /\ Len(r) \in 1..Len(r) /\ r[Len(r)] = e
         /\ \A i \in 1..Len(q) : i \in 1..Len(r) /\ i < Len(r) /\ r[i] = q[i]
         /\ \A i \in 1..Len(r) : i = Len(r) \/ i \in 1..Len(q)
  BY DEF Pushes

\* The oldest event leaves.
LEMMA WithoutOldest ==
  ASSUME NEW q \in Seq(Events), NEW e, NEW c, Pops(q, e, c), InOrder(q)
  PROVE  /\ InOrder(c) /\ \A i \in 1..Len(c) : e.n < c[i].n
         /\ \A d, m : DiscAfter(q, d, m) =>
              DiscAfter(c, d, m) \/ (e.kind = "disc" /\ e.dev = d /\ e.n > m)
         /\ \A G : Covers(q, G) =>
              /\ Covers(c, G)
              /\ e.kind = "conn" /\ e.dev \in G => DiscAfter(c, e.dev, e.n)
         /\ Quiet(q) => Quiet(c) /\ e.kind = "other"
         /\ \A d : EndsUp(q, d) =>
              EndsUp(c, d) \/ (Quiet(c) /\ e.kind = "conn" /\ e.dev = d)
<1>1. /\ 1 \in 1..Len(q) /\ e = q[1]
      /\ \A i \in 1..Len(c) : i \in Nat /\ 1 < i + 1 /\ i + 1 \in 1..Len(q) /\ c[i] = q[i + 1]
      /\ \A i \in 1..Len(q) : i = 1 \/ \E j \in 1..Len(c) : i = j + 1 /\ c[j] = q[i]
      /\ \A i \in 1..Len(q) : q[i].n \in Nat
  BY PopAny, EventType
<1>2. InOrder(c) /\ \A i \in 1..Len(c) : e.n < c[i].n
  <2>1. ASSUME NEW i \in 1..Len(c) PROVE e.n < c[i].n
    BY <1>1 DEF InOrder
  <2>2. ASSUME NEW i \in 1..Len(c), NEW j \in 1..Len(c), i < j PROVE c[i].n < c[j].n
    <3>1. i + 1 \in 1..Len(q) /\ j + 1 \in 1..Len(q) /\ i + 1 < j + 1
      BY <1>1, <2>2
    <3>2. q[i + 1].n < q[j + 1].n
      BY <3>1 DEF InOrder
    <3> QED BY <1>1, <3>2
  <2> QED BY <2>1, <2>2 DEF InOrder
<1>3. ASSUME NEW d, NEW m, DiscAfter(q, d, m)
      PROVE  DiscAfter(c, d, m) \/ (e.kind = "disc" /\ e.dev = d /\ e.n > m)
  BY <1>1, <1>3 DEF DiscAfter
<1>4. ASSUME NEW G, Covers(q, G), NEW i \in 1..Len(q), q[i].kind = "conn", q[i].dev \in G
      PROVE  DiscAfter(c, q[i].dev, q[i].n)
  <2>1. DiscAfter(q, q[i].dev, q[i].n)
    BY <1>4 DEF Covers
  <2>2. ~(e.n > q[i].n)
    BY <1>1 DEF InOrder
  <2> QED BY <1>3, <2>1, <2>2
<1>5. ASSUME NEW G, Covers(q, G) PROVE Covers(c, G)
  <2> SUFFICES ASSUME NEW i \in 1..Len(c), c[i].kind = "conn", c[i].dev \in G
               PROVE  DiscAfter(c, c[i].dev, c[i].n)
    BY DEF Covers
  <2>1. i + 1 \in 1..Len(q) /\ c[i] = q[i + 1]
    BY <1>1
  <2> QED BY <1>4, <1>5, <2>1
<1>6. Quiet(q) => Quiet(c) /\ e.kind = "other"
  BY <1>1 DEF Quiet
<1>7. ASSUME NEW d, EndsUp(q, d)
      PROVE  EndsUp(c, d) \/ (Quiet(c) /\ e.kind = "conn" /\ e.dev = d)
  <2>1. PICK i \in 1..Len(q) : /\ q[i].kind = "conn" /\ q[i].dev = d
                               /\ \A j \in 1..Len(q) : j > i => q[j].kind = "other"
    BY <1>7 DEF EndsUp
  <2>2. CASE i = 1
    <3>1. e.kind = "conn" /\ e.dev = d
      BY <1>1, <2>1, <2>2
    <3>2. ASSUME NEW j \in 1..Len(c) PROVE c[j].kind = "other"
      <4>1. j + 1 \in 1..Len(q) /\ j + 1 > 1 /\ c[j] = q[j + 1]
        BY <1>1
      <4> QED BY <2>1, <2>2, <4>1
    <3> QED BY <3>1, <3>2 DEF Quiet
  <2>3. CASE i # 1
    <3>1. PICK k \in 1..Len(c) : i = k + 1 /\ c[k] = q[i]
      BY <1>1, <2>3
    <3>2. ASSUME NEW j \in 1..Len(c), j > k PROVE c[j].kind = "other"
      BY <1>1, <2>1, <3>1, <3>2
    <3> QED BY <2>1, <3>1, <3>2 DEF EndsUp
  <2> QED BY <2>2, <2>3
<1> QED BY <1>1, <1>2, <1>3, <1>4, <1>5, <1>6, <1>7

\* A new event comes last.
LEMMA WithNewest ==
  ASSUME NEW q \in Seq(Events), NEW e \in Events, NEW r, Pushes(q, e, r),
         InOrder(q), \A i \in 1..Len(q) : q[i].n < e.n
  PROVE  /\ InOrder(r) /\ \A i \in 1..Len(r) : r[i].n <= e.n
         /\ \A d, m : DiscAfter(q, d, m) => DiscAfter(r, d, m)
         /\ e.kind = "disc" => \A m \in Nat : m < e.n => DiscAfter(r, e.dev, m)
         /\ \A G : Covers(q, G) =>
              /\ (e.kind = "conn" => e.dev \notin G) => Covers(r, G)
              /\ e.kind = "disc" => Covers(r, G \cup {e.dev})
         /\ e.kind = "conn" => EndsUp(r, e.dev)
         /\ e.kind = "other" /\ Quiet(q) => Quiet(r)
         /\ \A d : e.kind = "other" /\ EndsUp(q, d) => EndsUp(r, d)
         /\ Quiet(r) => Quiet(q) /\ e.kind = "other"
<1>1. /\ Len(r) \in Nat /\ Len(r) \in 1..Len(r) /\ r[Len(r)] = e
      /\ \A i \in 1..Len(q) : i \in 1..Len(r) /\ i < Len(r) /\ r[i] = q[i]
      /\ \A i \in 1..Len(r) : i = Len(r) \/ i \in 1..Len(q)
      /\ \A i \in 1..Len(r) : r[i].n \in Nat
  BY PushAny, EventType
<1>2. InOrder(r) /\ \A i \in 1..Len(r) : r[i].n <= e.n
  <2>1. \A i \in 1..Len(r) : r[i].n <= e.n
    BY <1>1
  <2>2. ASSUME NEW i \in 1..Len(r), NEW j \in 1..Len(r), i < j PROVE r[i].n < r[j].n
    <3>1. i \in 1..Len(q)
      BY <1>1, <2>2
    <3>2. j = Len(r) \/ j \in 1..Len(q)
      BY <1>1
    <3> QED BY <1>1, <2>2, <3>1, <3>2 DEF InOrder
  <2> QED BY <2>1, <2>2 DEF InOrder
<1>3. \A d, m : DiscAfter(q, d, m) => DiscAfter(r, d, m)
  BY <1>1 DEF DiscAfter
<1>4. e.kind = "disc" => \A m \in Nat : m < e.n => DiscAfter(r, e.dev, m)
  BY <1>1, EventType DEF DiscAfter
<1>5. ASSUME NEW G, Covers(q, G), e.kind = "conn" => e.dev \notin G PROVE Covers(r, G)
  BY <1>1, <1>3, <1>5 DEF Covers
<1>6. ASSUME NEW G, Covers(q, G), e.kind = "disc" PROVE Covers(r, G \cup {e.dev})
  <2> SUFFICES ASSUME NEW i \in 1..Len(r), r[i].kind = "conn", r[i].dev \in G \cup {e.dev}
               PROVE  DiscAfter(r, r[i].dev, r[i].n)
    BY DEF Covers
  <2>1. i \in 1..Len(q) /\ r[i] = q[i] /\ r[i].n < e.n
    BY <1>1, <1>6
  <2> QED BY <1>1, <1>3, <1>4, <1>6, <2>1 DEF Covers
<1>7. e.kind = "conn" => EndsUp(r, e.dev)
  BY <1>1 DEF EndsUp
<1>8. /\ e.kind = "other" /\ Quiet(q) => Quiet(r)
      /\ Quiet(r) => Quiet(q) /\ e.kind = "other"
  BY <1>1 DEF Quiet
<1>9. ASSUME NEW d, e.kind = "other", EndsUp(q, d) PROVE EndsUp(r, d)
  BY <1>1, <1>9 DEF EndsUp
<1> QED BY <1>2, <1>3, <1>4, <1>5, <1>6, <1>7, <1>8, <1>9

\* What a call of event_tx.send does to the channel, full or not.
LEMMA PublishStep ==
  ASSUME BusInv, NEW kind \in {"conn", "disc", "other"}, NEW d \in Devices,
         Publish(kind, d), NEW e, e = [kind |-> kind, dev |-> d, n |-> sent + 1]
  PROVE  /\ sent' = sent + 1 /\ sent' \in 0..MaxEvents /\ e \in Events
         /\ bus' \in Seq(Events) /\ Len(bus') <= BusCap /\ Len(bus') <= Len(bus) + 1
         /\ InOrder(bus') /\ \A i \in 1..Len(bus') : bus'[i].n <= sent'
         /\ \A i \in 1..Len(bus') : bus'[i].n > sent \/ \E j \in 1..Len(bus) : bus'[i] = bus[j]
         /\ lagged' \in BOOLEAN /\ (~lagged' => ~lagged /\ Pushes(bus, e, bus'))
         /\ restarts' = restarts
<1>1. /\ e \in Events /\ e.n = sent + 1 /\ sent \in Nat /\ sent' = sent + 1
      /\ sent' \in 0..MaxEvents /\ restarts' = restarts
      /\ bus \in Seq(Events) /\ Len(bus) \in Nat /\ Len(bus) <= BusCap /\ InOrder(bus)
      /\ lagged \in BOOLEAN
      /\ \A i \in 1..Len(bus) : bus[i].n <= sent
  BY DEF Publish, BusInv, BridgeTypeOK, Events, Kinds
<1>2. ASSUME NEW q \in Seq(Events), Pushes(q, e, bus'), InOrder(q),
             \A i \in 1..Len(q) : \E j \in 1..Len(bus) : q[i] = bus[j]
      PROVE  /\ bus' \in Seq(Events) /\ Len(bus') = Len(q) + 1
             /\ InOrder(bus') /\ \A i \in 1..Len(bus') : bus'[i].n <= sent'
             /\ \A i \in 1..Len(bus') : bus'[i].n > sent \/ \E j \in 1..Len(bus) : bus'[i] = bus[j]
  <2>1. \A i \in 1..Len(q) : q[i].n < e.n
    <3>1. \A j \in 1..Len(bus) : bus[j].n < e.n
      BY <1>1, EventType
    <3> QED BY <1>2, <3>1
  <2>2. InOrder(bus') /\ \A i \in 1..Len(bus') : bus'[i].n <= e.n
    BY <1>1, <1>2, <2>1, WithNewest
  <2>3. /\ bus' \in Seq(Events) /\ Len(bus') = Len(q) + 1 /\ bus'[Len(bus')] = e
        /\ \A i \in 1..Len(q) : bus'[i] = q[i]
        /\ \A i \in 1..Len(bus') : i = Len(bus') \/ i \in 1..Len(q)
    BY <1>1, <1>2, PushAny
  <2>4. ASSUME NEW i \in 1..Len(bus')
        PROVE  bus'[i].n > sent \/ \E j \in 1..Len(bus) : bus'[i] = bus[j]
    BY <1>1, <1>2, <2>3
  <2> QED BY <1>1, <2>2, <2>3, <2>4
<1>3. CASE Len(bus) < BusCap
  <2>1. Pushes(bus, e, bus') /\ lagged' = lagged
    BY <1>3 DEF Publish, Pushes
  <2>2. lagged' \in BOOLEAN /\ (~lagged' => ~lagged)
    BY <1>1, <2>1
  <2>3. Len(bus) + 1 <= BusCap
    BY <1>1, <1>3
  <2> QED BY <1>1, <1>2, <2>1, <2>2, <2>3
<1>4. CASE ~(Len(bus) < BusCap)
  <2>1. bus # <<>>
    BY <1>1, <1>4
  <2> DEFINE q == Tail(bus)
  <2>2. Pops(bus, Head(bus), q) /\ Pushes(q, e, bus') /\ lagged' = TRUE
    BY <1>4, <2>1 DEF Publish, Pops, Pushes
  <2> HIDE DEF q
  <2>3. /\ q \in Seq(Events) /\ Len(q) \in Nat /\ Len(q) + 1 = Len(bus) /\ InOrder(q)
        /\ \A i \in 1..Len(q) : \E j \in 1..Len(bus) : q[i] = bus[j]
    BY <1>1, <2>2, PopAny, WithoutOldest
  <2>4. lagged' \in BOOLEAN /\ lagged'
    BY <2>2
  <2>5. Len(bus') = Len(bus)
    BY <1>2, <2>2, <2>3
  <2> QED BY <1>1, <1>2, <2>2, <2>3, <2>4, <2>5
<1> QED BY <1>3, <1>4

\* The registry or an event not yet read will bring a view of d up to date.
Turning(d) ==
  \/ link[d] \in {"removed", "registered"}
  \/ \E i \in 1..Len(bus) : bus[i].kind = "conn" \/ (bus[i].kind = "disc" /\ bus[i].dev = d)

\* What a step of the peers means for those who are told by the channel.
Told ==
  /\ sent <= sent' /\ Len(bus') + sent <= Len(bus) + sent'
  /\ \A i \in 1..Len(bus') : bus'[i].n > sent \/ \E j \in 1..Len(bus) : bus'[i] = bus[j]
  /\ (~lagged' => ~lagged) /\ (~together' => ~together)
  /\ ~lagged' => \A d \in Gone' :
       \/ \A x \in 0..sent : DiscAfter(bus', d, x)
       \/ d \in Gone /\ \A x \in Nat : DiscAfter(bus, d, x) => DiscAfter(bus', d, x)
  /\ Steady' => \A d \in Devices :
       link'[d] = "up" /\ Quiet(bus') => link[d] = "up" /\ Quiet(bus)
  /\ ~lagged' => \A d \in Devices \ orphaned' : Turning(d) \/ d \in orphaned => Turning(d)'

\* The same, for the channel's invariant and those who are told.
LEMMA PublishTells ==
  ASSUME BusInv, NEW kind \in {"conn", "disc", "other"}, NEW d \in Devices,
         NEW to \in Links \ {"muddled"},
         Publish(kind, d), link' = [link EXCEPT ![d] = to], UNCHANGED <<together, orphaned>>,
         link[d] # "off",
         \/ kind = "conn" /\ to = "up"
         \/ kind = "disc" /\ to = "off"
         \/ kind = "other" /\ link[d] = "up" /\ to = "up"
  PROVE  BusInv' /\ Told
<1> DEFINE e == [kind |-> kind, dev |-> d, n |-> sent + 1]
<1>1. /\ sent' = sent + 1 /\ sent' \in 0..MaxEvents /\ e \in Events
      /\ bus' \in Seq(Events) /\ Len(bus') <= BusCap /\ Len(bus') <= Len(bus) + 1
      /\ InOrder(bus') /\ \A i \in 1..Len(bus') : bus'[i].n <= sent'
      /\ \A i \in 1..Len(bus') : bus'[i].n > sent \/ \E j \in 1..Len(bus) : bus'[i] = bus[j]
      /\ lagged' \in BOOLEAN /\ (~lagged' => ~lagged /\ Pushes(bus, e, bus'))
      /\ restarts' = restarts
  BY PublishStep
<1>2. /\ bus \in Seq(Events) /\ sent \in Nat /\ InOrder(bus) /\ e.n = sent + 1
      /\ \A i \in 1..Len(bus) : bus[i].n < e.n
      /\ e.kind = kind /\ e.dev = d
  BY EventType DEF BusInv, BridgeTypeOK
<1> HIDE DEF e
<1>3. /\ link' \in [Devices -> Links \ {"muddled"}] /\ link'[d] = to
      /\ \A x \in Devices \ {d} : link'[x] = link[x]
      /\ d \notin Gone /\ Gone' \subseteq Gone \cup {d} /\ (kind # "disc" => Gone' \subseteq Gone)
  BY DEF BusInv, BridgeTypeOK, Links, Gone
<1>4. ASSUME ~together'
      PROVE  /\ \A x, y \in Devices : link'[x] # "off" /\ link'[y] # "off" => x = y
             /\ \A x \in Devices \ {d} : link'[x] = "off"
  BY <1>3, <1>4 DEF BusInv
<1>5. ASSUME ~lagged'
      PROVE  /\ ~lagged
             /\ Covers(bus', Gone')
             /\ \A c, x : DiscAfter(bus, c, x) => DiscAfter(bus', c, x)
             /\ kind = "disc" => \A x \in 0..sent : DiscAfter(bus', d, x)
             /\ kind = "conn" => EndsUp(bus', d)
             /\ kind = "other" /\ (EndsUp(bus, d) \/ Quiet(bus)) => EndsUp(bus', d) \/ Quiet(bus')
             /\ Quiet(bus') => Quiet(bus) /\ kind = "other"
  <2>1. ~lagged /\ Pushes(bus, e, bus') /\ Covers(bus, Gone)
    BY <1>1, <1>5 DEF BusInv
  <2>2. /\ \A c, x : DiscAfter(bus, c, x) => DiscAfter(bus', c, x)
        /\ kind = "disc" => \A x \in Nat : x < e.n => DiscAfter(bus', d, x)
        /\ \A G : Covers(bus, G) =>
             /\ (kind = "conn" => d \notin G) => Covers(bus', G)
             /\ kind = "disc" => Covers(bus', G \cup {d})
        /\ kind = "conn" => EndsUp(bus', d)
        /\ kind = "other" /\ (EndsUp(bus, d) \/ Quiet(bus)) => EndsUp(bus', d) \/ Quiet(bus')
        /\ Quiet(bus') => Quiet(bus) /\ kind = "other"
    BY <1>1, <1>2, <2>1, WithNewest
  <2>3. Covers(bus', Gone')
    <3>1. PICK G : Gone' \subseteq G /\ Covers(bus', G)
      BY <1>3, <2>1, <2>2
    <3> QED BY <3>1 DEF Covers
  <2> QED BY <1>2, <2>1, <2>2, <2>3
<1>6. ~lagged' => \A x \in Devices \ orphaned' : Turning(x) \/ x \in orphaned => Turning(x)'
  <2> SUFFICES ASSUME ~lagged', NEW x \in Devices, x \notin orphaned, Turning(x)
               PROVE  Turning(x)'
    OBVIOUS
  <2>1. /\ \A i \in 1..Len(bus) : i \in 1..Len(bus') /\ bus'[i] = bus[i]
        /\ Len(bus') \in 1..Len(bus') /\ bus'[Len(bus')] = e
    BY <1>1, <1>2, PushAny
  <2>2. CASE link[x] \in {"removed", "registered"}
    BY <1>2, <1>3, <2>1, <2>2 DEF Turning
  <2>3. CASE \E i \in 1..Len(bus) : bus[i].kind = "conn" \/ (bus[i].kind = "disc" /\ bus[i].dev = x)
    BY <2>1, <2>3 DEF Turning
  <2> QED BY <2>2, <2>3 DEF Turning
<1>7. Steady' => \A x \in Devices :
        /\ link'[x] = "up" => EndsUp(bus', x) \/ Quiet(bus')
        /\ link'[x] = "up" /\ Quiet(bus') => link[x] = "up" /\ Quiet(bus)
  <2> SUFFICES ASSUME ~lagged', ~together', NEW x \in Devices, link'[x] = "up"
               PROVE  /\ EndsUp(bus', x) \/ Quiet(bus')
                      /\ Quiet(bus') => link[x] = "up" /\ Quiet(bus)
    BY DEF Steady
  <2>1. x = d /\ to = "up"
    BY <1>3, <1>4
  <2>2. kind = "other" => EndsUp(bus, d) \/ Quiet(bus)
    BY <1>5 DEF BusInv, Steady
  <2> QED BY <1>5, <2>1, <2>2
<1>8. Told
  <2>1. ~lagged' => \A x \in Gone' :
       \/ \A m \in 0..sent : DiscAfter(bus', x, m)
       \/ x \in Gone /\ \A m \in Nat : DiscAfter(bus, x, m) => DiscAfter(bus', x, m)
    BY <1>3, <1>5 DEF Gone
  <2>2. Len(bus) \in Nat /\ Len(bus') \in Nat
    BY <1>1, <1>2
  <2> QED BY <1>1, <1>2, <1>6, <1>7, <2>1, <2>2 DEF Told
<1>9. BridgeTypeOK'
  BY <1>1, <1>3 DEF BusInv, BridgeTypeOK
<1> QED BY <1>1, <1>4, <1>5, <1>7, <1>8, <1>9 DEF BusInv

\* Every step of the peers keeps the channel's promises, and is summed up by Told.
LEMMA PeerTells == ASSUME BusInv, PeerNext PROVE BusInv' /\ Told
<1> USE DEF BridgeTypeOK, Links, Move
<1>1. ASSUME NEW d \in Devices, RegisterPeer(d) PROVE BusInv' /\ Told
  <2> USE <1>1 DEF RegisterPeer, Enter, Gone
  <2>1. BridgeTypeOK'
    BY DEF BusInv
  <2>2. ~together' => \A x, y \in Devices : link'[x] # "off" /\ link'[y] # "off" => x = y
    BY DEF BusInv
  <2>3. Gone' \subseteq Gone
    BY DEF BusInv
  <2>4. ~lagged' => Covers(bus', Gone')
    BY <2>3 DEF BusInv, Covers
  <2>5. Steady' => \A x \in Devices : link'[x] = "up" => EndsUp(bus', x) \/ Quiet(bus')
    BY DEF BusInv, Steady
  <2>6. Told
    BY <2>3 DEF Told, Turning, Steady, BusInv
  <2> QED BY <2>1, <2>2, <2>4, <2>5, <2>6 DEF BusInv
<1>2. ASSUME NEW d \in Devices, SendConnected(d) PROVE BusInv' /\ Told
  BY <1>2, PublishTells DEF SendConnected, Announce
<1>3. ASSUME NEW d \in Devices, RemovePeer(d) PROVE BusInv' /\ Told
  <2> USE <1>3 DEF RemovePeer, Withdraw, Gone
  <2>1. BridgeTypeOK'
    BY DEF BusInv
  <2>2. ~together' => \A x, y \in Devices : link'[x] # "off" /\ link'[y] # "off" => x = y
    BY DEF BusInv
  <2>3. Gone' \subseteq Gone
    BY DEF BusInv
  <2>4. ~lagged' => Covers(bus', Gone')
    BY <2>3 DEF BusInv, Covers
  <2>5. Steady' => \A x \in Devices : link'[x] = "up" => EndsUp(bus', x) \/ Quiet(bus')
    BY DEF BusInv, Steady
  <2>6. Told
    BY <2>3 DEF Told, Turning, Steady, BusInv
  <2> QED BY <2>1, <2>2, <2>4, <2>5, <2>6 DEF BusInv
<1>4. ASSUME NEW d \in Devices, SendDisconnected(d) PROVE BusInv' /\ Told
  BY <1>4, PublishTells DEF SendDisconnected, Farewell
<1>5. ASSUME NEW d \in Devices, SendOther(d) PROVE BusInv' /\ Told
  <2>1. link' = [link EXCEPT ![d] = "up"] /\ link[d] = "up"
    BY <1>5 DEF SendOther, BusInv
  <2> QED BY <1>5, <2>1, PublishTells DEF SendOther
<1>6. ASSUME Restart PROVE BusInv' /\ Told
  <2> USE <1>6 DEF Restart, Gone
  <2>1. Gone' = {} /\ bus' = <<>> /\ Len(bus') = 0
    OBVIOUS
  <2>2. BridgeTypeOK'
    BY <2>1 DEF BusInv
  <2>3. Told
    BY <2>1 DEF Told, Turning, Steady, BusInv
  <2> QED BY <2>1, <2>2, <2>3 DEF BusInv, InOrder, Covers, Steady
<1> QED BY <1>1, <1>2, <1>3, <1>4, <1>5, <1>6 DEF PeerNext

\* The bridge takes the oldest event, and the channel stays as truthful.
LEMMA Received ==
  ASSUME BusInv, NEW e \in Events, RecvEvent(e)
  PROVE  /\ BusInv'
         /\ Pops(bus, e, bus') /\ e.n <= sent
         /\ Len(bus') + 1 = Len(bus) /\ Len(bus') \in Nat
         /\ UNCHANGED <<link, sent, restarts, lagged, together, orphaned>> /\ Gone' = Gone
         /\ \A d, m : DiscAfter(bus, d, m) =>
              DiscAfter(bus', d, m) \/ (e.kind = "disc" /\ e.dev = d /\ e.n > m)
         /\ ~lagged /\ e.kind = "conn" /\ e.dev \in Gone => DiscAfter(bus', e.dev, e.n)
         /\ Steady => \A d \in Devices : link[d] = "up" /\ Quiet(bus') =>
              \/ e.kind = "other" /\ Quiet(bus)
              \/ e.kind = "conn" /\ e.dev = d
<1>1. /\ Pops(bus, e, bus')
      /\ UNCHANGED <<link, sent, restarts, lagged, together, orphaned>>
      /\ bus \in Seq(Events) /\ InOrder(bus) /\ Len(bus) <= BusCap
      /\ \A i \in 1..Len(bus) : bus[i].n <= sent
  BY DEF RecvEvent, BusInv, BridgeTypeOK, Pops
<1>2. /\ e = bus[1] /\ 1 \in 1..Len(bus) /\ bus' \in Seq(Events)
      /\ Len(bus') + 1 = Len(bus) /\ Len(bus') \in Nat
      /\ \A i \in 1..Len(bus') : i + 1 \in 1..Len(bus) /\ bus'[i] = bus[i + 1]
  BY <1>1, PopAny
<1>3. Gone' = Gone
  BY <1>1 DEF Gone
<1>4. /\ InOrder(bus')
      /\ \A d, m : DiscAfter(bus, d, m) =>
           DiscAfter(bus', d, m) \/ (e.kind = "disc" /\ e.dev = d /\ e.n > m)
      /\ \A d : EndsUp(bus, d) =>
           EndsUp(bus', d) \/ (Quiet(bus') /\ e.kind = "conn" /\ e.dev = d)
      /\ Quiet(bus) => Quiet(bus') /\ e.kind = "other"
      /\ \A G : Covers(bus, G) =>
           /\ Covers(bus', G)
           /\ e.kind = "conn" /\ e.dev \in G => DiscAfter(bus', e.dev, e.n)
  BY <1>1, WithoutOldest
<1>5. \A d \in Devices : EndsUp(bus', d) => ~Quiet(bus')
  BY DEF EndsUp, Quiet
<1>6. Steady => \A d \in Devices : link[d] = "up" =>
        /\ EndsUp(bus', d) \/ Quiet(bus')
        /\ Quiet(bus') => \/ e.kind = "other" /\ Quiet(bus)
                          \/ e.kind = "conn" /\ e.dev = d
  BY <1>4, <1>5 DEF BusInv
<1>7. BridgeTypeOK'
  BY <1>1, <1>2 DEF BusInv, BridgeTypeOK
<1>8. e.n <= sent /\ \A i \in 1..Len(bus') : bus'[i].n <= sent
  BY <1>1, <1>2
<1>9. ~lagged => Covers(bus, Gone)
  BY DEF BusInv
<1>10. BusInv'
  BY <1>1, <1>3, <1>4, <1>6, <1>7, <1>8, <1>9 DEF BusInv, Steady
<1> QED BY <1>1, <1>2, <1>3, <1>4, <1>6, <1>8, <1>9, <1>10

----------------------------------------------------------------------------
\* The streams of a listener that has subscribed to the kinds in S; b: the
\* events that the bridge has not read, m: the number of events sent.
StreamsInv(S, q, b, m) ==
  /\ S \subseteq Kinds /\ q \in [Kinds -> Seq(Events)]
  /\ \A k \in Kinds :
       /\ k \notin S => q[k] = <<>>
       /\ \A i \in 1..Len(q[k]) : q[k][i].kind = k /\ q[k][i].n <= m
       /\ InOrder(q[k]) /\ Before(q[k], b)

DiscComes(q, b, d, m) == DiscAfter(q["disc"], d, m) \/ DiscAfter(b, d, m)

\* Of each device in G that a stream says is there the end is said later.
StreamsCover(q, b, G) ==
  \A i \in 1..Len(q["conn"]) :
    q["conn"][i].dev \in G => DiscComes(q, b, q["conn"][i].dev, q["conn"][i].n)

\* The last signal not taken is the connection of d; none is left.
LastIsUp(q, d) ==
  LET c == q["conn"] IN
  /\ c # <<>> /\ c[Len(c)].dev = d
  /\ \A i \in 1..Len(q["disc"]) : q["disc"][i].n < c[Len(c)].n
AllTaken(q) == \A k \in Kinds : q[k] = <<>>

\* The streams t after q when a signal e is sent, and when e has been taken;
\* whether no stream has an earlier one than e.
Hears(S, q, e, t) == t = IF e.kind \in S THEN [q EXCEPT ![e.kind] = Append(@, e)] ELSE q
Takes(q, e, t) == /\ e.kind \in Kinds /\ q[e.kind] # <<>> /\ e = Head(q[e.kind])
                  /\ t = [q EXCEPT ![e.kind] = Tail(@)]
Orderly(q, e)  == ~\E o \in Kinds : q[o] # <<>> /\ Head(q[o]).n < e.n

\* What the invariant says of each stream.
LEMMA StreamsType ==
  ASSUME NEW S, NEW q, NEW b, NEW m, StreamsInv(S, q, b, m)
  PROVE  /\ Kinds = {"conn", "disc"} /\ S \subseteq Kinds /\ q \in [Kinds -> Seq(Events)]
         /\ \A k \in Kinds :
              /\ q[k] \in Seq(Events) /\ Len(q[k]) \in Nat /\ InOrder(q[k]) /\ Before(q[k], b)
              /\ k \notin S => q[k] = <<>>
              /\ \A i \in 1..Len(q[k]) :
                   q[k][i].kind = k /\ q[k][i].n <= m /\ q[k][i] \in Events
  BY DEF StreamsInv, Kinds

\* The queue of one kind when the channel's oldest event goes to it, or not.
LEMMA QueueHears ==
  ASSUME NEW p \in Seq(Events), NEW b \in Seq(Events), InOrder(p), InOrder(b), Before(p, b),
         NEW e, NEW c, Pops(b, e, c)
  PROVE  /\ Before(p, c) /\ \A i \in 1..Len(p) : p[i].n < e.n
         /\ \A r : Pushes(p, e, r) => InOrder(r) /\ Before(r, c)
<1>1. /\ e \in Events /\ 1 \in 1..Len(b) /\ e = b[1]
      /\ \A i \in 1..Len(c) : i + 1 \in 1..Len(b) /\ c[i] = b[i + 1]
  BY PopAny
<1>2. Before(p, c) /\ \A i \in 1..Len(p) : p[i].n < e.n
  BY <1>1 DEF Before
<1>3. \A j \in 1..Len(c) : e.n < c[j].n
  BY WithoutOldest
<1>4. ASSUME NEW r, Pushes(p, e, r) PROVE InOrder(r) /\ Before(r, c)
  <2>1. InOrder(r)
    BY <1>1, <1>2, <1>4, WithNewest
  <2>2. \A i \in 1..Len(r) : r[i] = e \/ (i \in 1..Len(p) /\ r[i] = p[i])
    BY <1>1, <1>4, PushAny
  <2>3. Before(r, c)
    BY <1>2, <1>3, <2>2 DEF Before
  <2> QED BY <2>1, <2>3
<1> QED BY <1>2, <1>4

\* The streams after the bridge has read e, with the events c left, and what
\* was promised.
Heard(S, q, b, m, e, t, c) ==
  /\ StreamsInv(S, t, c, m)
  /\ Len(t["conn"]) <= Len(q["conn"]) + 1 /\ Len(t["conn"]) \in Nat
  /\ e.kind = "other" => t = q
  /\ \A d, x : DiscComes(q, b, d, x) /\ (e.kind \in S \/ e.kind # "disc")
       => DiscComes(t, c, d, x)
  /\ \A G : /\ StreamsCover(q, b, G) /\ (e.kind \in S \/ e.kind # "disc")
            /\ e.kind = "conn" /\ e.dev \in G => DiscAfter(c, e.dev, e.n)
            => StreamsCover(t, c, G)
  /\ e.kind = "conn" /\ e.kind \in S => LastIsUp(t, e.dev)

\* Told to a listener, an event keeps its promises.
LEMMA StreamsHear ==
  ASSUME NEW S, NEW q, NEW t, NEW b \in Seq(Events), NEW m \in Nat, NEW e \in Events, NEW c,
         StreamsInv(S, q, b, m), InOrder(b), Pops(b, e, c), e.n <= m, Hears(S, q, e, t)
  PROVE  Heard(S, q, b, m, e, t, c)
<1>1. /\ Kinds = {"conn", "disc"} /\ S \subseteq Kinds /\ q \in [Kinds -> Seq(Events)]
      /\ \A k \in Kinds :
           /\ q[k] \in Seq(Events) /\ Len(q[k]) \in Nat /\ InOrder(q[k]) /\ Before(q[k], b)
           /\ k \notin S => q[k] = <<>>
           /\ \A i \in 1..Len(q[k]) :
                q[k][i].kind = k /\ q[k][i].n <= m /\ q[k][i] \in Events
  BY StreamsType
<1>2. /\ t \in [Kinds -> Seq(Events)]
      /\ \A k \in Kinds : IF k \in S /\ k = e.kind THEN Pushes(q[k], e, t[k]) ELSE t[k] = q[k]
      /\ e.kind = "other" => t = q
  <2>1. CASE e.kind \in S
    <3>1. e.kind \in Kinds /\ e.kind # "other" /\ q[e.kind] \in Seq(Events)
      BY <1>1, <2>1
    <3>2. Append(q[e.kind], e) \in Seq(Events)
      BY <3>1
    <3>3. t = [q EXCEPT ![e.kind] = Append(@, e)]
      BY <2>1 DEF Hears
    <3> QED BY <1>1, <2>1, <3>1, <3>2, <3>3 DEF Pushes
  <2>2. CASE e.kind \notin S
    BY <1>1, <2>2 DEF Hears
  <2> QED BY <2>1, <2>2
<1>3. ASSUME NEW k \in Kinds
      PROVE  /\ InOrder(t[k]) /\ Before(t[k], c)
             /\ k \notin S => t[k] = <<>>
             /\ \A i \in 1..Len(t[k]) :
                  (t[k][i] = e /\ k = e.kind) \/ (i \in 1..Len(q[k]) /\ t[k][i] = q[k][i])
             /\ Len(t[k]) <= Len(q[k]) + 1 /\ Len(t[k]) \in Nat
             /\ \A i \in 1..Len(q[k]) : i \in 1..Len(t[k]) /\ t[k][i] = q[k][i]
             /\ k \in S /\ k = e.kind =>
                  t[k] # <<>> /\ Len(t[k]) \in 1..Len(t[k]) /\ t[k][Len(t[k])] = e
             /\ \A i \in 1..Len(q[k]) : q[k][i].n < e.n
  <2>1. /\ Before(q[k], c) /\ \A i \in 1..Len(q[k]) : q[k][i].n < e.n
        /\ \A r : Pushes(q[k], e, r) => InOrder(r) /\ Before(r, c)
    BY <1>1, QueueHears
  <2>2. CASE k \in S /\ k = e.kind
    <3>1. Pushes(q[k], e, t[k])
      BY <1>2, <2>2
    <3>2. /\ t[k] # <<>> /\ Len(t[k]) \in Nat /\ Len(t[k]) = Len(q[k]) + 1
          /\ Len(t[k]) \in 1..Len(t[k]) /\ t[k][Len(t[k])] = e
          /\ \A i \in 1..Len(q[k]) : i \in 1..Len(t[k]) /\ t[k][i] = q[k][i]
          /\ \A i \in 1..Len(t[k]) : i = Len(t[k]) \/ i \in 1..Len(q[k])
      BY <1>1, <3>1, PushAny
    <3> QED BY <1>1, <2>1, <2>2, <3>1, <3>2
  <2>3. CASE ~(k \in S /\ k = e.kind)
    <3>1. t[k] = q[k]
      BY <1>2, <2>3
    <3> QED BY <1>1, <2>1, <2>3, <3>1
  <2> QED BY <2>2, <2>3
<1>4. StreamsInv(S, t, c, m)
  <2>1. ASSUME NEW k \in Kinds, NEW i \in 1..Len(t[k])
        PROVE  t[k][i].kind = k /\ t[k][i].n <= m
    <3>1. (t[k][i] = e /\ k = e.kind) \/ (i \in 1..Len(q[k]) /\ t[k][i] = q[k][i])
      BY <1>3
    <3> QED BY <1>1, <3>1
  <2> QED BY <1>1, <1>2, <1>3, <2>1 DEF StreamsInv
<1>5. ASSUME NEW d, NEW x, DiscComes(q, b, d, x), e.kind \in S \/ e.kind # "disc"
      PROVE  DiscComes(t, c, d, x)
  <2>1. CASE DiscAfter(q["disc"], d, x)
    BY <1>1, <1>3, <2>1 DEF DiscAfter, DiscComes
  <2>2. CASE DiscAfter(b, d, x)
    <3>1. DiscAfter(c, d, x) \/ (e.kind = "disc" /\ e.dev = d /\ e.n > x)
      BY <2>2, WithoutOldest
    <3>2. CASE e.kind = "disc" /\ e.dev = d /\ e.n > x
      BY <1>1, <1>3, <1>5, <3>2 DEF DiscAfter, DiscComes
    <3> QED BY <3>1, <3>2 DEF DiscComes
  <2> QED BY <1>5, <2>1, <2>2 DEF DiscComes
<1>6. ASSUME NEW G, StreamsCover(q, b, G), e.kind \in S \/ e.kind # "disc",
             e.kind = "conn" /\ e.dev \in G => DiscAfter(c, e.dev, e.n)
      PROVE  StreamsCover(t, c, G)
  <2> SUFFICES ASSUME NEW i \in 1..Len(t["conn"]), t["conn"][i].dev \in G
               PROVE  DiscComes(t, c, t["conn"][i].dev, t["conn"][i].n)
    BY DEF StreamsCover
  <2>1. CASE t["conn"][i] = e /\ e.kind = "conn"
    BY <1>6, <2>1 DEF DiscComes
  <2>2. CASE i \in 1..Len(q["conn"]) /\ t["conn"][i] = q["conn"][i]
    BY <1>5, <1>6, <2>2 DEF StreamsCover
  <2> QED BY <1>1, <1>3, <2>1, <2>2
<1>7. ASSUME e.kind = "conn", e.kind \in S PROVE LastIsUp(t, e.dev)
  <2>1. t["conn"] # <<>> /\ t["conn"][Len(t["conn"])] = e
    BY <1>1, <1>3, <1>7
  <2>2. \A i \in 1..Len(t["disc"]) : t["disc"][i].n < e.n
    BY <1>1, <1>3, <1>7
  <2> QED BY <2>1, <2>2 DEF LastIsUp
<1> QED BY <1>1, <1>2, <1>3, <1>4, <1>5, <1>6, <1>7 DEF Heard

\* The streams after select! has taken e, and, if no stream had an earlier one,
\* what was promised.
Kept(S, q, b, m, e, t) ==
  /\ e \in Events /\ e.kind \in S /\ StreamsInv(S, t, b, m) /\ ~AllTaken(q)
  /\ Len(t["conn"]) \in Nat
  /\ Len(q["conn"]) = IF e.kind = "conn" THEN Len(t["conn"]) + 1 ELSE Len(t["conn"])
  /\ \A d, x : DiscComes(q, b, d, x) =>
       DiscComes(t, b, d, x) \/ (e.kind = "disc" /\ e.dev = d)
  /\ \A G : StreamsCover(q, b, G) =>
       /\ Orderly(q, e) => StreamsCover(t, b, G)
       /\ e.kind = "conn" /\ e.dev \in G => DiscComes(t, b, e.dev, 0)
  /\ \A d : Orderly(q, e) /\ LastIsUp(q, d) =>
       LastIsUp(t, d) \/ (AllTaken(t) /\ e.kind = "conn" /\ e.dev = d)

\* Taken from the stream of kind k, so does a signal.
LEMMA TakeOne ==
  ASSUME NEW S, NEW q, NEW t, NEW b \in Seq(Events), NEW m \in Nat, NEW e, NEW k \in Kinds,
         StreamsInv(S, q, b, m), q[k] # <<>>, e = Head(q[k]), t = [q EXCEPT ![k] = Tail(@)]
  PROVE  Kept(S, q, b, m, e, t)
<1>1. /\ Kinds = {"conn", "disc"} /\ S \subseteq Kinds /\ q \in [Kinds -> Seq(Events)]
      /\ \A o \in Kinds :
           /\ q[o] \in Seq(Events) /\ Len(q[o]) \in Nat /\ InOrder(q[o]) /\ Before(q[o], b)
           /\ o \notin S => q[o] = <<>>
           /\ \A i \in 1..Len(q[o]) :
                q[o][i].kind = o /\ q[o][i].n <= m /\ q[o][i] \in Events
  BY StreamsType
<1>2. Pops(q[k], e, t[k]) /\ t \in [Kinds -> Seq(Events)] /\ \A o \in Kinds \ {k} : t[o] = q[o]
  <2>1. q[k] \in Seq(Events) /\ q[k] # <<>>
    BY <1>1
  <2>2. Tail(q[k]) \in Seq(Events)
    BY <2>1
  <2> QED BY <1>1, <2>1, <2>2 DEF Pops
<1>3. /\ q[k] # <<>> /\ e \in Events /\ t[k] \in Seq(Events)
      /\ Len(q[k]) \in Nat /\ Len(t[k]) \in Nat /\ Len(q[k]) = Len(t[k]) + 1
      /\ 1 \in 1..Len(q[k]) /\ e = q[k][1] /\ e.n \in Nat
      /\ \A i \in 1..Len(t[k]) : i + 1 \in 1..Len(q[k]) /\ t[k][i] = q[k][i + 1]
  <2>1. q[k] \in Seq(Events)
    BY <1>1
  <2>2. /\ q[k] # <<>> /\ e \in Events /\ t[k] \in Seq(Events)
        /\ Len(q[k]) \in Nat /\ Len(t[k]) \in Nat /\ Len(q[k]) = Len(t[k]) + 1
        /\ 1 \in 1..Len(q[k]) /\ e = q[k][1]
        /\ \A i \in 1..Len(t[k]) : i + 1 \in 1..Len(q[k]) /\ t[k][i] = q[k][i + 1]
    BY <1>2, <2>1, PopAny
  <2> QED BY <2>2, EventType
<1>4. /\ InOrder(t[k]) /\ \A d, x : DiscAfter(q[k], d, x) =>
           DiscAfter(t[k], d, x) \/ (e.kind = "disc" /\ e.dev = d /\ e.n > x)
  BY <1>1, <1>2, WithoutOldest
<1>5. e.kind = k /\ k \in S /\ ~AllTaken(q)
  BY <1>1, <1>3 DEF AllTaken
<1>6. StreamsInv(S, t, b, m)
  <2>1. /\ \A i \in 1..Len(q[k]) : q[k][i].kind = k /\ q[k][i].n <= m
        /\ \A i \in 1..Len(q[k]), j \in 1..Len(b) : q[k][i].n < b[j].n
    BY <1>1 DEF Before
  <2>2. \A i \in 1..Len(t[k]) : i + 1 \in 1..Len(q[k]) /\ t[k][i] = q[k][i + 1]
    BY <1>3
  <2>3. /\ \A i \in 1..Len(t[k]) : t[k][i].kind = k /\ t[k][i].n <= m
        /\ \A i \in 1..Len(t[k]), j \in 1..Len(b) : t[k][i].n < b[j].n
    BY <2>1, <2>2
  <2>4. Before(t[k], b)
    BY <2>3 DEF Before
  <2> QED BY <1>1, <1>2, <1>4, <1>5, <2>3, <2>4 DEF StreamsInv
<1>7. /\ Len(t["conn"]) \in Nat
      /\ Len(q["conn"]) = IF k = "conn" THEN Len(t["conn"]) + 1 ELSE Len(t["conn"])
  BY <1>1, <1>2, <1>3
<1>8. ASSUME NEW d, NEW x, DiscComes(q, b, d, x)
      PROVE  DiscComes(t, b, d, x) \/ (k = "disc" /\ e.dev = d /\ e.n > x)
  BY <1>1, <1>2, <1>4, <1>5, <1>8 DEF DiscComes
<1>9. ASSUME NEW G, StreamsCover(q, b, G), k = "conn", e.dev \in G
      PROVE  DiscComes(t, b, e.dev, 0)
  <2>1. DiscComes(t, b, e.dev, e.n)
    BY <1>3, <1>8, <1>9 DEF StreamsCover
  <2>2. \A p \in Seq(Events) : DiscAfter(p, e.dev, e.n) => DiscAfter(p, e.dev, 0)
    BY <1>3, EventType DEF DiscAfter
  <2> QED BY <1>1, <1>2, <2>1, <2>2 DEF DiscComes
<1>10. ASSUME NEW G, StreamsCover(q, b, G), Orderly(q, e), NEW i \in 1..Len(q["conn"]),
              q["conn"][i].dev \in G
       PROVE  DiscComes(t, b, q["conn"][i].dev, q["conn"][i].n)
  <2> DEFINE c == q["conn"]
  <2>1. DiscComes(q, b, c[i].dev, c[i].n)
    BY <1>10 DEF StreamsCover
  <2>2. c # <<>> /\ Head(c) = c[1] /\ c[1].n \in Nat /\ c[i].n \in Nat
    <3>1. c \in Seq(Events) /\ c # <<>> /\ 1 \in 1..Len(c) /\ \A j \in 1..Len(c) : c[j] \in Events
      BY <1>1, <1>10
    <3> QED BY <3>1, <1>10, EventType
  <2>3. c[1].n <= c[i].n
    BY <1>1, <1>10, <2>2 DEF InOrder
  <2>4. ~(e.n > c[i].n)
    BY <1>1, <1>3, <1>10, <2>2, <2>3 DEF Orderly
  <2> QED BY <1>8, <2>1, <2>4
<1>11. ASSUME NEW G, StreamsCover(q, b, G), Orderly(q, e) PROVE StreamsCover(t, b, G)
  <2> SUFFICES ASSUME NEW i \in 1..Len(t["conn"]), t["conn"][i].dev \in G
               PROVE  DiscComes(t, b, t["conn"][i].dev, t["conn"][i].n)
    BY DEF StreamsCover
  <2>1. PICK j \in 1..Len(q["conn"]) : t["conn"][i] = q["conn"][j]
    <3>1. CASE k = "conn"
      <4>1. \A x \in 1..Len(t[k]) : x + 1 \in 1..Len(q[k]) /\ t[k][x] = q[k][x + 1]
        BY <1>3
      <4> QED BY <3>1, <4>1
    <3>2. CASE k # "conn"
      BY <1>1, <1>2, <3>2
    <3> QED BY <3>1, <3>2
  <2> QED BY <1>10, <1>11, <2>1
<1>12. ASSUME NEW d, Orderly(q, e), LastIsUp(q, d)
       PROVE  LastIsUp(t, d) \/ (AllTaken(t) /\ k = "conn" /\ e.dev = d)
  <2>1. CASE k = "disc"
    <3>1. t["conn"] = q["conn"]
      BY <1>1, <1>2, <2>1
    <3>2. \A i \in 1..Len(t[k]) : \E j \in 1..Len(q[k]) : t[k][i] = q[k][j]
      BY <1>3
    <3> QED BY <1>12, <2>1, <3>1, <3>2 DEF LastIsUp
  <2>2. CASE k = "conn" /\ t["conn"] = <<>>
    <3>1. q["conn"][Len(q["conn"])] = e
      <4>1. t[k] = <<>> /\ k = "conn"
        BY <2>2
      <4>2. Len(q[k]) = 1
        <5>1. Len(t[k]) = 0
          BY <4>1
        <5>2. Len(q[k]) = Len(t[k]) + 1
          BY <1>3
        <5> QED BY <5>1, <5>2
      <4>3. q[k][Len(q[k])] = e
        BY <1>3, <4>2
      <4> QED BY <4>1, <4>3
    <3>2. e.dev = d /\ \A i \in 1..Len(q["disc"]) : q["disc"][i].n < e.n
      BY <1>12, <3>1 DEF LastIsUp
    <3>3. q["disc"] = <<>>
      <4> SUFFICES ASSUME q["disc"] # <<>> PROVE FALSE
        OBVIOUS
      <4>1. Head(q["disc"]) = q["disc"][1] /\ 1 \in 1..Len(q["disc"])
        BY <1>1
      <4> QED BY <1>1, <1>12, <3>2, <4>1 DEF Orderly
    <3> QED BY <1>1, <1>2, <2>2, <3>2, <3>3 DEF AllTaken
  <2>3. CASE k = "conn" /\ t["conn"] # <<>>
    <3>1. Len(t["conn"]) \in 1..Len(t["conn"])
      BY <1>3, <2>3
    <3>2. t["conn"][Len(t["conn"])] = q["conn"][Len(q["conn"])]
      BY <1>3, <2>3, <3>1
    <3>3. t["disc"] = q["disc"]
      BY <1>1, <1>2, <2>3
    <3> QED BY <1>12, <2>3, <3>2, <3>3 DEF LastIsUp
  <2> QED BY <1>1, <2>1, <2>2, <2>3
<1> QED BY <1>3, <1>5, <1>6, <1>7, <1>8, <1>9, <1>11, <1>12 DEF Kept

\* The same, for the stream of the signal's own kind.
LEMMA StreamsTake ==
  ASSUME NEW S, NEW q, NEW t, NEW b \in Seq(Events), NEW m \in Nat, NEW e,
         StreamsInv(S, q, b, m), Takes(q, e, t)
  PROVE  Kept(S, q, b, m, e, t)
<1> DEFINE k == e.kind
<1>1. k \in Kinds /\ q[k] # <<>> /\ e = Head(q[k]) /\ t = [q EXCEPT ![k] = Tail(@)]
  BY DEF Takes
<1> HIDE DEF k
<1> QED BY <1>1, TakeOne
\* The streams when a peer comes or goes: they are as right as the channel is.
LEMMA StreamsTold ==
  ASSUME NEW S, NEW q, BusInv, BusInv', Told, StreamsInv(S, q, bus, sent)
  PROVE  /\ StreamsInv(S, q, bus', sent')
         /\ ~lagged' =>
              /\ StreamsCover(q, bus, Gone) => StreamsCover(q, bus', Gone')
              /\ \A d \in Gone' : (d \in Gone => DiscComes(q, bus, d, 0)) => DiscComes(q, bus', d, 0)
<1>1. /\ S \subseteq Kinds /\ q \in [Kinds -> Seq(Events)]
      /\ \A k \in Kinds :
           /\ q[k] \in Seq(Events) /\ InOrder(q[k]) /\ Before(q[k], bus)
           /\ k \notin S => q[k] = <<>>
           /\ \A i \in 1..Len(q[k]) : q[k][i] \in Events /\ q[k][i].kind = k /\ q[k][i].n <= sent
      /\ "conn" \in Kinds
  BY DEF StreamsInv, Kinds
<1>2. /\ bus' \in Seq(Events) /\ sent \in Nat /\ sent' \in Nat /\ sent <= sent'
      /\ \A i \in 1..Len(bus') : bus'[i].n > sent \/ \E j \in 1..Len(bus) : bus'[i] = bus[j]
  BY DEF BusInv, BridgeTypeOK, Told
<1>3. ASSUME NEW k \in Kinds
      PROVE  Before(q[k], bus') /\ \A i \in 1..Len(q[k]) : q[k][i].n <= sent'
  <2> SUFFICES ASSUME NEW i \in 1..Len(q[k])
               PROVE  /\ q[k][i].n <= sent'
                      /\ \A j \in 1..Len(bus') : q[k][i].n < bus'[j].n
    BY DEF Before
  <2>1. q[k][i].n \in Nat /\ q[k][i].n <= sent /\ \A j \in 1..Len(bus) : q[k][i].n < bus[j].n
    BY <1>1, EventType DEF Before
  <2>2. \A j \in 1..Len(bus') : bus'[j].n \in Nat
    BY <1>2, EventType
  <2> QED BY <1>2, <2>1, <2>2
<1>4. StreamsInv(S, q, bus', sent')
  BY <1>1, <1>3 DEF StreamsInv
<1>5. ASSUME ~lagged', NEW d \in Gone', NEW x \in 0..sent,
             d \in Gone => DiscComes(q, bus, d, x)
      PROVE  DiscComes(q, bus', d, x)
  <2>1. \/ DiscAfter(bus', d, x)
        \/ d \in Gone /\ (DiscAfter(bus, d, x) => DiscAfter(bus', d, x))
    <3>1. \/ \A y \in 0..sent : DiscAfter(bus', d, y)
          \/ d \in Gone /\ \A y \in Nat : DiscAfter(bus, d, y) => DiscAfter(bus', d, y)
      BY <1>5 DEF Told
    <3> QED BY <1>2, <3>1
  <2> QED BY <1>5, <2>1 DEF DiscComes
<1>6. ASSUME ~lagged', StreamsCover(q, bus, Gone) PROVE StreamsCover(q, bus', Gone')
  <2> SUFFICES ASSUME NEW i \in 1..Len(q["conn"]), q["conn"][i].dev \in Gone'
               PROVE  DiscComes(q, bus', q["conn"][i].dev, q["conn"][i].n)
    BY DEF StreamsCover
  <2>1. q["conn"][i].n \in 0..sent
    BY <1>1, <1>2, EventType
  <2> QED BY <1>5, <1>6, <2>1 DEF StreamsCover
<1>7. 0 \in 0..sent
  BY <1>2
<1> QED BY <1>4, <1>5, <1>6, <1>7

----------------------------------------------------------------------------
\* What the window will show of a connected device when all signals are taken.
WindowShows(d) ==
  \/ answer \in {Unasked, d}
  \/ answer \in {NoDevice, Applied} /\ status = "Connected" /\ shown = d

\* What the window shows, or is about to show, is true or will be corrected.
WindowTold ==
  /\ StreamsCover(winStreams, bus, Gone)
  /\ status = "Connected" /\ shown \in Gone => DiscComes(winStreams, bus, shown, 0)
  /\ answer \in Gone => DiscComes(winStreams, bus, answer, 0)
  /\ ~together => \A d \in Devices : link[d] = "up" /\ Quiet(bus) =>
       LastIsUp(winStreams, d) \/ (AllTaken(winStreams) /\ WindowShows(d))

\* Every pending callback stands for an event or for the answer.
TimersCounted ==
  timers + Len(winStreams["conn"]) + Len(bus) <= sent + (IF answer = Applied THEN 1 ELSE 0)

\* The window has begun when something could have reached it.
WindowBegun == answer # Unasked \/ winSubs # {}

\* The window's part of the inductive invariant.
WindowInv ==
  /\ WindowTypeOK
  /\ StreamsInv(winSubs, winStreams, bus, sent)
  /\ "window" \notin running => ~WindowBegun
  /\ status # "none" => WindowBegun
  /\ status = "Connected" => shown \in Devices
  /\ page = "connected" => status = "Connected"
  /\ TimersCounted
  /\ WindowWell => WindowTold

\* A window that has not begun has nothing to show and nothing to take.
LEMMA NotBegun ==
  ASSUME WindowInv, ~WindowBegun
  PROVE  /\ winSubs = {} /\ answer = Unasked /\ status = "none" /\ AllTaken(winStreams)
         /\ Len(winStreams["conn"]) = 0
         /\ \A b, m : StreamsInv(winSubs, winStreams, b, m) /\ StreamsCover(winStreams, b, Gone)
<1>1. winSubs = {} /\ answer = Unasked /\ status = "none"
  BY DEF WindowInv, WindowBegun
<1>2. /\ winStreams \in [Kinds -> Seq(Events)] /\ \A k \in Kinds : winStreams[k] = <<>>
      /\ "conn" \in Kinds
  BY <1>1 DEF WindowInv, StreamsInv, Kinds
<1>3. \A k \in Kinds : Len(winStreams[k]) = 0
  BY <1>2
<1> QED BY <1>1, <1>2, <1>3 DEF AllTaken, StreamsInv, StreamsCover, InOrder, Before

\* A peer comes or goes: the window, which has not moved, is right or told.
LEMMA WindowPeerStep ==
  ASSUME BusInv, BusInv', Told, WindowInv, UNCHANGED <<windowVars, running>>
  PROVE  WindowInv'
<1> USE DEF windowVars, listenVars, viewVars
<1>1. StreamsInv(winSubs, winStreams, bus, sent)
  BY DEF WindowInv
<1>2. /\ StreamsInv(winSubs', winStreams', bus', sent')
      /\ ~lagged' =>
           /\ StreamsCover(winStreams, bus, Gone) => StreamsCover(winStreams', bus', Gone')
           /\ \A d \in Gone' : (d \in Gone => DiscComes(winStreams, bus, d, 0)) => DiscComes(winStreams', bus', d, 0)
  BY <1>1, StreamsTold
<1>3. WindowTypeOK'
  BY DEF WindowInv, WindowTypeOK, Listener!StreamsTypeOK
<1>4. TimersCounted'
  <2>1. /\ Len(bus') + sent <= Len(bus) + sent' /\ Len(bus) \in Nat /\ Len(bus') \in Nat
        /\ sent \in Nat /\ sent' \in Nat
    BY DEF Told, BusInv, BridgeTypeOK
  <2>2. timers \in Nat /\ winStreams["conn"] \in Seq(Events)
    BY DEF WindowInv, WindowTypeOK, StreamsInv, Kinds
  <2>3. Len(winStreams["conn"]) \in Nat
    BY <2>2
  <2> QED BY <2>1, <2>2, <2>3 DEF WindowInv, TimersCounted
<1>5. ASSUME WindowWell' PROVE WindowTold'
  <2>1. WindowWell /\ ~lagged' /\ WindowTold
    BY <1>5 DEF WindowWell, Told, WindowInv
  <2>2. ~together' => ~together /\ \A d \in Devices :
          link'[d] = "up" /\ Quiet(bus') => link[d] = "up" /\ Quiet(bus)
    BY <2>1 DEF Told, Steady
  <2> QED BY <1>2, <2>1, <2>2 DEF WindowTold, WindowShows
<1> QED BY <1>2, <1>3, <1>4, <1>5 DEF WindowInv, WindowBegun

\* The bridge sends a signal: the window hears it, or there is no window.
LEMMA WindowSignalStep ==
  ASSUME BusInv, WindowInv, NEW e \in Events, RecvEvent(e), running' = running,
         IF "window" \in running THEN WindowHears(e) ELSE UNCHANGED windowVars
  PROVE  WindowInv'
<1> USE DEF listenVars, viewVars
<1>1. /\ BusInv' /\ Pops(bus, e, bus') /\ e.n <= sent
      /\ Len(bus') + 1 = Len(bus) /\ Len(bus') \in Nat
      /\ UNCHANGED <<link, sent, lagged, together, orphaned>> /\ Gone' = Gone
      /\ ~lagged /\ e.kind = "conn" /\ e.dev \in Gone => DiscAfter(bus', e.dev, e.n)
      /\ Steady => \A d \in Devices : link[d] = "up" /\ Quiet(bus') =>
           (e.kind = "other" /\ Quiet(bus)) \/ (e.kind = "conn" /\ e.dev = d)
  BY Received
<1>2. /\ bus \in Seq(Events) /\ InOrder(bus) /\ sent \in Nat
      /\ StreamsInv(winSubs, winStreams, bus, sent)
  BY DEF BusInv, BridgeTypeOK, WindowInv
<1>3. CASE ~WindowBegun
  <2>1. /\ winSubs = {} /\ answer = Unasked /\ status = "none" /\ AllTaken(winStreams)
        /\ Len(winStreams["conn"]) = 0
        /\ StreamsInv(winSubs, winStreams, bus', sent) /\ StreamsCover(winStreams, bus', Gone)
    BY <1>3, NotBegun
  <2>2. UNCHANGED windowVars
    BY <2>1 DEF WindowHears, Listener!Hear, windowVars, WindowInv, WindowTypeOK, Listener!StreamsTypeOK
  <2>3. WindowTypeOK'
    BY <2>2 DEF windowVars, WindowInv, WindowTypeOK, Listener!StreamsTypeOK
  <2>4. TimersCounted'
    BY <1>1, <1>2, <2>1, <2>2 DEF windowVars, WindowInv, TimersCounted, WindowTypeOK
  <2>5. WindowTold'
    BY <1>1, <2>1, <2>2, WindowAssumption DEF windowVars, WindowTold, WindowShows, Gone
  <2> QED BY <1>1, <2>1, <2>2, <2>3, <2>4, <2>5 DEF windowVars, WindowInv, WindowBegun
<1>4. CASE WindowBegun
  <2>1. /\ WindowHears(e) /\ UNCHANGED <<winSubs, winSwapped, answer, late, viewVars>>
        /\ Hears(winSubs, winStreams, e, winStreams')
        /\ winBlind' = (winBlind \/ e.kind \in Kinds \ winSubs)
    BY <1>4 DEF WindowInv, WindowHears, Listener!Hear, WindowBegun, Hears
  <2>2. /\ StreamsInv(winSubs, winStreams', bus', sent)
        /\ Len(winStreams'["conn"]) <= Len(winStreams["conn"]) + 1 /\ Len(winStreams'["conn"]) \in Nat
        /\ e.kind = "other" => winStreams' = winStreams
        /\ \A d, x : DiscComes(winStreams, bus, d, x) /\ (e.kind \in winSubs \/ e.kind # "disc")
             => DiscComes(winStreams', bus', d, x)
        /\ \A G : /\ StreamsCover(winStreams, bus, G) /\ (e.kind \in winSubs \/ e.kind # "disc")
                  /\ e.kind = "conn" /\ e.dev \in G => DiscAfter(bus', e.dev, e.n)
                  => StreamsCover(winStreams', bus', G)
        /\ e.kind = "conn" /\ e.kind \in winSubs => LastIsUp(winStreams', e.dev)
    <3>1. Heard(winSubs, winStreams, bus, sent, e, winStreams', bus')
      BY <1>1, <1>2, <2>1, StreamsHear
    <3> QED BY <3>1 DEF Heard
  <2>3. WindowTypeOK'
    BY <2>1, <2>2 DEF WindowInv, WindowTypeOK, Listener!StreamsTypeOK, StreamsInv
  <2>4. TimersCounted'
    <3>1. Len(winStreams["conn"]) \in Nat /\ timers \in Nat
      BY <1>2 DEF StreamsInv, Kinds, WindowInv, WindowTypeOK
    <3> QED BY <1>1, <1>2, <2>1, <2>2, <3>1 DEF WindowInv, TimersCounted
  <2>5. ASSUME WindowWell' PROVE WindowTold'
    <3>1. WindowWell /\ WindowTold /\ ~lagged
      BY <1>1, <2>1, <2>5 DEF WindowWell, WindowInv
    <3>2. e.kind \in winSubs \/ e.kind = "other"
      BY <2>1, <2>5, EventType DEF WindowWell
    <3>4. StreamsCover(winStreams', bus', Gone)
      BY <1>1, <2>2, <3>1, <3>2 DEF WindowTold
    <3>5. \A d \in Gone : DiscComes(winStreams, bus, d, 0) => DiscComes(winStreams', bus', d, 0)
      BY <2>2, <3>2 DEF Gone
    <3>6. ASSUME ~together', NEW d \in Devices, link'[d] = "up", Quiet(bus')
          PROVE  LastIsUp(winStreams', d) \/ (AllTaken(winStreams') /\ WindowShows(d)')
      <4>1. (e.kind = "other" /\ Quiet(bus)) \/ (e.kind = "conn" /\ e.dev = d)
        BY <1>1, <3>1, <3>6 DEF Steady
      <4>2. CASE e.kind = "other" /\ Quiet(bus)
        BY <1>1, <2>1, <2>2, <3>1, <3>6, <4>2 DEF WindowTold, WindowShows
      <4>3. CASE e.kind = "conn" /\ e.dev = d
        BY <2>2, <3>2, <4>3
      <4> QED BY <4>1, <4>2, <4>3
    <3> QED BY <1>1, <2>1, <3>1, <3>4, <3>5, <3>6 DEF WindowTold
  <2> QED BY <1>1, <2>1, <2>2, <2>3, <2>4, <2>5 DEF WindowInv, WindowBegun
<1> QED BY <1>3, <1>4

\* The daemon answers the window's query: the answer is of this moment.
LEMMA WindowAsks ==
  ASSUME BusInv, WindowInv, AskDaemon, UNCHANGED <<bridgeVars, running>>, "window" \in running
  PROVE  WindowInv'
<1> USE DEF listenVars, viewVars, bridgeVars
<1>1. /\ answer = Unasked /\ SomeConnected(answer') /\ UNCHANGED <<listenVars, late, viewVars>>
  BY DEF AskDaemon
<1>2. /\ answer' \in Devices \cup {NoDevice} /\ answer' \notin Gone
      /\ ~together => \A d \in Devices : link[d] = "up" => answer' = d
  <2>1. Gone \cap Registry = {} /\ Registry \subseteq Devices
    BY DEF Gone, Registry
  <2>2. answer' \in Devices \cup {NoDevice} /\ answer' \notin Gone
    BY <1>1, <2>1 DEF SomeConnected, Gone
  <2>3. ASSUME ~together, NEW d \in Devices, link[d] = "up" PROVE answer' = d
    <3>1. Registry = {d}
      BY <2>3 DEF Registry, BusInv
    <3> QED BY <1>1, <3>1 DEF SomeConnected
  <2> QED BY <2>2, <2>3
<1>3. answer' # Unasked /\ answer' # Applied
  BY <1>2
<1>4. WindowTypeOK'
  BY <1>1, <1>2 DEF WindowInv, WindowTypeOK, Listener!StreamsTypeOK
<1>5. ASSUME WindowWell' PROVE WindowTold'
  <2>1. WindowTold
    BY <1>1, <1>5 DEF WindowWell, WindowInv
  <2> QED BY <1>1, <1>2, <2>1 DEF WindowTold, WindowShows, Gone
<1>6. TimersCounted'
  BY <1>1, <1>3 DEF WindowInv, TimersCounted
<1> QED BY <1>1, <1>3, <1>4, <1>5, <1>6 DEF WindowInv, WindowBegun

\* The answer reaches the main loop, which shows it if nothing has denied it.
LEMMA WindowApplies ==
  ASSUME BusInv, WindowInv, ApplyAnswer, UNCHANGED <<bridgeVars, running>>, "window" \in running
  PROVE  WindowInv'
<1> USE DEF listenVars, viewVars, bridgeVars
<1>1. /\ answer \in Devices \cup {NoDevice} /\ answer' = Applied
      /\ UNCHANGED <<listenVars, late>>
      /\ IF answer = NoDevice THEN UNCHANGED viewVars ELSE ShowConnected(answer)
  BY DEF ApplyAnswer, WindowInv, WindowTypeOK
<1>2. /\ timers \in Nat /\ sent \in 0..MaxEvents /\ Len(bus) \in Nat
      /\ Len(winStreams["conn"]) \in Nat
  BY DEF WindowInv, WindowTypeOK, BusInv, BridgeTypeOK, StreamsInv, Kinds
<1>3. timers' = timers \/ timers' = timers + 1
  BY <1>1 DEF ShowConnected
<1>4. timers' \in 0..MaxEvents + 1 /\ TimersCounted'
  <2>1. timers + Len(winStreams["conn"]) + Len(bus) <= sent
    <3>1. answer # Applied
      BY <1>1
    <3>2. TimersCounted /\ sent + 0 = sent
      BY <1>2 DEF WindowInv
    <3> QED BY <3>1, <3>2 DEF TimersCounted
  <2>2. timers' + Len(winStreams["conn"]) + Len(bus) <= sent + 1
    BY <1>2, <1>3, <2>1
  <2> QED BY <1>1, <1>2, <1>3, <2>2 DEF TimersCounted
<1>5. WindowTypeOK' /\ (status' = "Connected" => shown' \in Devices)
      /\ (page' = "connected" => status' = "Connected")
  BY <1>1, <1>4
     DEF WindowInv, WindowTypeOK, Listener!StreamsTypeOK, ShowConnected
<1>6. ASSUME WindowWell' PROVE WindowTold'
  <2>1. WindowTold /\ Applied \notin Gone
    BY <1>1, <1>6 DEF WindowWell, WindowInv, Gone
  <2> QED BY <1>1, <2>1 DEF WindowTold, WindowShows, ShowConnected, Gone
<1>7. WindowBegun' /\ StreamsInv(winSubs', winStreams', bus', sent')
  BY <1>1 DEF WindowBegun, WindowInv
<1> QED BY <1>4, <1>5, <1>6, <1>7 DEF WindowInv

\* The main loop shows what a signal says.
LEMMA WindowHandles ==
  ASSUME BusInv, WindowInv, NEW e \in Events, HandleSignal(e),
         UNCHANGED <<bridgeVars, running>>, "window" \in running
  PROVE  WindowInv'
<1> USE DEF listenVars, viewVars, bridgeVars
<1>1. /\ e.kind \in Kinds /\ Takes(winStreams, e, winStreams')
      /\ UNCHANGED <<winSubs, winBlind, answer>>
      /\ winSwapped' = (winSwapped \/ ~Orderly(winStreams, e))
      /\ IF e.kind = "conn" THEN ShowConnected(e.dev) ELSE ShowDisconnected
      /\ late' = (late \/ (answer \in Devices /\ (e.kind = "conn" => e.dev # answer)))
  BY DEF HandleSignal, Listener!Take, Takes, Orderly
<1>2. /\ bus \in Seq(Events) /\ sent \in 0..MaxEvents /\ sent \in Nat /\ Len(bus) \in Nat
      /\ timers \in Nat /\ StreamsInv(winSubs, winStreams, bus, sent)
  BY DEF BusInv, BridgeTypeOK, WindowInv, WindowTypeOK
<1>3. /\ e.kind \in winSubs /\ StreamsInv(winSubs, winStreams', bus, sent) /\ ~AllTaken(winStreams)
      /\ Len(winStreams'["conn"]) \in Nat
      /\ Len(winStreams["conn"])
           = IF e.kind = "conn" THEN Len(winStreams'["conn"]) + 1 ELSE Len(winStreams'["conn"])
      /\ \A d, x : DiscComes(winStreams, bus, d, x) =>
           DiscComes(winStreams', bus, d, x) \/ (e.kind = "disc" /\ e.dev = d)
      /\ \A G : StreamsCover(winStreams, bus, G) =>
           /\ Orderly(winStreams, e) => StreamsCover(winStreams', bus, G)
           /\ e.kind = "conn" /\ e.dev \in G => DiscComes(winStreams', bus, e.dev, 0)
      /\ \A d : Orderly(winStreams, e) /\ LastIsUp(winStreams, d) =>
           LastIsUp(winStreams', d) \/ (AllTaken(winStreams') /\ e.kind = "conn" /\ e.dev = d)
  <2>1. Kept(winSubs, winStreams, bus, sent, e, winStreams')
    BY <1>1, <1>2, StreamsTake
  <2> QED BY <2>1 DEF Kept
<1>4. e.dev \in Devices /\ (e.kind # "conn" => e.kind = "disc")
  BY <1>1, EventType DEF Kinds
<1>5. timers' = timers + (IF e.kind = "conn" THEN 1 ELSE 0)
  BY <1>1, <1>2 DEF ShowConnected, ShowDisconnected
<1>6. timers' \in 0..MaxEvents + 1 /\ TimersCounted'
  <2> DEFINE w == Len(winStreams["conn"])
             v == Len(winStreams'["conn"])
  <2>0. /\ v \in Nat /\ w = IF e.kind = "conn" THEN v + 1 ELSE v
        /\ timers + w + Len(bus) <= sent + (IF answer = Applied THEN 1 ELSE 0)
    <3>1. v \in Nat /\ w = IF e.kind = "conn" THEN v + 1 ELSE v
      BY <1>3
    <3>2. timers + w + Len(bus) <= sent + (IF answer = Applied THEN 1 ELSE 0)
      BY DEF WindowInv, TimersCounted
    <3> QED BY <3>1, <3>2
  <2> HIDE DEF w, v
  <2>1. timers' + v = timers + w /\ w \in Nat /\ timers' \in Nat
    BY <1>2, <1>5, <2>0
  <2>2. timers' + v + Len(bus) <= sent + (IF answer = Applied THEN 1 ELSE 0)
    BY <1>2, <2>0, <2>1
  <2>3. timers' <= sent + 1
    BY <1>2, <2>0, <2>1, <2>2
  <2>4. TimersCounted'
    BY <1>1, <2>2 DEF TimersCounted, v
  <2> QED BY <1>2, <2>1, <2>3, <2>4
<1>7. /\ status' = (IF e.kind = "conn" THEN "Connected" ELSE "Disconnected")
      /\ shown' = (IF e.kind = "conn" THEN e.dev ELSE shown)
      /\ page' = (IF e.kind = "conn" THEN "connected" ELSE "waiting")
  BY <1>1 DEF ShowConnected, ShowDisconnected
<1>8. WindowTypeOK'
  <2>1. late' \in BOOLEAN /\ winSwapped' \in BOOLEAN
    BY <1>1 DEF WindowInv, WindowTypeOK, Listener!StreamsTypeOK
  <2> QED BY <1>1, <1>3, <1>4, <1>6, <1>7, <2>1
          DEF WindowInv, WindowTypeOK, Listener!StreamsTypeOK, StreamsInv
<1>9. ASSUME WindowWell' PROVE WindowTold'
  <2>1. /\ WindowTold /\ Orderly(winStreams, e)
        /\ answer \in Devices => e.kind = "conn" /\ e.dev = answer
    BY <1>1, <1>9 DEF WindowWell, WindowInv
  <2>2. StreamsCover(winStreams', bus, Gone)
    BY <1>3, <2>1 DEF WindowTold
  <2>3. status' = "Connected" /\ shown' \in Gone => DiscComes(winStreams', bus, shown', 0)
    BY <1>3, <1>7, <2>1 DEF WindowTold
  <2>4. answer \in Gone => DiscComes(winStreams', bus, answer, 0)
    BY <1>3, <2>1 DEF WindowTold, Gone
  <2>5. ASSUME ~together, NEW d \in Devices, link[d] = "up", Quiet(bus)
        PROVE  LastIsUp(winStreams', d) \/ (AllTaken(winStreams') /\ WindowShows(d)')
    <3>1. LastIsUp(winStreams, d)
      BY <1>3, <2>1, <2>5 DEF WindowTold
    <3>2. CASE AllTaken(winStreams') /\ e.kind = "conn" /\ e.dev = d
      <4>1. status' = "Connected" /\ shown' = d /\ (answer \in Devices => answer = d)
        BY <1>7, <2>1, <3>2
      <4>2. answer \in Devices \cup {NoDevice, Unasked, Applied}
        BY DEF WindowInv, WindowTypeOK
      <4> QED BY <1>1, <3>2, <4>1, <4>2 DEF WindowShows
    <3> QED BY <1>3, <2>1, <3>1, <3>2
  <2> QED BY <1>1, <2>2, <2>3, <2>4, <2>5 DEF WindowTold, Gone
<1>10. WindowBegun'
  BY <1>1, <1>3 DEF WindowBegun
<1> QED BY <1>1, <1>3, <1>4, <1>6, <1>7, <1>8, <1>9, <1>10 DEF WindowInv

\* All of the window's own steps.
LEMMA WindowNextStep ==
  ASSUME BusInv, WindowInv, WindowNext, UNCHANGED <<bridgeVars, running>>, "window" \in running
  PROVE  WindowInv'
<1> USE DEF listenVars, viewVars, bridgeVars
<1>1. ASSUME NEW k \in Kinds, WindowSubscribes(k) PROVE WindowInv'
  <2>1. winSubs' = winSubs \cup {k} /\ UNCHANGED <<winStreams, winBlind, winSwapped, answer, late, viewVars>>
    BY <1>1 DEF WindowSubscribes, Listener!Subscribe
  <2>2. StreamsInv(winSubs', winStreams', bus', sent')
    BY <2>1 DEF WindowInv, StreamsInv
  <2>3. WindowTypeOK'
    BY <2>1 DEF WindowInv, WindowTypeOK, Listener!StreamsTypeOK
  <2>4. TimersCounted' /\ WindowBegun'
    BY <2>1 DEF WindowInv, TimersCounted, WindowBegun
  <2>5. WindowWell' => WindowTold'
    BY <2>1 DEF WindowInv, WindowWell, WindowTold, WindowShows, Gone
  <2> QED BY <2>1, <2>2, <2>3, <2>4, <2>5 DEF WindowInv
<1>2. ASSUME OpenDevicePage \/ ActivateRow \/ ActivateBack PROVE WindowInv'
  <2>1. /\ page' \in {"device", "waiting"} /\ UNCHANGED <<listenVars, answer, late, status, shown>>
        /\ timers' \in Nat /\ timers' <= timers
    <3>1. timers \in Nat
      BY DEF WindowInv, WindowTypeOK
    <3>2. CASE OpenDevicePage
      BY <3>1, <3>2 DEF OpenDevicePage, Turn
    <3>3. CASE ActivateRow
      BY <3>1, <3>3 DEF ActivateRow, Turn
    <3>4. CASE ActivateBack
      BY <3>1, <3>4 DEF ActivateBack, Turn
    <3> QED BY <1>2, <3>2, <3>3, <3>4
  <2>2. timers' \in 0..MaxEvents + 1
    BY <2>1 DEF WindowInv, WindowTypeOK
  <2>3. WindowTypeOK'
    BY <2>1, <2>2 DEF WindowInv, WindowTypeOK, Listener!StreamsTypeOK
  <2>4. TimersCounted'
    <3>1. timers \in Nat /\ Len(bus) \in Nat /\ sent \in Nat /\ Len(winStreams["conn"]) \in Nat
      BY DEF WindowInv, WindowTypeOK, BusInv, BridgeTypeOK, StreamsInv, Kinds
    <3> QED BY <2>1, <3>1 DEF WindowInv, TimersCounted
  <2>5. WindowWell' => WindowTold'
    BY <2>1 DEF WindowInv, WindowWell, WindowTold, WindowShows, Gone
  <2> QED BY <2>1, <2>3, <2>4, <2>5 DEF WindowInv, WindowBegun
<1> QED BY <1>1, <1>2, WindowAsks, WindowApplies, WindowHandles DEF WindowNext

----------------------------------------------------------------------------
\* Nothing went wrong on the way to the page.
PageWell == ~lagged /\ ~pageBlind /\ ~pageSwapped

\* What the page shows is true or will be corrected.
PageTold ==
  /\ StreamsCover(pageStreams, bus, Gone)
  /\ pageId \in Gone => DiscComes(pageStreams, bus, pageId, 0)
  /\ "page" \in running /\ ~together => \A d \in Devices : link[d] = "up" /\ Quiet(bus) =>
       LastIsUp(pageStreams, d) \/ (AllTaken(pageStreams) /\ (pageId = d \/ pressed))

\* The page's part of the inductive invariant.
PageInv ==
  /\ PageTypeOK
  /\ StreamsInv(pageSubs, pageStreams, bus, sent)
  /\ "page" \notin running => pageSubs = {} /\ pageId = NoDevice
  /\ PageWell => PageTold

\* A peer comes or goes.
LEMMA PagePeerStep ==
  ASSUME BusInv, BusInv', Told, PageInv, UNCHANGED <<pageVars, running>>
  PROVE  PageInv'
<1> USE DEF pageVars, followVars
<1>1. StreamsInv(pageSubs, pageStreams, bus, sent)
  BY DEF PageInv
<1>2. /\ StreamsInv(pageSubs', pageStreams', bus', sent')
      /\ ~lagged' =>
           /\ StreamsCover(pageStreams, bus, Gone) => StreamsCover(pageStreams', bus', Gone')
           /\ \A d \in Gone' : (d \in Gone => DiscComes(pageStreams, bus, d, 0)) => DiscComes(pageStreams', bus', d, 0)
  BY <1>1, StreamsTold
<1>3. PageTypeOK'
  BY DEF PageInv, PageTypeOK, Follower!StreamsTypeOK
<1>4. ASSUME PageWell' PROVE PageTold'
  <2>1. PageWell /\ ~lagged' /\ PageTold
    BY <1>4 DEF PageWell, Told, PageInv
  <2>2. ~together' => ~together /\ \A d \in Devices :
          link'[d] = "up" /\ Quiet(bus') => link[d] = "up" /\ Quiet(bus)
    BY <2>1 DEF Told, Steady
  <2> QED BY <1>2, <2>1, <2>2 DEF PageTold
<1> QED BY <1>2, <1>3, <1>4 DEF PageInv

\* The bridge sends a signal: the page hears it, or there is no page.
LEMMA PageSignalStep ==
  ASSUME BusInv, PageInv, NEW e \in Events, RecvEvent(e), running' = running,
         IF "page" \in running THEN PageHears(e) ELSE UNCHANGED pageVars
  PROVE  PageInv'
<1>1. /\ BusInv' /\ Pops(bus, e, bus') /\ e.n <= sent
      /\ UNCHANGED <<link, sent, lagged, together, orphaned>> /\ Gone' = Gone
      /\ ~lagged /\ e.kind = "conn" /\ e.dev \in Gone => DiscAfter(bus', e.dev, e.n)
      /\ Steady => \A d \in Devices : link[d] = "up" /\ Quiet(bus') =>
           (e.kind = "other" /\ Quiet(bus)) \/ (e.kind = "conn" /\ e.dev = d)
  BY Received
<1>2. /\ bus \in Seq(Events) /\ InOrder(bus) /\ sent \in Nat
      /\ StreamsInv(pageSubs, pageStreams, bus, sent)
  BY DEF BusInv, BridgeTypeOK, PageInv
<1>3. CASE "page" \notin running
  <2>1. pageSubs = {} /\ pageId = NoDevice /\ UNCHANGED <<pageVars, followVars>>
    BY <1>3 DEF PageInv, pageVars
  <2>2. Hears(pageSubs, pageStreams, e, pageStreams')
    BY <2>1 DEF Hears, followVars
  <2>3. StreamsInv(pageSubs, pageStreams', bus', sent)
    BY <1>1, <1>2, <2>2, StreamsHear DEF Heard
  <2>4. pageStreams'["conn"] = <<>>
    BY <2>1, <2>3 DEF StreamsInv, Kinds
  <2>5. StreamsCover(pageStreams', bus', Gone') /\ pageId' \notin Gone'
    <3>1. Len(pageStreams'["conn"]) = 0
      BY <2>4
    <3>2. pageId' \notin Gone'
      BY <1>1, <2>1 DEF Gone, pageVars
    <3> QED BY <3>1, <3>2 DEF StreamsCover
  <2>6. PageTypeOK'
    BY <2>1 DEF PageInv, PageTypeOK, Follower!StreamsTypeOK, pageVars, followVars
  <2>7. PageTold'
    BY <1>3, <2>5 DEF PageTold
  <2> QED BY <1>1, <2>1, <2>3, <2>6, <2>7 DEF PageInv, pageVars, followVars
<1>4. CASE "page" \in running
  <2>1. /\ UNCHANGED <<pageSubs, pageSwapped, pageId, pressed>>
        /\ Hears(pageSubs, pageStreams, e, pageStreams')
        /\ pageBlind' = (pageBlind \/ e.kind \in Kinds \ pageSubs)
    BY <1>4 DEF PageHears, Follower!Hear, Hears
  <2>2. /\ StreamsInv(pageSubs, pageStreams', bus', sent)
        /\ e.kind = "other" => pageStreams' = pageStreams
        /\ \A d, x : DiscComes(pageStreams, bus, d, x) /\ (e.kind \in pageSubs \/ e.kind # "disc")
             => DiscComes(pageStreams', bus', d, x)
        /\ \A G : /\ StreamsCover(pageStreams, bus, G) /\ (e.kind \in pageSubs \/ e.kind # "disc")
                  /\ e.kind = "conn" /\ e.dev \in G => DiscAfter(bus', e.dev, e.n)
                  => StreamsCover(pageStreams', bus', G)
        /\ e.kind = "conn" /\ e.kind \in pageSubs => LastIsUp(pageStreams', e.dev)
    <3>1. Heard(pageSubs, pageStreams, bus, sent, e, pageStreams', bus')
      BY <1>1, <1>2, <2>1, StreamsHear
    <3> QED BY <3>1 DEF Heard
  <2>3. PageTypeOK'
    BY <2>1, <2>2 DEF PageInv, PageTypeOK, Follower!StreamsTypeOK, StreamsInv
  <2>4. ASSUME PageWell' PROVE PageTold'
    <3>1. PageWell /\ PageTold /\ ~lagged
      BY <1>1, <2>1, <2>4 DEF PageWell, PageInv
    <3>2. e.kind \in pageSubs \/ e.kind = "other"
      BY <2>1, <2>4, EventType DEF PageWell
    <3>3. StreamsCover(pageStreams', bus', Gone)
      BY <1>1, <2>2, <3>1, <3>2 DEF PageTold
    <3>4. \A d \in Gone : DiscComes(pageStreams, bus, d, 0) => DiscComes(pageStreams', bus', d, 0)
      BY <2>2, <3>2 DEF Gone
    <3>5. ASSUME ~together', NEW d \in Devices, link'[d] = "up", Quiet(bus')
          PROVE  LastIsUp(pageStreams', d) \/ (AllTaken(pageStreams') /\ (pageId' = d \/ pressed'))
      <4>1. (e.kind = "other" /\ Quiet(bus)) \/ (e.kind = "conn" /\ e.dev = d)
        BY <1>1, <3>1, <3>5 DEF Steady
      <4>2. CASE e.kind = "other" /\ Quiet(bus)
        BY <1>1, <1>4, <2>1, <2>2, <3>1, <3>5, <4>2 DEF PageTold
      <4>3. CASE e.kind = "conn" /\ e.dev = d
        BY <2>2, <3>2, <4>3
      <4> QED BY <4>1, <4>2, <4>3
    <3> QED BY <1>1, <2>1, <3>1, <3>3, <3>4, <3>5 DEF PageTold
  <2> QED BY <1>1, <1>4, <2>1, <2>2, <2>3, <2>4 DEF PageInv
<1> QED BY <1>3, <1>4

\* The page's own steps.
LEMMA PageNextStep ==
  ASSUME BusInv, PageInv, PageNext, UNCHANGED <<bridgeVars, running>>, "page" \in running
  PROVE  PageInv'
<1> USE DEF followVars, bridgeVars
<1>1. ASSUME NEW k \in Kinds, PageSubscribes(k) PROVE PageInv'
  <2>1. /\ pageSubs' = pageSubs \cup {k}
        /\ UNCHANGED <<pageStreams, pageBlind, pageSwapped, pageId, pressed>>
    BY <1>1 DEF PageSubscribes, Follower!Subscribe
  <2>2. StreamsInv(pageSubs', pageStreams', bus', sent')
    BY <2>1 DEF PageInv, StreamsInv
  <2>3. PageTypeOK'
    BY <2>1 DEF PageInv, PageTypeOK, Follower!StreamsTypeOK
  <2>4. PageWell' => PageTold'
    BY <2>1 DEF PageInv, PageWell, PageTold, Gone
  <2> QED BY <2>2, <2>3, <2>4 DEF PageInv
<1>2. ASSUME NEW e \in Events, PageFollows(e) PROVE PageInv'
  <2>1. /\ Takes(pageStreams, e, pageStreams') /\ UNCHANGED <<pageSubs, pageBlind>>
        /\ pageSwapped' = (pageSwapped \/ ~Orderly(pageStreams, e))
        /\ pageId' = (IF e.kind = "conn" THEN e.dev ELSE NoDevice)
        /\ pressed' = (pressed /\ e.kind # "conn")
    BY <1>2 DEF PageFollows, Follower!Take, Takes, Orderly
  <2>2. /\ bus \in Seq(Events) /\ sent \in Nat /\ StreamsInv(pageSubs, pageStreams, bus, sent)
    BY DEF BusInv, BridgeTypeOK, PageInv
  <2>3. /\ StreamsInv(pageSubs, pageStreams', bus, sent) /\ ~AllTaken(pageStreams)
        /\ \A d, x : DiscComes(pageStreams, bus, d, x) =>
             DiscComes(pageStreams', bus, d, x) \/ (e.kind = "disc" /\ e.dev = d)
        /\ \A G : StreamsCover(pageStreams, bus, G) =>
             /\ Orderly(pageStreams, e) => StreamsCover(pageStreams', bus, G)
             /\ e.kind = "conn" /\ e.dev \in G => DiscComes(pageStreams', bus, e.dev, 0)
        /\ \A d : Orderly(pageStreams, e) /\ LastIsUp(pageStreams, d) =>
             LastIsUp(pageStreams', d) \/ (AllTaken(pageStreams') /\ e.kind = "conn" /\ e.dev = d)
    <3>1. Kept(pageSubs, pageStreams, bus, sent, e, pageStreams')
      BY <2>1, <2>2, StreamsTake
    <3> QED BY <3>1 DEF Kept
  <2>4. e.dev \in Devices
    BY EventType
  <2>5. PageTypeOK'
    <3>1. pageSwapped' \in BOOLEAN /\ pressed' \in BOOLEAN
      BY <2>1 DEF PageInv, PageTypeOK, Follower!StreamsTypeOK
    <3> QED BY <2>1, <2>3, <2>4, <3>1
            DEF PageInv, PageTypeOK, Follower!StreamsTypeOK, StreamsInv
  <2>6. ASSUME PageWell' PROVE PageTold'
    <3>1. PageTold /\ Orderly(pageStreams, e)
      BY <2>1, <2>6 DEF PageWell, PageInv
    <3>2. StreamsCover(pageStreams', bus, Gone)
      BY <2>3, <3>1 DEF PageTold
    <3>3. pageId' \in Gone => DiscComes(pageStreams', bus, pageId', 0)
      BY <2>1, <2>3, <3>1 DEF PageTold, Gone
    <3>4. ASSUME ~together, "page" \in running, NEW d \in Devices, link[d] = "up", Quiet(bus)
          PROVE  LastIsUp(pageStreams', d) \/ (AllTaken(pageStreams') /\ pageId' = d)
      BY <2>1, <2>3, <3>1, <3>4 DEF PageTold
    <3> QED BY <3>2, <3>3, <3>4 DEF PageTold, Gone
  <2> QED BY <2>1, <2>3, <2>5, <2>6 DEF PageInv
<1>3. ASSUME PressDisconnect PROVE PageInv'
  <2>1. pageId' = NoDevice /\ pressed' = TRUE /\ UNCHANGED followVars
    BY <1>3 DEF PressDisconnect
  <2>2. PageTypeOK'
    BY <2>1 DEF PageInv, PageTypeOK, Follower!StreamsTypeOK
  <2>3. PageWell' => PageTold'
    BY <2>1 DEF PageInv, PageWell, PageTold, Gone
  <2> QED BY <2>1, <2>2, <2>3 DEF PageInv
<1> QED BY <1>1, <1>2, <1>3 DEF PageNext

----------------------------------------------------------------------------
\* The panel's i-th signal is for a proxy that is there; for one with handlers.
Waits(i)   == panelQ[i].to \cap (building \cup wired) # {}
Handled(i) == panelQ[i].to \cap wired # {}

\* Once the current proxy is ready, label and _connectedDeviceId differ only
\* as long as something is to come that makes them equal.
LabelCatchesUp ==
  panel = "on" /\ enables \in wired /\ label # panelId /\ panelId \notin orphaned =>
    \/ Turning(panelId)
    \/ \E i \in 1..Len(panelQ) :
         Handled(i) /\ (panelQ[i].sig.kind = "conn" \/ panelQ[i].sig.dev = panelId)

\* What the panel shows, or is about to show, is true or will be corrected.
PanelTold ==
  /\ \A i \in 1..Len(panelQ) :
       panelQ[i].sig.kind = "conn" /\ panelQ[i].sig.dev \in Gone /\ Waits(i) =>
         \/ \E j \in 1..Len(panelQ) : /\ j > i /\ panelQ[j].sig.kind = "disc"
                                      /\ panelQ[j].sig.dev = panelQ[i].sig.dev
         \/ DiscAfter(bus, panelQ[i].sig.dev, 0)
  /\ panelId \in Gone =>
       \/ \E i \in 1..Len(panelQ) :
            Handled(i) /\ panelQ[i].sig.kind = "disc" /\ panelQ[i].sig.dev = panelId
       \/ DiscAfter(bus, panelId, 0)
  /\ ~together => \A d \in Devices : link[d] = "up" /\ Quiet(bus) =>
       /\ \A i \in 1..Len(panelQ) : Waits(i) =>
            panelQ[Len(panelQ)].sig.kind = "conn" /\ panelQ[Len(panelQ)].sig.dev = d
       /\ wired # {} => panelId = d \/ (panelQ # <<>> /\ Handled(Len(panelQ)))

\* A later signal is for all the proxies that an earlier one is for, but for
\* those that have been forgotten.
PanelOrder == \A i, j \in 1..Len(panelQ) :
  i < j => panelQ[i].to \cap (building \cup wired) \subseteq panelQ[j].to

\* What panel, proxies, label and _connectedDeviceId have to do with each other.
PanelShape ==
  /\ "panel" \notin running => panel = "off" /\ building = {} /\ wired = {}
  /\ panelId # NoDevice => wired # {}
  /\ label \in {NoDevice, panelId} /\ (panel = "off" => label = NoDevice)
  /\ ~hasty => label = panelId /\ (panel = "off" => building = {} /\ wired = {})

\* The panel's part of the inductive invariant.
PanelInv ==
  /\ PanelTypeOK /\ PanelShape /\ PanelOrder
  /\ \A i \in 1..Len(panelQ) : panelQ[i].sig.kind \in Kinds
  /\ ~lagged /\ panel # "broken" => LabelCatchesUp /\ PanelTold

\* A peer comes or goes.
LEMMA PanelPeerStep ==
  ASSUME BusInv, BusInv', Told, PanelInv, UNCHANGED <<panelVars, running>>
  PROVE  PanelInv'
<1> USE DEF panelVars
<1>1. PanelTypeOK' /\ PanelShape' /\ PanelOrder'
  BY DEF PanelInv, PanelTypeOK, PanelShape, PanelOrder
<1>2. \A i \in 1..Len(panelQ') : panelQ'[i].sig.kind \in Kinds
  BY DEF PanelInv
<1>3. ASSUME ~lagged', panel' # "broken" PROVE LabelCatchesUp' /\ PanelTold'
  <2>1. ~lagged /\ LabelCatchesUp /\ PanelTold /\ sent \in Nat
    BY <1>3 DEF Told, PanelInv, BusInv, BridgeTypeOK
  <2>2. \A d \in Gone' : \/ DiscAfter(bus', d, 0)
                         \/ d \in Gone /\ (DiscAfter(bus, d, 0) => DiscAfter(bus', d, 0))
    BY <1>3, <2>1 DEF Told
  <2>3. ~together' => ~together /\ \A d \in Devices :
          link'[d] = "up" /\ Quiet(bus') => link[d] = "up" /\ Quiet(bus)
    BY <1>3 DEF Told, Steady
  <2>4. PanelTold'
    BY <2>1, <2>2, <2>3 DEF PanelTold, Waits, Handled
  <2>5. LabelCatchesUp'
    <3> SUFFICES ASSUME panel = "on", enables \in wired, label # panelId, panelId \notin orphaned'
                 PROVE  \/ Turning(panelId)'
                        \/ \E i \in 1..Len(panelQ) :
                             Handled(i) /\ (panelQ[i].sig.kind = "conn" \/ panelQ[i].sig.dev = panelId)
      BY DEF LabelCatchesUp, Handled, Turning
    <3>1. panelId \in Devices
      BY DEF PanelInv, PanelTypeOK, PanelShape
    <3>2. Turning(panelId) \/ panelId \in orphaned => Turning(panelId)'
      BY <1>3, <3>1 DEF Told, Turning
    <3> QED BY <2>1, <3>2 DEF LabelCatchesUp
  <2> QED BY <2>4, <2>5
<1> QED BY <1>1, <1>2, <1>3 DEF PanelInv

\* The bridge sends a signal: it is queued for all proxies, if there is one.
LEMMA PanelSignalStep ==
  ASSUME BusInv, PanelInv, NEW e \in Events, RecvEvent(e), running' = running,
         IF "panel" \in running THEN PanelHears(e) ELSE UNCHANGED panelVars
  PROVE  PanelInv'
<1> DEFINE Proxies == building \cup wired
           Msg == [sig : Events, to : SUBSET (1..enables)]
           m == [sig |-> e, to |-> Proxies]
           new == Proxies # {} /\ e.kind \in Kinds
<1>1. /\ BusInv' /\ Pops(bus, e, bus') /\ e.n \in Nat
      /\ UNCHANGED <<link, sent, lagged, together, orphaned>> /\ Gone' = Gone
      /\ \A d, x : DiscAfter(bus, d, x) =>
           DiscAfter(bus', d, x) \/ (e.kind = "disc" /\ e.dev = d /\ e.n > x)
      /\ ~lagged /\ e.kind = "conn" /\ e.dev \in Gone => DiscAfter(bus', e.dev, e.n)
      /\ Steady => \A d \in Devices : link[d] = "up" /\ Quiet(bus') =>
           (e.kind = "other" /\ Quiet(bus)) \/ (e.kind = "conn" /\ e.dev = d)
  BY Received, EventType
<1>2. /\ UNCHANGED <<panel, enables, building, wired, panelId, label, hasty>>
      /\ IF new THEN Pushes(panelQ, m, panelQ') ELSE panelQ' = panelQ
  BY DEF PanelHears, Pushes, panelVars, PanelInv, PanelShape
<1>3. /\ panelQ \in Seq(Msg) /\ m \in Msg /\ m.sig = e /\ m.to = Proxies
  BY DEF PanelInv, PanelTypeOK
<1> HIDE DEF Msg, m
<1>4. /\ Len(panelQ) \in Nat /\ panelQ' \in Seq(Msg)
      /\ \A i \in 1..Len(panelQ) : i \in 1..Len(panelQ') /\ panelQ'[i] = panelQ[i]
      /\ new => /\ Len(panelQ') \in 1..Len(panelQ') /\ panelQ'[Len(panelQ')] = m
                /\ \A i \in 1..Len(panelQ) : i < Len(panelQ')
      /\ ~new => panelQ' = panelQ
      /\ \A i \in 1..Len(panelQ') : (new /\ i = Len(panelQ')) \/ i \in 1..Len(panelQ)
      /\ new => panelQ' # <<>>
  <2>1. CASE new
    <3>1. Pushes(panelQ, m, panelQ')
      BY <1>2, <2>1
    <3>2. /\ panelQ' \in Seq(Msg) /\ panelQ' # <<>> /\ Len(panelQ) \in Nat
          /\ Len(panelQ') \in 1..Len(panelQ') /\ panelQ'[Len(panelQ')] = m
          /\ \A i \in 1..Len(panelQ) : i \in 1..Len(panelQ') /\ i < Len(panelQ') /\ panelQ'[i] = panelQ[i]
          /\ \A i \in 1..Len(panelQ') : i = Len(panelQ') \/ i \in 1..Len(panelQ)
      BY <1>3, <3>1, PushAny
    <3> QED BY <2>1, <3>2
  <2>2. CASE ~new
    BY <1>2, <1>3, <2>2
  <2> QED BY <2>1, <2>2
<1>5. PanelTypeOK'
  BY <1>2, <1>4 DEF PanelInv, PanelTypeOK, Msg
<1>6. PanelShape'
  BY <1>2 DEF PanelInv, PanelShape
<1>7. PanelOrder' /\ \A i \in 1..Len(panelQ') : panelQ'[i].sig.kind \in Kinds
  <2>1. ASSUME NEW i \in 1..Len(panelQ'), NEW j \in 1..Len(panelQ'), i < j
        PROVE  panelQ'[i].to \cap Proxies \subseteq panelQ'[j].to
    <3>1. i \in 1..Len(panelQ) /\ panelQ'[i] = panelQ[i]
      BY <1>4, <2>1
    <3>2. CASE new /\ j = Len(panelQ')
      BY <1>3, <1>4, <3>2
    <3>3. CASE j \in 1..Len(panelQ)
      BY <1>4, <2>1, <3>1, <3>3 DEF PanelInv, PanelOrder
    <3> QED BY <1>4, <3>2, <3>3
  <2>2. PanelOrder'
    BY <1>2, <2>1 DEF PanelOrder
  <2> QED BY <1>3, <1>4, <2>2 DEF PanelInv
<1>8. \A i \in 1..Len(panelQ) : (Waits(i)' <=> Waits(i)) /\ (Handled(i)' <=> Handled(i))
  BY <1>2, <1>4 DEF Waits, Handled
<1>9. new => /\ wired # {} => Handled(Len(panelQ))'
             /\ Waits(Len(panelQ))'
  BY <1>2, <1>3, <1>4 DEF Waits, Handled
<1>10. ASSUME ~lagged', panel' # "broken" PROVE LabelCatchesUp' /\ PanelTold'
  <2>1. ~lagged /\ LabelCatchesUp /\ PanelTold
    BY <1>1, <1>2, <1>10 DEF PanelInv
  <2>2. LabelCatchesUp'
    <3> SUFFICES ASSUME panel = "on", enables \in wired, label # panelId, panelId \notin orphaned
                 PROVE  \/ Turning(panelId)'
                        \/ \E i \in 1..Len(panelQ') :
                             Handled(i)' /\ (panelQ'[i].sig.kind = "conn" \/ panelQ'[i].sig.dev = panelId)
      BY <1>1, <1>2 DEF LabelCatchesUp
    <3>1. CASE \E i \in 1..Len(panelQ) :
                 Handled(i) /\ (panelQ[i].sig.kind = "conn" \/ panelQ[i].sig.dev = panelId)
      BY <1>4, <1>8, <3>1
    <3>2. CASE link[panelId] \in {"removed", "registered"}
      BY <1>1, <1>2, <3>2 DEF Turning
    <3>3. CASE \E i \in 1..Len(bus) :
                 bus[i].kind = "conn" \/ (bus[i].kind = "disc" /\ bus[i].dev = panelId)
      <4>1. PICK i \in 1..Len(bus) :
              bus[i].kind = "conn" \/ (bus[i].kind = "disc" /\ bus[i].dev = panelId)
        BY <3>3
      <4>2. \/ i = 1 /\ e = bus[1]
            \/ \E j \in 1..Len(bus') : bus'[j] = bus[i]
        BY <1>1, PopAny DEF BusInv, BridgeTypeOK
      <4>3. CASE \E j \in 1..Len(bus') : bus'[j] = bus[i]
        BY <1>2, <4>1, <4>3 DEF Turning
      <4>4. CASE i = 1 /\ e = bus[1]
        <5>1. new
          BY <4>1, <4>4 DEF Kinds
        <5> QED BY <1>3, <1>4, <1>9, <4>1, <4>4, <5>1
      <4> QED BY <4>2, <4>3, <4>4
    <3> QED BY <2>1, <3>1, <3>2, <3>3 DEF LabelCatchesUp, Turning
  <2>3. ASSUME NEW i \in 1..Len(panelQ'), panelQ'[i].sig.kind = "conn",
               panelQ'[i].sig.dev \in Gone, Waits(i)'
        PROVE  \/ \E j \in 1..Len(panelQ') : /\ j > i /\ panelQ'[j].sig.kind = "disc"
                                             /\ panelQ'[j].sig.dev = panelQ'[i].sig.dev
               \/ DiscAfter(bus', panelQ'[i].sig.dev, 0)
    <3>1. CASE new /\ i = Len(panelQ')
      <4>1. DiscAfter(bus', e.dev, e.n) /\ panelQ'[i].sig = e
        BY <1>1, <1>3, <1>4, <2>1, <2>3, <3>1
      <4>2. DiscAfter(bus', e.dev, 0)
        <5>1. bus' \in Seq(Events) /\ \A j \in 1..Len(bus') : bus'[j].n \in Nat
          BY <1>1, EventType DEF BusInv, BridgeTypeOK
        <5> QED BY <1>1, <4>1, <5>1 DEF DiscAfter
      <4> QED BY <4>1, <4>2
    <3>2. CASE i \in 1..Len(panelQ)
      <4>1. panelQ'[i] = panelQ[i] /\ Waits(i)
        BY <1>4, <1>8, <2>3, <3>2
      <4>2. CASE \E j \in 1..Len(panelQ) : /\ j > i /\ panelQ[j].sig.kind = "disc"
                                           /\ panelQ[j].sig.dev = panelQ[i].sig.dev
        BY <1>4, <4>1, <4>2
      <4>3. CASE DiscAfter(bus, panelQ[i].sig.dev, 0)
        <5>1. CASE e.kind = "disc" /\ e.dev = panelQ[i].sig.dev
          <6>1. new
            BY <4>1, <5>1 DEF Waits, Kinds
          <6> QED BY <1>3, <1>4, <3>2, <4>1, <5>1, <6>1
        <5> QED BY <1>1, <4>1, <4>3, <5>1
      <4> QED BY <2>1, <2>3, <3>2, <4>1, <4>2, <4>3 DEF PanelTold
    <3> QED BY <1>4, <3>1, <3>2
  <2>4. ASSUME panelId \in Gone
        PROVE  \/ \E i \in 1..Len(panelQ') :
                    Handled(i)' /\ panelQ'[i].sig.kind = "disc" /\ panelQ'[i].sig.dev = panelId
               \/ DiscAfter(bus', panelId, 0)
    <3>1. CASE \E i \in 1..Len(panelQ) :
                 Handled(i) /\ panelQ[i].sig.kind = "disc" /\ panelQ[i].sig.dev = panelId
      BY <1>4, <1>8, <3>1
    <3>2. CASE DiscAfter(bus, panelId, 0)
      <4>1. CASE e.kind = "disc" /\ e.dev = panelId
        <5>1. wired # {} /\ new
          BY <2>4, <4>1 DEF PanelInv, PanelShape, Gone, Kinds
        <5> QED BY <1>3, <1>4, <1>9, <4>1, <5>1
      <4> QED BY <1>1, <3>2, <4>1
    <3> QED BY <2>1, <2>4, <3>1, <3>2 DEF PanelTold
  <2>5. ASSUME ~together, NEW d \in Devices, link[d] = "up", Quiet(bus')
        PROVE  /\ \A i \in 1..Len(panelQ') : Waits(i)' =>
                    panelQ'[Len(panelQ')].sig.kind = "conn" /\ panelQ'[Len(panelQ')].sig.dev = d
               /\ wired # {} => panelId = d \/ (panelQ' # <<>> /\ Handled(Len(panelQ))')
    <3>1. CASE e.kind = "other" /\ Quiet(bus)
      <4>1. panelQ' = panelQ
        BY <1>2, <3>1 DEF Kinds
      <4> QED BY <1>2, <2>1, <2>5, <3>1, <4>1 DEF PanelTold, Waits, Handled
    <3>2. CASE e.kind = "conn" /\ e.dev = d /\ Proxies # {}
      <4>1. new
        BY <3>2 DEF Kinds
      <4> QED BY <1>3, <1>4, <1>9, <3>2, <4>1
    <3>3. CASE Proxies = {}
      BY <1>2, <3>3 DEF Waits
    <3> QED BY <1>1, <2>1, <2>5, <3>1, <3>2, <3>3 DEF Steady
  <2>6. PanelTold'
    BY <1>1, <1>2, <2>3, <2>4, <2>5 DEF PanelTold
  <2> QED BY <2>2, <2>6
<1> QED BY <1>5, <1>6, <1>7, <1>10 DEF PanelInv

\* The main loop dispatches the oldest signal.
LEMMA PanelDispatches ==
  ASSUME BusInv, PanelInv, PanelDispatch, UNCHANGED <<bridgeVars, running>>
  PROVE  PanelInv'
<1> DEFINE Proxies == building \cup wired
           Msg == [sig : Events, to : SUBSET (1..enables)]
           h == Head(panelQ)
           e == h.sig
<1>1. /\ Pops(panelQ, h, panelQ') /\ UNCHANGED <<panel, enables, building, wired, hasty>>
      /\ CASE h.to \cap wired # {} /\ e.kind = "conn" -> SetConnected(e.dev)
           [] h.to \cap wired # {} /\ e.kind = "disc" /\ panelId = e.dev ->
                panelId' = NoDevice /\ label' = NoDevice
           [] OTHER -> UNCHANGED <<panelId, label>>
  BY DEF PanelDispatch, Pops
<1>2. panelQ \in Seq(Msg)
  BY DEF PanelInv, PanelTypeOK
<1> HIDE DEF Msg, h
<1>3. /\ h \in Msg /\ panelQ' \in Seq(Msg) /\ h = panelQ[1] /\ 1 \in 1..Len(panelQ)
      /\ Len(panelQ') \in Nat /\ Len(panelQ) = Len(panelQ') + 1
      /\ \A i \in 1..Len(panelQ') : i + 1 \in 1..Len(panelQ) /\ panelQ'[i] = panelQ[i + 1]
      /\ \A i \in 1..Len(panelQ) : i = 1 \/ \E j \in 1..Len(panelQ') : i = j + 1 /\ panelQ'[j] = panelQ[i]
  BY <1>1, <1>2, PopAny
<1>4. /\ e \in Events /\ e.dev \in Devices /\ e.kind \in Kinds
      /\ e.kind = "conn" \/ e.kind = "disc"
  <2>1. e \in Events
    BY <1>3 DEF Msg
  <2>2. e.kind \in Kinds
    BY <1>3 DEF PanelInv
  <2> QED BY <2>1, <2>2, EventType DEF Kinds
<1>5. /\ Handled(1) <=> h.to \cap wired # {}
      /\ Handled(1) => Waits(1) /\ wired # {}
      /\ \A i \in 1..Len(panelQ') : (Waits(i)' <=> Waits(i + 1)) /\ (Handled(i)' <=> Handled(i + 1))
      /\ \A i \in 1..Len(panelQ) : Handled(1) => Handled(i)
  <2>1. \A i \in 1..Len(panelQ) : Handled(1) => Handled(i)
    BY <1>3 DEF Handled, PanelInv, PanelOrder
  <2> QED BY <1>1, <1>3, <2>1 DEF Handled, Waits
<1>6. \/ /\ Handled(1) /\ e.kind = "conn" /\ panelId' = e.dev
         /\ label' = IF panel = "off" THEN label ELSE e.dev
      \/ Handled(1) /\ e.kind = "disc" /\ panelId = e.dev /\ panelId' = NoDevice /\ label' = NoDevice
      \/ /\ ~Handled(1) \/ (e.kind = "disc" /\ panelId # e.dev)
         /\ UNCHANGED <<panelId, label>>
  BY <1>1, <1>4, <1>5 DEF SetConnected
<1>7. PanelTypeOK'
  BY <1>1, <1>3, <1>4, <1>6 DEF PanelInv, PanelTypeOK, Msg
<1>8. PanelShape'
  <2>1. panel = "off" /\ ~hasty => ~Handled(1)
    BY <1>5 DEF PanelInv, PanelShape
  <2> QED BY <1>1, <1>5, <1>6, <2>1 DEF PanelInv, PanelShape
<1>9. PanelOrder' /\ \A i \in 1..Len(panelQ') : panelQ'[i].sig.kind \in Kinds
  <2>1. ASSUME NEW i \in 1..Len(panelQ'), NEW j \in 1..Len(panelQ'), i < j
        PROVE  panelQ'[i].to \cap Proxies \subseteq panelQ'[j].to
    <3>1. /\ i + 1 \in 1..Len(panelQ) /\ j + 1 \in 1..Len(panelQ) /\ i + 1 < j + 1
          /\ panelQ'[i] = panelQ[i + 1] /\ panelQ'[j] = panelQ[j + 1]
      BY <1>3, <2>1
    <3> QED BY <3>1 DEF PanelInv, PanelOrder
  <2> QED BY <1>1, <1>3, <2>1 DEF PanelInv, PanelOrder
<1>10. ASSUME ~lagged', panel' # "broken" PROVE LabelCatchesUp' /\ PanelTold'
  <2>1. /\ LabelCatchesUp /\ PanelTold /\ Gone' = Gone
        /\ UNCHANGED <<link, bus, together, orphaned>>
    BY <1>1, <1>10 DEF PanelInv, Gone, bridgeVars
  <2>2. LabelCatchesUp'
    <3> SUFFICES ASSUME panel = "on", enables \in wired, label' # panelId', panelId' \notin orphaned
                 PROVE  \/ Turning(panelId)'
                        \/ \E i \in 1..Len(panelQ') :
                             Handled(i)' /\ (panelQ'[i].sig.kind = "conn" \/ panelQ'[i].sig.dev = panelId')
      BY <1>1, <2>1 DEF LabelCatchesUp
    <3>1. UNCHANGED <<panelId, label>> /\ (~Handled(1) \/ (e.kind = "disc" /\ panelId # e.dev))
      BY <1>6
    <3>2. CASE Turning(panelId)
      BY <2>1, <3>1, <3>2 DEF Turning
    <3>3. CASE \E i \in 1..Len(panelQ) :
                 Handled(i) /\ (panelQ[i].sig.kind = "conn" \/ panelQ[i].sig.dev = panelId)
      <4>1. PICK i \in 1..Len(panelQ) :
              Handled(i) /\ (panelQ[i].sig.kind = "conn" \/ panelQ[i].sig.dev = panelId)
        BY <3>3
      <4>2. i # 1
        BY <1>3, <3>1, <4>1
      <4> QED BY <1>3, <1>5, <3>1, <4>1, <4>2
    <3> QED BY <2>1, <3>1, <3>2, <3>3 DEF LabelCatchesUp
  <2>3. ASSUME NEW i \in 1..Len(panelQ), panelQ[i].sig.kind = "conn",
               panelQ[i].sig.dev \in Gone, Waits(i)
        PROVE  \/ \E j \in 1..Len(panelQ') : /\ j + 1 > i /\ panelQ'[j].sig.kind = "disc"
                                             /\ panelQ'[j].sig.dev = panelQ[i].sig.dev
               \/ DiscAfter(bus, panelQ[i].sig.dev, 0)
    <3>1. CASE \E j \in 1..Len(panelQ) : /\ j > i /\ panelQ[j].sig.kind = "disc"
                                         /\ panelQ[j].sig.dev = panelQ[i].sig.dev
      <4>1. PICK j \in 1..Len(panelQ) : /\ j > i /\ panelQ[j].sig.kind = "disc"
                                        /\ panelQ[j].sig.dev = panelQ[i].sig.dev
        BY <3>1
      <4>2. j # 1
        BY <4>1
      <4> QED BY <1>3, <4>1, <4>2
    <3> QED BY <2>1, <2>3, <3>1 DEF PanelTold
  <2>4. ASSUME NEW i \in 1..Len(panelQ'), panelQ'[i].sig.kind = "conn",
               panelQ'[i].sig.dev \in Gone, Waits(i)'
        PROVE  \/ \E j \in 1..Len(panelQ') : /\ j > i /\ panelQ'[j].sig.kind = "disc"
                                             /\ panelQ'[j].sig.dev = panelQ'[i].sig.dev
               \/ DiscAfter(bus, panelQ'[i].sig.dev, 0)
    <3>1. i + 1 \in 1..Len(panelQ) /\ panelQ'[i] = panelQ[i + 1] /\ Waits(i + 1)
      BY <1>3, <1>5, <2>4
    <3>2. \/ \E j \in 1..Len(panelQ') : /\ j + 1 > i + 1 /\ panelQ'[j].sig.kind = "disc"
                                        /\ panelQ'[j].sig.dev = panelQ'[i].sig.dev
          \/ DiscAfter(bus, panelQ'[i].sig.dev, 0)
      BY <2>3, <2>4, <3>1
    <3> QED BY <3>2
  <2>5. ASSUME panelId' \in Gone
        PROVE  \/ \E i \in 1..Len(panelQ') :
                    Handled(i)' /\ panelQ'[i].sig.kind = "disc" /\ panelQ'[i].sig.dev = panelId'
               \/ DiscAfter(bus, panelId', 0)
    <3>1. CASE Handled(1) /\ e.kind = "conn" /\ panelId' = e.dev
      <4>1. \/ \E j \in 1..Len(panelQ') : panelQ'[j].sig.kind = "disc" /\ panelQ'[j].sig.dev = e.dev
            \/ DiscAfter(bus, e.dev, 0)
        BY <1>3, <1>5, <2>3, <2>5, <3>1
      <4> QED BY <1>3, <1>5, <3>1, <4>1
    <3>2. CASE /\ ~Handled(1) \/ (e.kind = "disc" /\ panelId # e.dev)
               /\ panelId' = panelId
      <4>1. CASE \E i \in 1..Len(panelQ) :
                   Handled(i) /\ panelQ[i].sig.kind = "disc" /\ panelQ[i].sig.dev = panelId
        <5>1. PICK i \in 1..Len(panelQ) :
                Handled(i) /\ panelQ[i].sig.kind = "disc" /\ panelQ[i].sig.dev = panelId
          BY <4>1
        <5>2. i # 1
          BY <1>3, <3>2, <5>1
        <5> QED BY <1>3, <1>5, <3>2, <5>1, <5>2
      <4> QED BY <2>1, <2>5, <3>2, <4>1 DEF PanelTold
    <3>3. panelId' # NoDevice
      BY <2>5 DEF Gone
    <3> QED BY <1>6, <3>1, <3>2, <3>3
  <2>6. ASSUME ~together, NEW d \in Devices, link[d] = "up", Quiet(bus)
        PROVE  /\ \A i \in 1..Len(panelQ') : Waits(i)' =>
                    panelQ'[Len(panelQ')].sig.kind = "conn" /\ panelQ'[Len(panelQ')].sig.dev = d
               /\ wired # {} => panelId' = d \/ (panelQ' # <<>> /\ Handled(Len(panelQ))')
    <3>1. /\ \A i \in 1..Len(panelQ) : Waits(i) =>
               panelQ[Len(panelQ)].sig.kind = "conn" /\ panelQ[Len(panelQ)].sig.dev = d
          /\ wired # {} => panelId = d \/ Handled(Len(panelQ))
      BY <2>1, <2>6 DEF PanelTold
    <3>2. CASE Len(panelQ') = 0
      <4>1. Len(panelQ) = 1
        BY <1>3, <3>2
      <4>2. Handled(1) => e.kind = "conn" /\ e.dev = d
        BY <1>3, <1>5, <3>1, <4>1
      <4>3. wired # {} => panelId' = d
        BY <1>6, <3>1, <4>1, <4>2
      <4> QED BY <3>2, <4>3
    <3>3. CASE Len(panelQ') # 0
      <4>1. /\ panelQ' # <<>> /\ Len(panelQ') \in 1..Len(panelQ')
            /\ panelQ'[Len(panelQ')] = panelQ[Len(panelQ)]
        BY <1>3, <3>3
      <4>2. Handled(Len(panelQ))' <=> Handled(Len(panelQ))
        BY <1>3, <1>5, <4>1
      <4>3. \A i \in 1..Len(panelQ') : Waits(i)' =>
              panelQ'[Len(panelQ')].sig.kind = "conn" /\ panelQ'[Len(panelQ')].sig.dev = d
        BY <1>3, <1>5, <3>1, <4>1
      <4>4. wired # {} => panelId' = d \/ Handled(Len(panelQ))
        <5>1. Handled(1) => Handled(Len(panelQ))
          BY <1>3, <1>5
        <5> QED BY <1>6, <3>1, <5>1
      <4> QED BY <4>1, <4>2, <4>3, <4>4
    <3> QED BY <3>2, <3>3
  <2>7. PanelTold'
    BY <1>1, <2>1, <2>4, <2>5, <2>6 DEF PanelTold
  <2> QED BY <2>2, <2>7
<1> QED BY <1>7, <1>8, <1>9, <1>10 DEF PanelInv

\* Enabled again: nothing that is queued is for the new proxy.
LEMMA PanelEnables ==
  ASSUME BusInv, PanelInv, PanelEnable, UNCHANGED <<bridgeVars, running>>, "panel" \in running
  PROVE  PanelInv'
<1>1. /\ panel = "off" /\ panel' = "on" /\ enables' = enables + 1
      /\ building' = building \cup {enables + 1} /\ label' = NoDevice
      /\ UNCHANGED <<wired, panelQ, panelId, hasty, link, bus, lagged, together, orphaned>>
      /\ Gone' = Gone
  BY DEF PanelEnable, bridgeVars, Gone
<1>2. /\ enables \in Nat /\ enables < MaxEnables
      /\ building \subseteq 1..enables /\ wired \subseteq 1..enables
      /\ panelQ \in Seq([sig : Events, to : SUBSET (1..enables)])
  BY DEF PanelInv, PanelTypeOK, PanelEnable
<1>3. 1..enables \subseteq 1..(enables + 1) /\ enables + 1 \notin 1..enables
  BY <1>2
<1>4. /\ panelQ \in Seq([sig : Events, to : SUBSET (1..(enables + 1))])
      /\ \A i \in 1..Len(panelQ) : panelQ[i].to \subseteq 1..enables
  <2> DEFINE Msg == [sig : Events, to : SUBSET (1..enables)]
             More == [sig : Events, to : SUBSET (1..(enables + 1))]
  <2>1. \A m \in Msg : m \in More /\ m.to \subseteq 1..enables
    BY <1>3
  <2>2. panelQ \in Seq(Msg)
    BY <1>2
  <2> HIDE DEF Msg, More
  <2>3. Len(panelQ) \in Nat /\ panelQ \in [1..Len(panelQ) -> More]
        /\ \A i \in 1..Len(panelQ) : panelQ[i].to \subseteq 1..enables
    BY <2>1, <2>2
  <2>4. panelQ \in Seq(More)
    BY <2>3
  <2> QED BY <2>3, <2>4 DEF More
<1>5. \A i \in 1..Len(panelQ) :
        /\ panelQ[i].to \cap (building' \cup wired') = panelQ[i].to \cap (building \cup wired)
        /\ (Waits(i)' <=> Waits(i)) /\ (Handled(i)' <=> Handled(i))
  BY <1>1, <1>3, <1>4 DEF Waits, Handled
<1>6. PanelTypeOK'
  <2>1. enables + 1 \in 0..MaxEnables
    BY <1>2
  <2>2. building' \subseteq 1..(enables + 1) /\ wired' \subseteq 1..(enables + 1)
    BY <1>1, <1>2, <1>3
  <2> QED BY <1>1, <1>4, <2>1, <2>2 DEF PanelInv, PanelTypeOK
<1>7. PanelShape'
  BY <1>1 DEF PanelInv, PanelShape
<1>8. PanelOrder'
  BY <1>1, <1>5 DEF PanelInv, PanelOrder
<1>9. LabelCatchesUp'
  BY <1>1, <1>2, <1>3 DEF LabelCatchesUp
<1>10. ~lagged' => PanelTold'
  <2> SUFFICES ASSUME ~lagged PROVE PanelTold'
    BY <1>1
  <2>1. PanelTold
    BY <1>1 DEF PanelInv
  <2>2. panelQ # <<>> => Len(panelQ) \in 1..Len(panelQ)
    BY <1>2
  <2> QED BY <1>1, <1>5, <2>1, <2>2 DEF PanelTold
<1> QED BY <1>1, <1>6, <1>7, <1>8, <1>9, <1>10 DEF PanelInv

\* The callback of a proxy: its handlers, then its query.
LEMMA PanelReadies ==
  ASSUME BusInv, PanelInv, NEW p \in building, ProxyReady(p), UNCHANGED <<bridgeVars, running>>
  PROVE  PanelInv'
<1>1. /\ building' = building \ {p} /\ wired' = wired \cup {p}
      /\ UNCHANGED <<panel, enables, panelQ, hasty, running, link, bus, lagged, together, orphaned>>
      /\ Gone' = Gone /\ building' \cup wired' = building \cup wired
      /\ IF Registry = {} THEN UNCHANGED <<panelId, label>>
                          ELSE \E d \in Registry : SetConnected(d)
  BY DEF ProxyReady, bridgeVars, Gone
<1>2. /\ Registry \subseteq Devices /\ Registry \cap Gone = {}
      /\ ~together => \A d \in Devices : link[d] = "up" => Registry = {d}
  BY DEF Registry, Gone, BusInv
<1>3. \/ Registry = {} /\ UNCHANGED <<panelId, label>>
      \/ panelId' \in Registry /\ label' = IF panel = "off" THEN label ELSE panelId'
  BY <1>1 DEF SetConnected
<1>4. \A i \in 1..Len(panelQ) : (Waits(i)' <=> Waits(i)) /\ (Handled(i) => Handled(i)')
  BY <1>1 DEF Waits, Handled
<1>5. PanelTypeOK'
  BY <1>1, <1>2, <1>3 DEF PanelInv, PanelTypeOK
<1>6. PanelShape'
  BY <1>1, <1>3 DEF PanelInv, PanelShape
<1>7. PanelOrder'
  BY <1>1 DEF PanelInv, PanelOrder
<1>8. ASSUME ~lagged', panel' # "broken" PROVE LabelCatchesUp' /\ PanelTold'
  <2>1. LabelCatchesUp /\ PanelTold
    BY <1>1, <1>8 DEF PanelInv
  <2>2. ASSUME panelId' \in Gone
        PROVE  \/ \E i \in 1..Len(panelQ) :
                    Handled(i)' /\ panelQ[i].sig.kind = "disc" /\ panelQ[i].sig.dev = panelId'
               \/ DiscAfter(bus, panelId', 0)
    <3>1. panelId' = panelId
      BY <1>2, <1>3, <2>2
    <3> QED BY <1>4, <2>1, <2>2, <3>1 DEF PanelTold
  <2>3. ASSUME panel = "on", label' # panelId', panelId' \notin orphaned
        PROVE  \/ Turning(panelId)'
               \/ \E i \in 1..Len(panelQ) :
                    Handled(i)' /\ (panelQ[i].sig.kind = "conn" \/ panelQ[i].sig.dev = panelId')
    <3>1. Registry = {} /\ UNCHANGED <<panelId, label>>
      BY <1>3, <2>3
    <3>2. panelId \in Devices
      BY <2>3, <3>1 DEF PanelInv, PanelTypeOK, PanelShape
    <3>3. link[panelId] \in {"off", "removed"}
      BY <3>1, <3>2 DEF BusInv, BridgeTypeOK, Links, Registry
    <3>4. CASE link[panelId] = "removed"
      BY <1>1, <3>1, <3>4 DEF Turning
    <3>5. CASE link[panelId] = "off"
      <4>1. panelId' \in Gone
        BY <2>3, <3>1, <3>2, <3>5 DEF Gone
      <4>2. DiscAfter(bus, panelId, 0) => Turning(panelId)'
        BY <1>1, <3>1 DEF DiscAfter, Turning
      <4> QED BY <2>2, <3>1, <4>1, <4>2
    <3> QED BY <3>3, <3>4, <3>5
  <2>4. ASSUME ~together, NEW d \in Devices, link[d] = "up" PROVE panelId' = d
    BY <1>2, <1>3, <2>4
  <2>5. PanelTold'
    <3>1. Len(panelQ') = Len(panelQ)
      BY <1>1
    <3> QED BY <1>1, <1>4, <2>1, <2>2, <2>4, <3>1 DEF PanelTold
  <2>6. LabelCatchesUp'
    BY <1>1, <2>3 DEF LabelCatchesUp
  <2> QED BY <2>5, <2>6
<1> QED BY <1>1, <1>5, <1>6, <1>7, <1>8 DEF PanelInv

\* A proxy that could not be built is heard of no more.
LEMMA PanelFails ==
  ASSUME BusInv, PanelInv, NEW p \in building, ProxyFails(p), UNCHANGED <<bridgeVars, running>>
  PROVE  PanelInv'
<1>1. /\ building' = building \ {p}
      /\ UNCHANGED <<panel, enables, wired, panelQ, panelId, label, hasty, running>>
      /\ UNCHANGED <<link, bus, lagged, together, orphaned>> /\ Gone' = Gone
  BY DEF ProxyFails, bridgeVars, Gone
<1>2. \A i \in 1..Len(panelQ) : (Waits(i)' => Waits(i)) /\ (Handled(i)' <=> Handled(i))
  BY <1>1 DEF Waits, Handled
<1>3. PanelTypeOK' /\ PanelShape' /\ PanelOrder'
  BY <1>1 DEF PanelInv, PanelTypeOK, PanelShape, PanelOrder
<1>4. LabelCatchesUp => LabelCatchesUp'
  BY <1>1, <1>2 DEF LabelCatchesUp, Turning
<1>5. PanelTold => PanelTold'
  <2>1. panelQ # <<>> => Len(panelQ) \in 1..Len(panelQ)
    BY DEF PanelInv, PanelTypeOK
  <2> QED BY <1>1, <1>2, <2>1 DEF PanelTold
<1> QED BY <1>1, <1>3, <1>4, <1>5 DEF PanelInv

\* Disabled, or stuck in disable().
LEMMA PanelDisables ==
  ASSUME BusInv, PanelInv, PanelDisable \/ PanelDisableThrows,
         UNCHANGED <<bridgeVars, running>>, "panel" \in running
  PROVE  PanelInv'
<1>1. /\ UNCHANGED <<enables, building, panelQ, link, bus, lagged, together, orphaned>>
      /\ Gone' = Gone
  BY DEF PanelDisable, PanelDisableThrows, bridgeVars, Gone
<1>2. CASE PanelDisable
  <2>1. /\ panel = "on" /\ panel' = "off" /\ wired' = {} /\ panelId' = NoDevice /\ label' = NoDevice
        /\ hasty' = (hasty \/ building # {})
    BY <1>2 DEF PanelDisable
  <2>2. PanelTypeOK'
    BY <1>1, <2>1 DEF PanelInv, PanelTypeOK
  <2>3. PanelShape'
    BY <1>1, <2>1 DEF PanelInv, PanelShape
  <2>4. PanelOrder'
    BY <1>1, <2>1 DEF PanelInv, PanelOrder
  <2>5. LabelCatchesUp'
    BY <2>1 DEF LabelCatchesUp
  <2>6. ~lagged' => PanelTold'
    <3>1. \A i \in 1..Len(panelQ) : Waits(i)' => Waits(i)
      BY <1>1, <2>1 DEF Waits
    <3>2. panelId' \notin Gone
      BY <2>1 DEF Gone
    <3> QED BY <1>1, <2>1, <3>1, <3>2 DEF PanelInv, PanelTold
  <2> QED BY <1>1, <2>2, <2>3, <2>4, <2>5, <2>6 DEF PanelInv
<1>3. CASE PanelDisableThrows
  <2>1. /\ panel = "on" /\ panel' = "broken" /\ ~OneProxy
        /\ UNCHANGED <<panelId, label, hasty>>
    BY <1>3 DEF PanelDisableThrows
  <2>2. PICK current \in wired : wired' = wired \ {current}
    BY <1>3 DEF PanelDisableThrows
  <2>3. wired' # {}
    BY <2>1, <2>2 DEF OneProxy
  <2> QED BY <1>1, <2>1, <2>2, <2>3 DEF PanelInv, PanelTypeOK, PanelShape, PanelOrder
<1> QED BY <1>2, <1>3

----------------------------------------------------------------------------
\* The inductive invariant.
Inv == BusInv /\ WindowInv /\ PanelInv /\ PageInv /\ running \in Choices

\* Nothing is shown at first.
LEMMA InitInv == ASSUME Init PROVE Inv
<1> USE DEF Init, BridgeInit, PresenceInit
<1>1. /\ link = [d \in Devices |-> "off"] /\ bus = <<>> /\ sent = 0 /\ restarts = 0
      /\ lagged = FALSE /\ together = FALSE /\ orphaned = {}
      /\ Len(bus) = 0 /\ bus \in Seq(Events) /\ Quiet(bus) /\ InOrder(bus)
  BY DEF Quiet, InOrder
<1>2. BusInv
  <2>1. /\ "off" \in Links \ {"muddled"} /\ 0 \in 0..MaxEvents /\ 0 \in 0..MaxRestarts
        /\ 0 <= BusCap
    BY DEF Links
  <2>2. BridgeTypeOK
    BY <1>1, <2>1 DEF BridgeTypeOK
  <2>3. \A d \in Devices : link[d] = "off"
    BY <1>1
  <2> QED BY <1>1, <2>2, <2>3 DEF BusInv, Covers, Steady
<1>3. LET q == [k \in Kinds |-> <<>>] IN
        /\ StreamsInv({}, q, bus, sent) /\ StreamsCover(q, bus, Gone) /\ AllTaken(q)
        /\ Len(q["conn"]) = 0
  <2> DEFINE q == [k \in Kinds |-> <<>>]
  <2>1. q \in [Kinds -> Seq(Events)] /\ \A k \in Kinds : q[k] = <<>> /\ Len(q[k]) = 0
    OBVIOUS
  <2>2. "conn" \in Kinds
    BY DEF Kinds
  <2> HIDE DEF q
  <2>3. StreamsInv({}, q, bus, sent) /\ StreamsCover(q, bus, Gone) /\ AllTaken(q)
    BY <2>1, <2>2 DEF StreamsInv, StreamsCover, AllTaken, InOrder, Before
  <2> QED BY <2>1, <2>2, <2>3 DEF q
<1>4. WindowInv
  <2>1. /\ winSubs = {} /\ winStreams = [k \in Kinds |-> <<>>]
        /\ winBlind = FALSE /\ winSwapped = FALSE
        /\ answer = Unasked /\ late = FALSE /\ status = "none" /\ shown = NoDevice
        /\ page = "waiting" /\ timers = 0
    BY DEF WindowInit, Listener!StreamsInit
  <2>2. WindowTypeOK
    <3>1. timers \in 0..MaxEvents + 1
      BY <2>1
    <3> QED BY <1>3, <2>1, <3>1 DEF WindowTypeOK, Listener!StreamsTypeOK, StreamsInv
  <2>3. WindowTold
    BY <1>1, <1>3, <2>1 DEF WindowTold, WindowShows, Gone
  <2>4. TimersCounted
    BY <1>1, <1>3, <2>1 DEF TimersCounted
  <2> QED BY <1>3, <2>1, <2>2, <2>3, <2>4 DEF WindowInv, WindowBegun
<1>5. PanelInv
  <2>1. /\ panel = "off" /\ enables = 0 /\ building = {} /\ wired = {} /\ panelQ = <<>>
        /\ panelId = NoDevice /\ label = NoDevice /\ hasty = FALSE
    BY DEF PanelInit
  <2>2. Len(panelQ) = 0
    BY <2>1
  <2>3. PanelTypeOK /\ PanelShape
    <3>1. enables \in 0..MaxEnables
      BY <2>1
    <3>2. panelQ \in Seq([sig : Events, to : SUBSET (1..enables)])
      BY <2>1
    <3> QED BY <2>1, <3>1, <3>2 DEF PanelTypeOK, PanelShape
  <2>4. PanelOrder /\ \A i \in 1..Len(panelQ) : panelQ[i].sig.kind \in Kinds
    BY <2>2 DEF PanelOrder
  <2>5. LabelCatchesUp /\ PanelTold
    BY <1>1, <2>1, <2>2 DEF LabelCatchesUp, PanelTold, Gone
  <2> QED BY <2>3, <2>4, <2>5 DEF PanelInv
<1>6. PageInv
  <2>1. /\ pageSubs = {} /\ pageStreams = [k \in Kinds |-> <<>>]
        /\ pageBlind = FALSE /\ pageSwapped = FALSE /\ pageId = NoDevice /\ pressed = FALSE
    BY DEF PageInit, Follower!StreamsInit
  <2>2. PageTypeOK
    BY <1>3, <2>1 DEF PageTypeOK, Follower!StreamsTypeOK, StreamsInv
  <2>3. PageTold
    BY <1>1, <1>3, <2>1 DEF PageTold, Gone
  <2> QED BY <1>3, <2>1, <2>2, <2>3 DEF PageInv
<1> QED BY <1>2, <1>4, <1>5, <1>6 DEF Inv

\* A step of one component is a stuttering step of the peers for the others.
LEMMA InvStep == ASSUME Inv, [Next]_vars PROVE Inv'
<1>0. BusInv /\ WindowInv /\ PanelInv /\ PageInv /\ running \in Choices
  BY DEF Inv
<1>1. CASE PeerStep
  <2>1. PeerNext /\ UNCHANGED <<windowVars, panelVars, pageVars, running>>
    BY <1>1 DEF PeerStep
  <2>2. BusInv' /\ Told
    BY <1>0, <2>1, PeerTells
  <2> QED BY <1>0, <2>1, <2>2, WindowPeerStep, PanelPeerStep, PagePeerStep DEF Inv
<1>2. CASE Signal
  <2>1. PICK e \in Events :
          /\ RecvEvent(e)
          /\ IF "window" \in running THEN WindowHears(e) ELSE UNCHANGED windowVars
          /\ IF "panel" \in running THEN PanelHears(e) ELSE UNCHANGED panelVars
          /\ IF "page" \in running THEN PageHears(e) ELSE UNCHANGED pageVars
    BY <1>2 DEF Signal
  <2>2. running' = running
    BY <1>2 DEF Signal
  <2>3. BusInv'
    BY <1>0, <2>1, Received
  <2>4. WindowInv'
    BY <1>0, <2>1, <2>2, WindowSignalStep
  <2>5. PanelInv'
    BY <1>0, <2>1, <2>2, PanelSignalStep
  <2>6. PageInv'
    BY <1>0, <2>1, <2>2, PageSignalStep
  <2> QED BY <1>0, <2>2, <2>3, <2>4, <2>5, <2>6 DEF Inv
<1>3. ASSUME UNCHANGED <<bridgeVars, running>> PROVE BusInv' /\ Told
  BY <1>0, <1>3 DEF bridgeVars, BusInv, BridgeTypeOK, Covers, Steady, Gone, Told, Turning
<1>4. CASE WindowStep
  <2>1. /\ "window" \in running /\ WindowNext
        /\ UNCHANGED <<bridgeVars, panelVars, pageVars, running>>
    BY <1>4 DEF WindowStep
  <2>2. WindowInv'
    BY <1>0, <2>1, WindowNextStep
  <2>3. PanelInv' /\ PageInv'
    BY <1>0, <1>3, <2>1, PanelPeerStep, PagePeerStep
  <2> QED BY <1>0, <1>3, <2>1, <2>2, <2>3 DEF Inv
<1>5. CASE PanelStep
  <2>1. /\ "panel" \in running /\ PanelNext
        /\ UNCHANGED <<bridgeVars, windowVars, pageVars, running>>
    BY <1>5 DEF PanelStep
  <2>2. PanelInv'
    BY <1>0, <2>1, PanelEnables, PanelReadies, PanelFails, PanelDispatches, PanelDisables
       DEF PanelNext
  <2>3. WindowInv' /\ PageInv'
    BY <1>0, <1>3, <2>1, WindowPeerStep, PagePeerStep
  <2> QED BY <1>0, <1>3, <2>1, <2>2, <2>3 DEF Inv
<1>6. CASE PageStep
  <2>1. /\ "page" \in running /\ PageNext
        /\ UNCHANGED <<bridgeVars, windowVars, panelVars, running>>
    BY <1>6 DEF PageStep
  <2>2. PageInv'
    BY <1>0, <2>1, PageNextStep
  <2>3. WindowInv' /\ PanelInv'
    BY <1>0, <1>3, <2>1, WindowPeerStep, PanelPeerStep
  <2> QED BY <1>0, <1>3, <2>1, <2>2, <2>3 DEF Inv
<1>7. CASE UNCHANGED vars
  <2>1. UNCHANGED <<bridgeVars, windowVars, panelVars, pageVars, running>>
    BY <1>7 DEF vars
  <2> QED BY <1>0, <1>3, <2>1, WindowPeerStep, PanelPeerStep, PagePeerStep DEF Inv
<1> QED BY <1>1, <1>2, <1>4, <1>5, <1>6, <1>7 DEF Next

\* Whatever the peers, the bridge and the three views do, in whatever order,
\* what is shown is true or its correction is on its way.
THEOREM Invariant == Spec => []Inv
<1> QED BY InitInv, InvStep, PTL DEF Spec

\* The types, with the bound on the window's pending callbacks: never more than
\* events sent, and one for its answer.
THEOREM TypeCorrect == Spec => []TypeOK
<1>1. Inv => TypeOK
  BY DEF Inv, TypeOK, BusInv, WindowInv, PanelInv, PageInv
<1> QED BY <1>1, Invariant, PTL

----------------------------------------------------------------------------
\* When everything sent has arrived, the channel is empty, and a device is
\* either up or gone, unless a restart orphaned it.
LEMMA WhenDelivered ==
  ASSUME BusInv, Delivered
  PROVE  /\ bus = <<>> /\ Len(bus) = 0 /\ Quiet(bus) /\ \A d, m : ~DiscAfter(bus, d, m)
         /\ \A d \in Devices : link[d] = "up" \/ d \in orphaned \/ d \in Gone
         /\ \A d \in Devices : ~Turning(d)
<1>1. bus = <<>> /\ Len(bus) = 0
  BY DEF Delivered
<1> QED BY <1>1 DEF Delivered, Quiet, DiscAfter, Turning, Gone

\* A listener that has taken every signal has none of a disconnect.
LEMMA WhenListened ==
  ASSUME NEW S, NEW q, NEW m, StreamsInv(S, q, bus, m), BusInv, Delivered, AllTaken(q)
  PROVE  \A d, x : ~DiscComes(q, bus, d, x) /\ ~LastIsUp(q, d)
<1>1. q["disc"] = <<>> /\ Len(q["disc"]) = 0 /\ q["conn"] = <<>>
  BY DEF AllTaken, Kinds
<1>2. \A d, x : ~DiscAfter(bus, d, x)
  BY WhenDelivered
<1>3. \A d, x : ~DiscAfter(q["disc"], d, x)
  BY <1>1 DEF DiscAfter
<1> QED BY <1>1, <1>2, <1>3 DEF DiscComes, LastIsUp

\* The window of the application is right whenever it has come to rest.
THEOREM WindowRight == Spec => []WindowIsRight
<1>1. ASSUME Inv, WindowSettled, WindowWell
      PROVE  /\ status = "Connected" => link[shown] = "up" \/ shown \in orphaned
             /\ ~together => \A d \in Devices : link[d] = "up" => status = "Connected" /\ shown = d
  <2>1. /\ BusInv /\ Delivered /\ AllTaken(winStreams) /\ answer = Applied
        /\ WindowTold /\ StreamsInv(winSubs, winStreams, bus, sent)
        /\ status = "Connected" => shown \in Devices
    BY <1>1 DEF Inv, WindowSettled, Listener!Listening, AllTaken, WindowInv
  <2>2. \A d, x : ~DiscComes(winStreams, bus, d, x) /\ ~LastIsUp(winStreams, d)
    BY <2>1, WhenListened
  <2>3. Quiet(bus) /\ \A d \in Devices : link[d] = "up" \/ d \in orphaned \/ d \in Gone
    BY <2>1, WhenDelivered
  <2>4. status = "Connected" => link[shown] = "up" \/ shown \in orphaned
    BY <2>1, <2>2, <2>3 DEF WindowTold
  <2>5. ASSUME ~together, NEW d \in Devices, link[d] = "up"
        PROVE  status = "Connected" /\ shown = d
    <3>1. WindowShows(d)
      BY <2>1, <2>2, <2>3, <2>5 DEF WindowTold
    <3> QED BY <2>1, <3>1 DEF WindowShows
  <2> QED BY <2>4, <2>5
<1>2. Inv => WindowIsRight
  BY <1>1 DEF WindowIsRight
<1> QED BY <1>2, Invariant, PTL

\* The panel of the Shell is right whenever it has come to rest, enabled and
\* disabled however often and however hastily.
THEOREM PanelRight == Spec => []PanelIsRight
<1>1. ASSUME Inv, PanelSettled, ~lagged
      PROVE  /\ panelId # NoDevice => link[panelId] = "up" \/ panelId \in orphaned
             /\ ~together /\ wired # {} => \A d \in Devices : link[d] = "up" => panelId = d
  <2>1. /\ BusInv /\ Delivered /\ PanelTold /\ PanelTypeOK /\ PanelShape
        /\ panelQ = <<>> /\ Len(panelQ) = 0 /\ panel = "on" /\ building = {}
    BY <1>1 DEF Inv, PanelInv, PanelSettled
  <2>2. /\ Quiet(bus) /\ \A d, m : ~DiscAfter(bus, d, m)
        /\ \A d \in Devices : link[d] = "up" \/ d \in orphaned \/ d \in Gone
    BY <2>1, WhenDelivered
  <2>3. panelId # NoDevice => panelId \in Devices
    BY <2>1 DEF PanelTypeOK
  <2>4. panelId # NoDevice => link[panelId] = "up" \/ panelId \in orphaned
    BY <2>1, <2>2, <2>3 DEF PanelTold
  <2>5. ASSUME ~together, wired # {}, NEW d \in Devices, link[d] = "up" PROVE panelId = d
    BY <2>1, <2>2, <2>5 DEF PanelTold
  <2> QED BY <2>4, <2>5
<1>2. Inv => PanelIsRight
  BY <1>1 DEF PanelIsRight
<1> QED BY <1>2, Invariant, PTL

\* The panel's label names the device that its Disconnect item is for.
THEOREM LabelRight == Spec => []LabelTellsId
<1>1. ASSUME Inv, PanelSettled, hasty => ~lagged /\ panelId \notin orphaned /\ enables \in wired
      PROVE  label = panelId
  <2>1. /\ BusInv /\ Delivered /\ PanelTypeOK /\ PanelShape /\ (~lagged => LabelCatchesUp)
        /\ Len(panelQ) = 0 /\ panel = "on" /\ building = {}
    BY <1>1 DEF Inv, PanelInv, PanelSettled
  <2>2. CASE ~hasty
    BY <2>1, <2>2 DEF PanelShape
  <2>3. CASE hasty
    <3> SUFFICES ASSUME label # panelId PROVE FALSE
      OBVIOUS
    <3>1. panelId \in Devices
      BY <2>1 DEF PanelShape, PanelTypeOK
    <3>2. ~Turning(panelId)
      BY <2>1, <3>1, WhenDelivered
    <3> QED BY <1>1, <2>1, <2>3, <3>2 DEF LabelCatchesUp
  <2> QED BY <2>2, <2>3
<1>2. Inv => LabelTellsId
  BY <1>1 DEF LabelTellsId
<1> QED BY <1>2, Invariant, PTL

\* The connection page is right whenever it has come to rest.
THEOREM PageRight == Spec => []PageIsRight
<1>1. ASSUME Inv, PageSettled
      PROVE  /\ pageId # NoDevice => link[pageId] = "up" \/ pageId \in orphaned
             /\ ~together /\ ~pressed => \A d \in Devices : link[d] = "up" => pageId = d
  <2>1. /\ BusInv /\ Delivered /\ AllTaken(pageStreams) /\ pageSubs = Kinds /\ PageTold
        /\ PageTypeOK /\ StreamsInv(pageSubs, pageStreams, bus, sent)
        /\ "page" \notin running => pageSubs = {}
    BY <1>1 DEF Inv, PageSettled, Follower!Listening, AllTaken, PageInv, PageWell
  <2>2. \A d, x : ~DiscComes(pageStreams, bus, d, x) /\ ~LastIsUp(pageStreams, d)
    BY <2>1, WhenListened
  <2>3. Quiet(bus) /\ \A d \in Devices : link[d] = "up" \/ d \in orphaned \/ d \in Gone
    BY <2>1, WhenDelivered
  <2>4. pageId # NoDevice => pageId \in Devices
    BY <2>1 DEF PageTypeOK
  <2>5. "page" \in running
    BY <2>1 DEF Kinds
  <2> QED BY <2>1, <2>2, <2>3, <2>4, <2>5 DEF PageTold
<1>2. Inv => PageIsRight
  BY <1>1 DEF PageIsRight
<1> QED BY <1>2, Invariant, PTL

============================================================================
