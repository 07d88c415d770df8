------------------------ MODULE WebRtcSessionsProofs ------------------------
(* Proofs about WebRtcSessions, for any number of calls and session ids.   *)
EXTENDS WebRtcSessions, TLAPS

\* A session in use: its create_session has returned and nobody closes it.
InUse(k) ==
  /\ k \in Calls
  /\ op[k] = "create" /\ stage[k] = "done"
  /\ pc[k] = "open" /\ state[k] # "Closing"

\* The map offers sessions in use under their own ids.
MapInv ==
  \A i \in Ids : sessions[i] # NoCall => InUse(sessions[i]) /\ IdOf[sessions[i]] = i

\* What each call knows.  A connection is that of a create_session which waits
\* for the lock or has returned.
CallOK(x) ==
  /\ stage[x] = "building" => op[x] = "create"
  /\ pc[x] # "none" => op[x] = "create" /\ stage[x] \in {"queued", "done"}
  /\ state[x] # "none" => pc[x] # "none"
  /\ op[x] = "create" /\ stage[x] = "queued" => pc[x] = "open" /\ state[x] # "Closing"
  /\ stage[x] \in {"applying", "hung"} => InUse(on[x])
  /\ stage[x] = "closing" =>
       on[x] \in Calls /\ state[on[x]] = "Closing" /\ stage[on[x]] = "done"

CallInv == \A x \in Calls : CallOK(x)

Inv == TypeOK /\ MapInv /\ CallInv /\ OpenIsReachable

----------------------------------------------------------------------------
\* No session yet: the invariant holds.
LEMMA InvInit == Init => Inv
  BY SessionsAssumption
  DEF Init, Inv, TypeOK, MapInv, CallInv, CallOK, OpenIsReachable, Ops, Stages

\* The queue of the lock stays one of calls.
LEMMA QueueStep ==
  ASSUME queue \in Seq(Calls), NEW x \in Calls
  PROVE  /\ Append(queue, x) \in Seq(Calls)
         /\ queue # <<>> => Tail(queue) \in Seq(Calls)
  OBVIOUS

\* A call that begins, or builds its connection, has none in the map.
LEMMA BeginKeeps ==
  ASSUME Inv, NEW x \in Calls, NEW o \in Ops, Begin(x, o)
  PROVE  Inv'
<1> USE SessionsAssumption DEF Begin, Goto, Inv
<1>1. TypeOK'
  BY QueueStep DEF TypeOK, Ops, Stages
<1>2. MapInv'
  BY DEF TypeOK, MapInv, InUse
<1>3. CallInv'
  BY DEF TypeOK, CallInv, CallOK, InUse
<1>4. OpenIsReachable'
  BY DEF TypeOK, CallInv, CallOK, OpenIsReachable
<1> QED BY <1>1, <1>2, <1>3, <1>4

LEMMA BuildKeeps ==
  ASSUME Inv, NEW x \in Calls, Build(x)
  PROVE  Inv'
<1> USE SessionsAssumption DEF Build, Goto, Inv
<1>1. TypeOK'
  <2>1. CASE Goto(x, "building", "done") /\ UNCHANGED <<pc, state, queue>>
    BY <2>1 DEF TypeOK, Stages
  <2>2. CASE /\ Goto(x, "building", "queued") /\ queue' = Append(queue, x)
             /\ pc' = [pc EXCEPT ![x] = "open"]
             /\ state' = [state EXCEPT ![x] = "Signaling"]
    BY <2>2, QueueStep DEF TypeOK, Stages
  <2> QED BY <2>1, <2>2
<1>2. MapInv'
  BY DEF TypeOK, MapInv, InUse
<1>3. CallInv'
  BY DEF TypeOK, CallInv, CallOK, InUse
<1>4. OpenIsReachable'
  BY DEF TypeOK, CallInv, CallOK, OpenIsReachable
<1> QED BY <1>1, <1>2, <1>3, <1>4

\* A new session takes the place of an older one of its id.
LEMMA InsertKeeps ==
  ASSUME Inv, NEW x \in Calls, Insert(x)
  PROVE  Inv'
<1> USE SessionsAssumption DEF Insert, Granted, Goto, Inv
<1>1. TypeOK'
  BY QueueStep DEF TypeOK, Ops, Stages
<1>2. MapInv'
  BY DEF TypeOK, MapInv, CallInv, CallOK, InUse
<1>3. CallInv'
  BY DEF TypeOK, CallInv, CallOK, InUse
<1>4. OpenIsReachable'
  <2> SUFFICES ASSUME NEW k \in Calls, pc'[k] = "open"
               PROVE  \/ stage'[k] = "queued" \/ sessions'[IdOf[k]] = k \/ k \in replaced'
                      \/ \E y \in Calls : stage'[y] = "closing" /\ on'[y] = k
    BY DEF OpenIsReachable
  <2>1. CASE k = x
    BY <2>1 DEF TypeOK
  <2>2. CASE k # x /\ sessions[IdOf[k]] = k
    BY <2>2 DEF TypeOK
  <2>3. CASE k # x /\ sessions[IdOf[k]] # k
    BY <2>3 DEF TypeOK, OpenIsReachable
  <2> QED BY <2>1, <2>2, <2>3
<1> QED BY <1>1, <1>2, <1>3, <1>4

\* Calls for unknown ids leave the sessions alone.
LEMMA ReturnKeeps ==
  ASSUME Inv, NEW x \in Calls, ReturnAtOnce(x)
  PROVE  Inv'
<1> USE SessionsAssumption DEF ReturnAtOnce, Granted, Goto, Inv
<1>1. TypeOK'
  BY QueueStep DEF TypeOK, Ops, Stages
<1>2. MapInv'
  BY DEF TypeOK, MapInv, InUse
<1>3. CallInv'
  BY DEF TypeOK, CallInv, CallOK, InUse
<1>4. OpenIsReachable'
  BY DEF TypeOK, CallInv, CallOK, OpenIsReachable
<1> QED BY <1>1, <1>2, <1>3, <1>4

\* What the map offers to signalling is in use.
LEMMA ApplyKeeps ==
  ASSUME Inv, NEW x \in Calls, Apply(x)
  PROVE  Inv'
<1> USE SessionsAssumption DEF Apply, Granted, Goto, Inv
<1>0. sessions[IdOf[x]] \in Calls /\ InUse(sessions[IdOf[x]])
  BY DEF TypeOK, MapInv
<1>1. TypeOK'
  <2>1. readers' = {y \in Calls : stage'[y] \in {"applying", "hung"}}
    BY DEF TypeOK
  <2> QED BY <1>0, <2>1, QueueStep DEF TypeOK, Stages
<1>2. MapInv'
  BY DEF TypeOK, MapInv, InUse
<1>3. CallInv'
  <2> SUFFICES ASSUME NEW y \in Calls PROVE CallOK(y)'
    BY DEF CallInv
  <2>1. CASE y = x
    BY <1>0, <2>1 DEF TypeOK, CallInv, CallOK, InUse
  <2>2. CASE y # x
    BY <2>2 DEF TypeOK, CallInv, CallOK, InUse
  <2> QED BY <2>1, <2>2
<1>4. OpenIsReachable'
  BY DEF TypeOK, CallInv, CallOK, OpenIsReachable
<1> QED BY <1>1, <1>2, <1>3, <1>4

\* A late answer meets a session in use.
LEMMA AppliedKeeps ==
  ASSUME Inv, NEW x \in Calls, Applied(x) \/ Hang(x)
  PROVE  Inv'
<1> USE SessionsAssumption DEF Applied, Hang, Goto, Inv
<1>1. TypeOK'
  BY DEF TypeOK, CallInv, CallOK, InUse, Ops, Stages
<1>2. MapInv'
  BY DEF TypeOK, MapInv, CallInv, CallOK, InUse
<1>3. CallInv'
  BY DEF TypeOK, CallInv, CallOK, InUse
<1>4. OpenIsReachable'
  BY DEF TypeOK, CallInv, CallOK, OpenIsReachable
<1> QED BY <1>1, <1>2, <1>3, <1>4

\* Who gets the write guard meets no reader.
LEMMA TakeOutKeeps ==
  ASSUME Inv, NEW x \in Calls, TakeOut(x)
  PROVE  Inv'
<1> USE SessionsAssumption DEF TakeOut, Granted, Goto, Inv
<1> DEFINE k == sessions[IdOf[x]]
<1>0. k \in Calls /\ InUse(k) /\ IdOf[k] = IdOf[x] /\ k # x
  BY DEF TypeOK, MapInv, InUse
<1>1. TypeOK'
  <2>1. readers' = {y \in Calls : stage'[y] \in {"applying", "hung"}}
    BY DEF TypeOK
  <2> QED BY <1>0, <2>1, QueueStep DEF TypeOK, Stages
<1>2. MapInv'
  <2> SUFFICES ASSUME NEW i \in Ids, sessions'[i] # NoCall
               PROVE  InUse(sessions[i])' /\ IdOf[sessions'[i]] = i
    BY DEF MapInv
  <2>1. i # IdOf[x] /\ sessions'[i] = sessions[i]
    BY DEF TypeOK
  <2>2. InUse(sessions[i]) /\ IdOf[sessions[i]] = i
    BY <2>1 DEF MapInv
  <2>3. sessions[i] # k /\ sessions[i] # x
    BY <1>0, <2>1, <2>2 DEF InUse
  <2> QED BY <2>1, <2>2, <2>3 DEF InUse, TypeOK
<1>3. \A y \in Calls : stage[y] \notin {"applying", "hung"}
  BY DEF TypeOK, Writing
<1>4. CallInv'
  <2> SUFFICES ASSUME NEW y \in Calls PROVE CallOK(y)'
    BY DEF CallInv
  <2>1. CASE y = x
    BY <1>0, <2>1 DEF TypeOK, CallInv, CallOK, InUse
  <2>2. CASE y # x
    BY <1>0, <1>3, <2>2 DEF TypeOK, CallInv, CallOK, InUse
  <2> QED BY <2>1, <2>2
<1>5. OpenIsReachable'
  <2> SUFFICES ASSUME NEW c \in Calls, pc'[c] = "open"
               PROVE  \/ stage'[c] = "queued" \/ sessions'[IdOf[c]] = c \/ c \in replaced'
                      \/ \E y \in Calls : stage'[y] = "closing" /\ on'[y] = c
    BY DEF OpenIsReachable
  <2>1. CASE c = k
    BY <1>0, <2>1 DEF TypeOK
  <2>2. c # x
    BY DEF CallInv, CallOK
  <2>3. CASE c # k
    BY <1>0, <2>2, <2>3 DEF TypeOK, OpenIsReachable
  <2> QED BY <2>1, <2>3
<1> QED BY <1>1, <1>2, <1>4, <1>5

\* What is closed is in use nowhere.
LEMMA CloseKeeps ==
  ASSUME Inv, NEW x \in Calls, Close(x)
  PROVE  Inv'
<1> USE SessionsAssumption DEF Close, Goto, Inv
<1>1. TypeOK'
  BY DEF TypeOK, CallInv, CallOK, Ops, Stages
<1>2. MapInv'
  BY DEF TypeOK, MapInv, CallInv, CallOK, InUse
<1>3. CallInv'
  BY DEF TypeOK, CallInv, CallOK, InUse
<1>4. OpenIsReachable'
  BY DEF TypeOK, CallInv, CallOK, OpenIsReachable
<1> QED BY <1>1, <1>2, <1>3, <1>4

\* Every step keeps the invariant.
LEMMA InvStep == Inv /\ [Next]_vars => Inv'
<1> SUFFICES ASSUME Inv, [Next]_vars PROVE Inv'
  OBVIOUS
<1>1. ASSUME NEW x \in Calls, Proceed(x) PROVE Inv'
  BY <1>1, BuildKeeps, InsertKeeps, ReturnKeeps, ApplyKeeps, AppliedKeeps,
     TakeOutKeeps, CloseKeeps DEF Proceed
<1>2. CASE UNCHANGED vars
  BY <1>2 DEF vars, callVars, Inv, TypeOK, MapInv, CallInv, CallOK, InUse, OpenIsReachable
<1> QED
  BY <1>1, <1>2, BeginKeeps, AppliedKeeps DEF Next

----------------------------------------------------------------------------
\* The invariant of the sessions, whatever calls meet.
THEOREM Invariant == Spec => []Inv
  BY InvInit, InvStep, PTL DEF Spec

\* The variables keep their types; the readers of the lock are the calls that
\* libwebrtc has not returned from.
THEOREM TypeCorrect == Spec => []TypeOK
<1>1. Inv => TypeOK
  BY DEF Inv
<1> QED BY <1>1, Invariant, PTL

\* Signalling and the map never meet a session that is being closed
\* (peer_connection.rs handle_answer, handle_ice_candidate, close_session).
THEOREM OnOpen == Spec => []WorksOnOpen
<1>1. Inv => WorksOnOpen
  BY DEF Inv, MapInv, CallInv, CallOK, InUse, WorksOnOpen
<1> QED BY <1>1, Invariant, PTL

\* Only a replaced session is left open out of reach (create_session).
THEOREM Reachable == Spec => []OpenIsReachable
<1>1. Inv => OpenIsReachable
  BY DEF Inv
<1> QED BY <1>1, Invariant, PTL

\* No late answer brings a closing session back (handle_answer).
THEOREM StaysClosing == Spec => ClosingSticks
<1>1. Inv /\ [Next]_vars =>
        [\A k \in Calls : state[k] = "Closing" => state'[k] = "Closing"]_state
  <2> SUFFICES ASSUME Inv, Next, NEW k \in Calls, state[k] = "Closing"
               PROVE  state'[k] = "Closing"
    BY DEF vars
  <2>1. PICK x \in Calls : Proceed(x) \/ Hang(x) \/ \E o \in Ops : Begin(x, o)
    BY DEF Next
  <2>2. CASE Build(x)
    BY <2>2 DEF Build, Inv, TypeOK, CallInv, CallOK, Goto
  <2>3. CASE Applied(x)
    BY <2>3 DEF Applied, Goto, Inv, TypeOK, CallInv, CallOK, InUse
  <2>4. CASE TakeOut(x)
    BY <2>4 DEF TakeOut, Inv, TypeOK
  <2> QED
    BY <2>1, <2>2, <2>3, <2>4
    DEF Proceed, Insert, ReturnAtOnce, Apply, Close, Hang, Begin
<1> QED BY <1>1, Invariant, PTL DEF Spec, ClosingSticks

----------------------------------------------------------------------------
(* The queue of the lock.  Head, Tail and Append are met in two lemmas only. *)

\* The queue w holds each of the calls in W once, and no other.
Queues(w, W) ==
  /\ \A i, j \in 1..Len(w) : w[i] = w[j] => i = j
  /\ \A t \in Calls : t \in W <=> \E i \in 1..Len(w) : w[i] = t

\* A call that is not in the queue yet asks.
LEMMA AskKeeps ==
  ASSUME NEW w \in Seq(Calls), NEW W, NEW t \in Calls, Queues(w, W), t \notin W
  PROVE  Append(w, t) \in Seq(Calls) /\ Queues(Append(w, t), W \cup {t})
<1> DEFINE v == Append(w, t)
<1>1. /\ v \in Seq(Calls) /\ Len(w) \in Nat /\ Len(v) = Len(w) + 1 /\ v[Len(w) + 1] = t
      /\ \A i \in 1..Len(w) : v[i] = w[i]
  OBVIOUS
<1> HIDE DEF v
<1>2. \A i \in 1..Len(v) : i = Len(w) + 1 \/ i \in 1..Len(w)
  BY <1>1
<1>3. \A i \in 1..Len(w) : v[i] # t
  BY <1>1 DEF Queues
<1>4. \A i, j \in 1..Len(v) : v[i] = v[j] => i = j
  BY <1>1, <1>2, <1>3 DEF Queues
<1>5. ASSUME NEW x \in Calls PROVE x \in W \cup {t} <=> \E i \in 1..Len(v) : v[i] = x
  <2>1. 1..Len(w) \subseteq 1..Len(v) /\ Len(w) + 1 \in 1..Len(v)
    BY <1>1
  <2>2. x \in W <=> \E i \in 1..Len(w) : w[i] = x
    BY DEF Queues
  <2> QED BY <1>1, <1>2, <2>1, <2>2
<1> QED BY <1>1, <1>4, <1>5 DEF Queues, v

\* The first in the queue is served.
LEMMA GrantKeeps ==
  ASSUME NEW w \in Seq(Calls), NEW W, Queues(w, W), w # <<>>
  PROVE  /\ Head(w) \in Calls /\ Head(w) \in W
         /\ Tail(w) \in Seq(Calls) /\ Queues(Tail(w), W \ {Head(w)})
<1> DEFINE v == Tail(w)
           t == Head(w)
<1>1. /\ v \in Seq(Calls) /\ Len(v) \in Nat /\ Len(w) \in Nat /\ Len(w) = Len(v) + 1
      /\ t = w[1] /\ 1 \in 1..Len(w) /\ t \in Calls
      /\ \A i \in 1..Len(v) : i + 1 \in 1..Len(w) /\ v[i] = w[i + 1]
  OBVIOUS
<1> HIDE DEF v, t
<1>2. t \in W
  BY <1>1 DEF Queues
<1>3. \A i, j \in 1..Len(v) : v[i] = v[j] => i = j
  <2> SUFFICES ASSUME NEW i \in 1..Len(v), NEW j \in 1..Len(v), v[i] = v[j] PROVE i = j
    OBVIOUS
  <2>1. i + 1 = j + 1
    BY <1>1 DEF Queues
  <2> QED BY <2>1
<1>4. ASSUME NEW x \in Calls PROVE x \in W \ {t} <=> \E i \in 1..Len(v) : v[i] = x
  <2>1. ASSUME NEW i \in 1..Len(v), v[i] = x PROVE x \in W \ {t}
    <3>1. i + 1 \in 1..Len(w) /\ w[i + 1] = x /\ i + 1 # 1
      BY <1>1, <2>1
    <3> QED BY <1>1, <3>1 DEF Queues
  <2>2. ASSUME x \in W \ {t} PROVE \E i \in 1..Len(v) : v[i] = x
    <3>1. PICK i \in 1..Len(w) : w[i] = x
      BY <2>2 DEF Queues
    <3>2. i # 1
      BY <1>1, <2>2, <3>1
    <3>3. i - 1 \in 1..Len(v) /\ (i - 1) + 1 = i
      BY <1>1, <3>2
    <3> QED BY <1>1, <3>1, <3>3
  <2> QED BY <2>1, <2>2
<1> QED BY <1>1, <1>2, <1>3, <1>4 DEF Queues, v, t

\* The calls that wait for the lock.
Queued == {x \in Calls : stage[x] = "queued"}

\* A call that waits is in the queue exactly once, and no other is: none is passed
\* over or served twice.
QueueRight == Queues(queue, Queued)

\* The queue after a call asks, is served, or does neither.
LEMMA AsksOnce ==
  ASSUME Inv, QueueRight, NEW x \in Calls, stage[x] # "queued",
         stage' = [stage EXCEPT ![x] = "queued"], queue' = Append(queue, x)
  PROVE  QueueRight'
<1>1. queue \in Seq(Calls) /\ stage \in [Calls -> Stages]
  BY DEF Inv, TypeOK
<1>2. x \notin Queued /\ Queued' = Queued \cup {x}
  BY <1>1 DEF Queued
<1>3. Queues(Append(queue, x), Queued \cup {x})
  BY <1>1, <1>2, AskKeeps DEF QueueRight
<1>4. QueueRight' = Queues(queue', Queued')
  BY DEF QueueRight, Queues
<1> QED BY <1>2, <1>3, <1>4

LEMMA ServedOnce ==
  ASSUME Inv, QueueRight, NEW x \in Calls, NEW ops, Granted(x, ops), NEW to, to # "queued",
         Goto(x, "queued", to)
  PROVE  QueueRight'
<1>1. queue \in Seq(Calls) /\ queue # <<>> /\ x = Head(queue) /\ queue' = Tail(queue)
      /\ stage \in [Calls -> Stages]
  BY DEF Inv, TypeOK, Granted
<1>2. Queued' = Queued \ {x}
  BY <1>1 DEF Queued, Goto
<1>3. Queues(Tail(queue), Queued \ {x})
  BY <1>1, GrantKeeps DEF QueueRight
<1>4. QueueRight' = Queues(queue', Queued')
  BY DEF QueueRight, Queues
<1> QED BY <1>1, <1>2, <1>3, <1>4

LEMMA QueueUntouched ==
  ASSUME Inv, QueueRight, NEW x \in Calls, NEW from, NEW to, from # "queued", to # "queued",
         Goto(x, from, to), UNCHANGED queue
  PROVE  QueueRight'
<1>1. Queued' = Queued
  BY DEF Queued, Goto, Inv, TypeOK
<1>2. QueueRight' = Queues(queue', Queued')
  BY DEF QueueRight, Queues
<1> QED BY <1>1, <1>2 DEF QueueRight

LEMMA QueueStays == Inv /\ QueueRight /\ [Next]_vars => QueueRight'
<1> SUFFICES ASSUME Inv, QueueRight, [Next]_vars PROVE QueueRight'
  OBVIOUS
<1>1. ASSUME NEW x \in Calls, NEW o \in Ops, Begin(x, o) PROVE QueueRight'
  <2>1. CASE o = "create"
    BY <1>1, <2>1, QueueUntouched DEF Begin
  <2>2. CASE o # "create"
    BY <1>1, <2>2, AsksOnce DEF Begin, Goto
  <2> QED BY <2>1, <2>2
<1>2. ASSUME NEW x \in Calls, Build(x) PROVE QueueRight'
  <2>1. CASE Goto(x, "building", "done") /\ UNCHANGED <<pc, state, queue>>
    BY <2>1, QueueUntouched
  <2>2. CASE Goto(x, "building", "queued") /\ queue' = Append(queue, x)
    BY <2>2, AsksOnce DEF Goto
  <2> QED BY <1>2, <2>1, <2>2 DEF Build
<1>3. ASSUME NEW x \in Calls, Insert(x) \/ ReturnAtOnce(x) \/ Apply(x) \/ TakeOut(x)
      PROVE  QueueRight'
  BY <1>3, ServedOnce DEF Insert, ReturnAtOnce, Apply, TakeOut
<1>4. ASSUME NEW x \in Calls, Applied(x) \/ Hang(x) \/ Close(x) PROVE QueueRight'
  BY <1>4, QueueUntouched DEF Applied, Hang, Close
<1>5. CASE UNCHANGED vars
  BY <1>5 DEF vars, callVars, QueueRight, Queues, Queued
<1> QED BY <1>1, <1>2, <1>3, <1>4, <1>5 DEF Next, Proceed

\* No request for the lock of the map is lost or served twice.
THEOREM QueueCorrect == Spec => []QueueRight
<1>1. Init => QueueRight
  BY DEF Init, QueueRight, Queues, Queued
<1> QED BY <1>1, QueueStays, Invariant, PTL DEF Spec

\* The first in the queue waits, and may have the lock unless a call of libwebrtc is
\* under way or hangs: there is no other deadlock.  This is what LockIsGranted rests on
\* besides fairness.
OnlyLibwebrtcHolds ==
  queue # <<>> =>
    LET x == Head(queue) IN
    /\ x \in Calls /\ stage[x] = "queued"
    /\ \/ op[x] \in Writing => readers = {}
       \/ \E y \in Calls : stage[y] \in {"applying", "hung"}

THEOREM LibwebrtcIsTheOnlyLock == Spec => []OnlyLibwebrtcHolds
<1>1. ASSUME Inv, QueueRight, queue # <<>> PROVE OnlyLibwebrtcHolds
  <2>1. Head(queue) \in Queued
    BY <1>1, GrantKeeps DEF Inv, TypeOK, QueueRight
  <2>2. readers = {y \in Calls : stage[y] \in {"applying", "hung"}}
    BY <1>1 DEF Inv, TypeOK
  <2>3. readers = {} \/ \E y \in Calls : stage[y] \in {"applying", "hung"}
    BY <2>2
  <2> QED BY <2>1, <2>3 DEF Queued, OnlyLibwebrtcHolds
<1>2. Inv /\ QueueRight => OnlyLibwebrtcHolds
  BY <1>1 DEF OnlyLibwebrtcHolds
<1> QED BY <1>2, QueueCorrect, Invariant, PTL
=============================================================================
