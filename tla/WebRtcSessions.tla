--------------------------- MODULE WebRtcSessions ---------------------------
(***************************************************************************)
(* WebRtcManager (gcontinuity-daemon/src/transport/webrtc/                 *)
(* peer_connection.rs): a map from session ids to peer connections behind  *)
(* a tokio RwLock.  Calls of its methods run concurrently; signalling      *)
(* keeps its read guard while libwebrtc works on the peer connection.      *)
(***************************************************************************)
EXTENDS Naturals, Sequences

CONSTANTS
  Calls,     \* calls of the manager's methods, by any task
  Ids,       \* session ids
  IdOf,      \* the session_id that each is called with
  NoCall     \* "no session"

ASSUME SessionsAssumption == NoCall \notin Calls /\ IdOf \in [Calls -> Ids]

VARIABLES
  sessions,  \* the map; a session is named by the create_session that made it
  pc,        \* the peer connection of each session
  state,     \* WebRtcSession.state
  op,        \* method of each call
  stage,     \* how far it has come
  on,        \* the session that it works on
  queue,     \* calls that wait for the lock: tokio's RwLock is fair
  readers,   \* calls that hold a read guard
  replaced   \* history: sessions that lost their entry to a new one

callVars == <<op, stage, on, queue, readers>>
vars == <<sessions, pc, state, callVars, replaced>>

Ops      == {"create", "answer", "candidate", "close", "list"}
Writing  == {"create", "close"}
\* idle; building (new_peer_connection); queued; applying (libwebrtc has the
\* answer or candidate); hung (and never returns); closing (pc.close()); done.
Stages   == {"idle", "building", "queued", "applying", "hung", "closing", "done"}

Init ==
  /\ sessions = [i \in Ids |-> NoCall]
  /\ pc = [x \in Calls |-> "none"] /\ state = [x \in Calls |-> "none"]
  /\ op = [x \in Calls |-> "list"]
  /\ stage = [x \in Calls |-> "idle"] /\ on = [x \in Calls |-> NoCall]
  /\ queue = <<>> /\ readers = {} /\ replaced = {}

Goto(x, from, to) == stage[x] = from /\ stage' = [stage EXCEPT ![x] = to]

----------------------------------------------------------------------------
\* (Mutant: close_session looks its session up under a read guard that it
\* still holds when it asks for the write guard.)
BeginUpgrading(x, o) ==
  /\ Goto(x, "idle", IF o = "create" THEN "building" ELSE "queued")
  /\ op' = [op EXCEPT ![x] = o]
  /\ queue' = IF o = "create" THEN queue ELSE Append(queue, x)
  /\ readers' = IF o = "close" THEN readers \cup {x} ELSE readers
  /\ UNCHANGED <<sessions, pc, state, on, replaced>>

\* A method is called.  All but create_session ask for the lock first.
Begin(x, o) ==
  /\ Goto(x, "idle", IF o = "create" THEN "building" ELSE "queued")
  /\ op' = [op EXCEPT ![x] = o]
  /\ queue' = IF o = "create" THEN queue ELSE Append(queue, x)
  /\ UNCHANGED <<sessions, pc, state, on, readers, replaced>>

\* new_peer_connection; if it fails, so does create_session.
Build(x) ==
  /\ \/ Goto(x, "building", "done") /\ UNCHANGED <<pc, state, queue>>
     \/ /\ Goto(x, "building", "queued") /\ queue' = Append(queue, x)
        /\ pc' = [pc EXCEPT ![x] = "open"]
        /\ state' = [state EXCEPT ![x] = "Signaling"]
  /\ UNCHANGED <<sessions, op, on, readers, replaced>>

\* The lock is granted in order: to a writer when no reader is left.
Granted(x, ops) ==
  /\ queue # <<>> /\ x = Head(queue) /\ op[x] \in ops
  /\ op[x] \in Writing => readers = {}
  /\ queue' = Tail(queue)

\* (Mutant: the first session with an id keeps it.)
InsertFirst(x) ==
  /\ Granted(x, {"create"}) /\ Goto(x, "queued", "done")
  /\ sessions' = [sessions EXCEPT ![IdOf[x]] = IF @ = NoCall THEN x ELSE @]
  /\ UNCHANGED <<pc, state, op, on, readers, replaced>>

\* insert drops the session that had the id; its connection is not closed.
Insert(x) ==
  /\ Granted(x, {"create"}) /\ Goto(x, "queued", "done")
  /\ sessions' = [sessions EXCEPT ![IdOf[x]] = x]
  /\ replaced' = replaced \cup ({sessions[IdOf[x]]} \ {NoCall})
  /\ UNCHANGED <<pc, state, op, on, readers>>

\* active_sessions, and any call for an unknown id.
ReturnAtOnce(x) ==
  /\ Granted(x, Ops \ {"create"}) /\ Goto(x, "queued", "done")
  /\ op[x] = "list" \/ sessions[IdOf[x]] = NoCall
  /\ UNCHANGED <<sessions, pc, state, op, on, readers, replaced>>

\* (Mutant: the guard is dropped before libwebrtc is called.)
ApplyUnguarded(x) ==
  /\ Granted(x, {"answer", "candidate"}) /\ Goto(x, "queued", "applying")
  /\ sessions[IdOf[x]] # NoCall
  /\ on' = [on EXCEPT ![x] = sessions[IdOf[x]]]
  /\ UNCHANGED <<sessions, pc, state, op, readers, replaced>>

\* set_remote_description or add_ice_candidate, under the read guard.
Apply(x) ==
  /\ Granted(x, {"answer", "candidate"}) /\ Goto(x, "queued", "applying")
  /\ sessions[IdOf[x]] # NoCall
  /\ on' = [on EXCEPT ![x] = sessions[IdOf[x]]]
  /\ readers' = readers \cup {x}
  /\ UNCHANGED <<sessions, pc, state, op, replaced>>

\* libwebrtc has done it, or refused; an answer moves the session on.
Applied(x) ==
  /\ Goto(x, "applying", "done")
  /\ \/ UNCHANGED state
     \/ op[x] = "answer" /\ state' = [state EXCEPT ![on[x]] = "Connecting"]
  /\ readers' = readers \ {x}
  /\ UNCHANGED <<sessions, pc, op, on, queue, replaced>>

Hang(x) ==
  /\ Goto(x, "applying", "hung")
  /\ UNCHANGED <<sessions, pc, state, op, on, queue, readers, replaced>>

\* close_session removes the session and drops the guard; nobody else knows
\* the session now, so that its state can be set in the same step.
TakeOut(x) ==
  /\ Granted(x, {"close"}) /\ Goto(x, "queued", "closing")
  /\ sessions[IdOf[x]] # NoCall
  /\ sessions' = [sessions EXCEPT ![IdOf[x]] = NoCall]
  /\ on' = [on EXCEPT ![x] = sessions[IdOf[x]]]
  /\ state' = [state EXCEPT ![sessions[IdOf[x]]] = "Closing"]
  /\ UNCHANGED <<pc, op, readers, replaced>>

\* pc.close(), which may fail.
Close(x) ==
  /\ Goto(x, "closing", "done")
  /\ \E to \in {"closed", "failed"} : pc' = [pc EXCEPT ![on[x]] = to]
  /\ UNCHANGED <<sessions, state, op, on, queue, readers, replaced>>

Proceed(x) ==
  \/ Build(x) \/ Insert(x) \/ ReturnAtOnce(x) \/ Apply(x) \/ Applied(x)
  \/ TakeOut(x) \/ Close(x)

Next == \E x \in Calls : Proceed(x) \/ Hang(x) \/ \E o \in Ops : Begin(x, o)

Spec == Init /\ [][Next]_vars

\* Tasks that can run are run, and a call of libwebrtc returns or hangs.
FairSpec == Spec /\ \A x \in Calls : WF_vars(Proceed(x))

----------------------------------------------------------------------------
TypeOK ==
  /\ sessions \in [Ids -> Calls \cup {NoCall}]
  /\ pc \in [Calls -> {"none", "open", "closed", "failed"}]
  /\ state \in [Calls -> {"none", "Signaling", "Connecting", "Closing"}]
  /\ op \in [Calls -> Ops]
  /\ stage \in [Calls -> Stages] /\ on \in [Calls -> Calls \cup {NoCall}]
  /\ queue \in Seq(Calls)
  /\ readers = {x \in Calls : stage[x] \in {"applying", "hung"}}
  /\ replaced \subseteq Calls

\* libwebrtc never works on a connection that close_session has begun to
\* close, and the map never offers one.
WorksOnOpen ==
  /\ \A x \in Calls : stage[x] \in {"applying", "hung"} =>
       pc[on[x]] = "open" /\ state[on[x]] # "Closing"
  /\ \A i \in Ids : sessions[i] # NoCall =>
       pc[sessions[i]] = "open" /\ state[sessions[i]] # "Closing"

\* Every connection that is open can still be closed through the manager, or
\* its create or close is under way: unless a session with the same id took
\* its place, which leaves it open for good.
OpenIsReachable ==
  \A k \in Calls : pc[k] = "open" =>
    \/ stage[k] = "queued" \/ sessions[IdOf[k]] = k \/ k \in replaced
    \/ \E x \in Calls : stage[x] = "closing" /\ on[x] = k

\* A late answer does not bring a closing session back.
ClosingSticks ==
  [][\A k \in Calls : state[k] = "Closing" => state'[k] = "Closing"]_state

\* Whoever waits for the lock gets it, unless some call of libwebrtc never
\* returns: then one device's session can block every other one's.
LockIsGranted ==
  \A x \in Calls : stage[x] = "queued" ~>
    stage[x] # "queued" \/ \E y \in Calls : stage[y] = "hung"
=============================================================================
