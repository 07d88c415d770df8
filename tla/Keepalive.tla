----------------------------- MODULE Keepalive -----------------------------
(***************************************************************************)
(* The keepalive of one connection: the select! loop of handle_peer        *)
(* (transport/websocket_server.rs) seen with a clock.  A sleep branch of   *)
(* select! exists only if its precondition held when select! was entered,  *)
(* and starts from zero at every entry; an entry happens once per handled  *)
(* event.                                                                  *)
(***************************************************************************)
EXTENDS Integers

CONSTANTS
  PingAfter,   \* 30 s: required silence, and the length of the ping sleep
  PongWait,    \* 10 s: the length of the pong sleep
  MaxSilence   \* bound: silence is not counted beyond

ASSUME KeepaliveAssumption ==
  /\ PingAfter \in Nat \ {0} /\ PongWait \in Nat \ {0}
  /\ MaxSilence \in Nat /\ MaxSilence > 2 * PingAfter + PongWait

VARIABLES
  status,      \* "open", "timedOut" (pong timeout), "closed" (any other end)
  silence,     \* time since last_rx, the last text message
  pending,     \* ping_pending: a Ping is unanswered
  pingTimer,   \* what is left of each sleep of the current select!, or Off
  pongTimer

keepaliveVars == <<status, silence, pending, pingTimer, pongTimer>>

Off == -1

KeepaliveInit ==
  /\ status = "open"
  /\ silence = 0 /\ pending = FALSE
  /\ pingTimer = Off /\ pongTimer = Off

\* (Mutants: the ping sleep without its silence condition; the condition of
\* the pong sleep negated.)
EnterSelectEager(quiet, unanswered) ==
  /\ silence' = quiet /\ pending' = unanswered
  /\ pingTimer' = IF ~unanswered THEN PingAfter ELSE Off
  /\ pongTimer' = IF unanswered THEN PongWait ELSE Off

EnterSelectNegated(quiet, unanswered) ==
  /\ silence' = quiet /\ pending' = unanswered
  /\ pingTimer' = IF quiet >= PingAfter /\ ~unanswered THEN PingAfter ELSE Off
  /\ pongTimer' = IF unanswered THEN Off ELSE PongWait

\* select! is entered with these values of last_rx.elapsed() and ping_pending.
EnterSelect(quiet, unanswered) ==
  /\ silence' = quiet /\ pending' = unanswered
  /\ pingTimer' = IF quiet >= PingAfter /\ ~unanswered THEN PingAfter ELSE Off
  /\ pongTimer' = IF unanswered THEN PongWait ELSE Off

\* Any text message, even one that does not parse.
RecvText ==
  /\ status = "open"
  /\ EnterSelect(0, FALSE)
  /\ UNCHANGED status

\* A binary message or a WebSocket control frame: not a sign of life here.
RecvOther ==
  /\ status = "open"
  /\ EnterSelect(silence, pending)
  /\ UNCHANGED status

\* A packet from peer_rx was written to the socket.
SendQueued ==
  /\ status = "open"
  /\ EnterSelect(silence, pending)
  /\ UNCHANGED status

PingDue ==
  /\ status = "open" /\ pingTimer = 0
  /\ EnterSelect(silence, TRUE)
  /\ UNCHANGED status

PongTimeout ==
  /\ status = "open" /\ pongTimer = 0
  /\ status' = "timedOut"
  /\ UNCHANGED <<silence, pending, pingTimer, pongTimer>>

\* Close frame, end of stream, read or write error, shutdown.
OtherEnd ==
  /\ status = "open"
  /\ status' = "closed"
  /\ UNCHANGED <<silence, pending, pingTimer, pongTimer>>

CountDown(t) == IF t > 0 THEN t - 1 ELSE t

Tick ==
  /\ status = "open"
  /\ silence' = IF silence < MaxSilence THEN silence + 1 ELSE silence
  /\ pingTimer' = CountDown(pingTimer)
  /\ pongTimer' = CountDown(pongTimer)
  /\ UNCHANGED <<status, pending>>

Event == RecvText \/ RecvOther \/ SendQueued \/ PingDue \/ PongTimeout \/ OtherEnd

KeepaliveNext == Event \/ Tick

\* A sleep may be served late.
KeepaliveSpec == KeepaliveInit /\ [][KeepaliveNext]_keepaliveVars

FairKeepalive ==
  /\ KeepaliveSpec
  /\ WF_keepaliveVars(Tick) /\ WF_keepaliveVars(PingDue) /\ WF_keepaliveVars(PongTimeout)

\* A sleep is served before time goes on: nothing here is the scheduler's fault.
Punctual == Event \/ (pingTimer # 0 /\ pongTimer # 0 /\ Tick)

PunctualKeepalive == KeepaliveInit /\ [][Punctual]_keepaliveVars

----------------------------------------------------------------------------
Timer(n) == 0..n \cup {Off}

KeepaliveTypeOK ==
  /\ status \in {"open", "timedOut", "closed"}
  /\ silence \in 0..MaxSilence
  /\ pending \in BOOLEAN
  /\ pingTimer \in Timer(PingAfter)
  /\ pongTimer \in Timer(PongWait)

\* A peer is given up as dead only after two ping intervals and the pong wait
\* (70 s) without a text message from it, whatever else arrived or was sent in
\* the meantime and however late the timers are.
TimeoutNeedsSilence ==
  status = "timedOut" => silence >= 2 * PingAfter + PongWait

\* The inductive invariant: how long the silence has lasted at each stage.
StageInv ==
  /\ pending => silence >= 2 * PingAfter /\ pingTimer = Off
  /\ ~pending => pongTimer = Off
  /\ pingTimer # Off => silence >= 2 * PingAfter - pingTimer
  /\ pongTimer # Off => silence >= 2 * PingAfter + PongWait - pongTimer

KeepaliveInv == KeepaliveTypeOK /\ StageInv /\ TimeoutNeedsSilence

\* An unanswered Ping ends the connection, provided that the loop is sooner or
\* later left alone: each packet it sends and each frame it ignores while the
\* Ping is unanswered starts the pong sleep afresh.
UnansweredPingEnds ==
  <>[][~(RecvOther \/ SendQueued)]_keepaliveVars => (pending ~> (~pending \/ status # "open"))

----------------------------------------------------------------------------
\* "Keepalive probe sent every 30 s of silence" (transport/packet.rs:50): more
\* silence than that means that a probe is out.
ProbedWhenSilent ==
  status = "open" /\ silence > PingAfter => pending
=============================================================================
