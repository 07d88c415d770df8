--------------------------- MODULE SignalStreams ---------------------------
(***************************************************************************)
(* A listener of the GTK application: one zbus stream for each kind of     *)
(* signal, subscribed to one after the other, and a select! that takes     *)
(* from any stream that has a signal.  The window's run_listener           *)
(* (gcontinuity-gtk/src/dbus/mod.rs) and the connection page               *)
(* (pages/connection.rs) have one each.  Streams of other kinds are left   *)
(* out.                                                                    *)
(***************************************************************************)
EXTENDS Naturals, Sequences

CONSTANT Kinds   \* "conn" and "disc"

VARIABLES
  subs,      \* kinds subscribed to
  streams,   \* signals of each kind that select! has not taken
  blind,     \* history: a signal was sent before its kind was subscribed to
  swapped    \* history: a signal was taken before an earlier one

StreamsInit ==
  /\ subs = {} /\ streams = [k \in Kinds |-> <<>>]
  /\ blind = FALSE /\ swapped = FALSE

\* DeviceConnected first.
Subscribe(k) ==
  /\ k \notin subs /\ (k = "disc" => "conn" \in subs)
  /\ subs' = subs \cup {k}
  /\ UNCHANGED <<streams, blind, swapped>>

\* A signal is sent; begun: the listener has begun to watch.
Hear(e, begun) ==
  /\ streams' = IF e.kind \in subs
                THEN [streams EXCEPT ![e.kind] = Append(@, e)] ELSE streams
  /\ blind' = (blind \/ (begun /\ e.kind \in Kinds \ subs))
  /\ UNCHANGED <<subs, swapped>>

Take(e) ==
  /\ e.kind \in Kinds /\ streams[e.kind] # <<>> /\ e = Head(streams[e.kind])
  /\ streams' = [streams EXCEPT ![e.kind] = Tail(@)]
  /\ swapped' = (swapped \/ \E o \in Kinds :
                   streams[o] # <<>> /\ Head(streams[o]).n < e.n)
  /\ UNCHANGED <<subs, blind>>

StreamsTypeOK(Signals) ==
  /\ subs \subseteq Kinds /\ streams \in [Kinds -> Seq(Signals)]
  /\ blind \in BOOLEAN /\ swapped \in BOOLEAN

Listening == subs = Kinds /\ \A k \in Kinds : streams[k] = <<>>
============================================================================
