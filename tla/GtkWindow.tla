----------------------------- MODULE GtkWindow -----------------------------
(***************************************************************************)
(* The window of the GTK application (gcontinuity-gtk: app.rs, ui/         *)
(* window.rs, dbus/mod.rs) as a view of the daemon's peers.  One thread    *)
(* asks once for the connected devices, another one subscribes to the      *)
(* signals; the main loop applies what either of them sends it.  The       *)
(* pairing dialogs are PairingDialogs'.                                    *)
(***************************************************************************)
EXTENDS EventBridge

CONSTANTS Unasked, Applied      \* answer, besides a device or NoDevice

ASSUME WindowAssumption ==
  /\ Unasked # Applied
  /\ {Unasked, Applied} \cap (Devices \cup {NoDevice}) = {}

VARIABLES
  winSubs, winStreams, winBlind, winSwapped,     \* run_listener
  answer,    \* of query_initial_state: Unasked, then what the daemon said,
             \* and Applied once the window has taken it
  status,    \* device_status_label
  shown,     \* device_name_label, and the one row of connected_rows
  page,      \* the visible page of the stack
  timers,    \* 300 ms callbacks of on_device_connected that are pending
  late       \* history: the answer was overtaken by a signal that denies it

Listener == INSTANCE SignalStreams
  WITH subs <- winSubs, streams <- winStreams, blind <- winBlind, swapped <- winSwapped

listenVars == <<winSubs, winStreams, winBlind, winSwapped>>
viewVars   == <<status, shown, page, timers>>
windowVars == <<listenVars, answer, late, viewVars>>

\* As built, the labels say that an "Android Device" is "Connected": "none" here,
\* on the page of a device that nobody has opened.
WindowInit ==
  /\ Listener!StreamsInit
  /\ answer = Unasked /\ late = FALSE
  /\ status = "none" /\ shown = NoDevice
  /\ page = "waiting" /\ timers = 0

----------------------------------------------------------------------------
WindowHears(e) ==
  /\ Listener!Hear(e, answer # Unasked \/ winSubs # {})
  /\ UNCHANGED <<answer, late, viewVars>>

WindowSubscribes(k) == Listener!Subscribe(k) /\ UNCHANGED <<answer, late, viewVars>>

\* do_query, in a thread of its own: any one of the connected devices.
AskDaemon ==
  /\ answer = Unasked
  /\ SomeConnected(answer')
  /\ UNCHANGED <<listenVars, late, viewVars>>

\* on_device_connected
ShowConnected(d) ==
  /\ status' = "Connected" /\ shown' = d
  /\ page' = "connected" /\ timers' = timers + 1

\* (Mutant: only the page changes.)
ShowDisconnectedUnlabelled ==
  page' = "waiting" /\ UNCHANGED <<status, shown, timers>>

\* on_device_disconnected: whichever device it was.
ShowDisconnected ==
  /\ status' = "Disconnected" /\ page' = "waiting"
  /\ UNCHANGED <<shown, timers>>

\* The answer reaches the main loop.
ApplyAnswer ==
  /\ answer \notin {Unasked, Applied}
  /\ answer' = Applied
  /\ IF answer = NoDevice THEN UNCHANGED viewVars ELSE ShowConnected(answer)
  /\ UNCHANGED <<listenVars, late>>

\* The listener's thread takes a signal and the main loop handles it.
HandleSignal(e) ==
  /\ Listener!Take(e)
  /\ IF e.kind = "conn" THEN ShowConnected(e.dev) ELSE ShowDisconnected
  /\ late' = (late \/ (answer \in Devices /\ (e.kind = "conn" => e.dev # answer)))
  /\ UNCHANGED answer

Turn(to) == page' = to /\ UNCHANGED <<listenVars, answer, late, status, shown>>

\* 300 ms after on_device_connected, whatever has happened since.
OpenDevicePage ==
  /\ timers > 0 /\ timers' = timers - 1
  /\ Turn("device")

\* The row of the device, and "Back to devices".  The waiting page leads
\* nowhere.
ActivateRow == page = "connected" /\ Turn("device") /\ UNCHANGED timers
ActivateBack == page = "device" /\ Turn("waiting") /\ UNCHANGED timers

WindowNext ==
  \/ \E k \in Kinds : WindowSubscribes(k)
  \/ AskDaemon \/ ApplyAnswer
  \/ \E e \in Events : HandleSignal(e)
  \/ OpenDevicePage \/ ActivateRow \/ ActivateBack

----------------------------------------------------------------------------
WindowTypeOK ==
  /\ Listener!StreamsTypeOK(Events)
  /\ answer \in Devices \cup {NoDevice, Unasked, Applied}
  /\ status \in {"none", "Connected", "Disconnected"}
  /\ shown \in Devices \cup {NoDevice}
  /\ page \in {"waiting", "connected", "device"}
  /\ timers \in 0..MaxEvents + 1
  /\ late \in BOOLEAN

\* Nothing is on its way to the window, and nothing went wrong on the way: the
\* bridge did not lag, no signal fell between query and subscription, the
\* answer was not overtaken, and no two signals changed places.
WindowSettled == Delivered /\ answer = Applied /\ Listener!Listening
WindowWell    == ~lagged /\ ~winBlind /\ ~late /\ ~winSwapped

\* The window never keeps calling a device connected that is gone, however
\* many come and go, unless the daemon was restarted under it; and for one
\* device at a time it also misses none.
WindowIsRight ==
  WindowSettled /\ WindowWell =>
    /\ status = "Connected" => link[shown] = "up" \/ shown \in orphaned
    /\ ~together =>
         \A d \in Devices : link[d] = "up" => status = "Connected" /\ shown = d
============================================================================
