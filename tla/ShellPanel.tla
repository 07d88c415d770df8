----------------------------- MODULE ShellPanel -----------------------------
(***************************************************************************)
(* The panel of the GNOME Shell extension (gcontinuity-shell-ext/          *)
(* extension.js) as a view of the daemon's peers.  GNOME Shell enables and *)
(* disables an extension as often as it likes (whenever the screen is      *)
(* locked, for example), while the D-Bus proxy is built asynchronously:    *)
(* its callback may run in an extension that was disabled meanwhile.       *)
(***************************************************************************)
EXTENDS EventBridge

CONSTANT MaxEnables   \* bound: calls of enable()

ASSUME PanelAssumption == MaxEnables \in Nat

VARIABLES
  panel,     \* "off", "on", or "broken" when disable() has thrown
  enables,   \* number of calls of enable()
  building,  \* proxies under construction, numbered by their enable()
  wired,     \* proxies whose two handler ids are in _signalIds
  panelQ,    \* signals that the main loop has not dispatched, and the
             \* proxies that they are for
  panelId,   \* _connectedDeviceId
  label,     \* the device in the text of _label
  hasty      \* history: disable() came while a proxy was under construction

panelVars == <<panel, enables, building, wired, panelQ, panelId, label, hasty>>

PanelInit ==
  /\ panel = "off" /\ enables = 0 /\ building = {} /\ wired = {}
  /\ panelQ = <<>> /\ panelId = NoDevice /\ label = NoDevice
  /\ hasty = FALSE

----------------------------------------------------------------------------
\* A proxy listens from the start of its construction.
PanelHears(e) ==
  /\ panelQ' = IF building \cup wired # {} /\ e.kind \in Kinds
               THEN Append(panelQ, [sig |-> e, to |-> building \cup wired]) ELSE panelQ
  /\ UNCHANGED <<panel, enables, building, wired, panelId, label, hasty>>

\* enable: a new label and a new proxy; the rest is as disable left it.
PanelEnable ==
  /\ panel = "off" /\ enables < MaxEnables
  /\ panel' = "on" /\ enables' = enables + 1
  /\ building' = building \cup {enables + 1}
  /\ label' = NoDevice
  /\ UNCHANGED <<wired, panelQ, panelId, hasty>>

\* _setConnected; a disabled extension has no label.
SetConnected(d) ==
  panelId' = d /\ label' = IF panel = "off" THEN label ELSE d

\* (Mutant: no query.)
ProxyReadyUnasked(p) ==
  /\ p \in building
  /\ building' = building \ {p} /\ wired' = wired \cup {p}
  /\ UNCHANGED <<panel, enables, panelQ, hasty, panelId, label>>

\* The callback of a proxy that could not be built.
ProxyFails(p) ==
  /\ p \in building /\ building' = building \ {p}
  /\ UNCHANGED <<panel, enables, wired, panelQ, panelId, label, hasty>>

\* The callback of any other, enabled or not: the handlers, then the query,
\* which blocks the main loop until it is answered.
ProxyReady(p) ==
  /\ p \in building
  /\ building' = building \ {p} /\ wired' = wired \cup {p}
  /\ IF Registry = {} THEN UNCHANGED <<panelId, label>>
                      ELSE \E d \in Registry : SetConnected(d)
  /\ UNCHANGED <<panel, enables, panelQ, hasty>>

\* (Mutant: the label stays.)
DispatchUnlabelled ==
  /\ panelQ # <<>> /\ panelQ' = Tail(panelQ)
  /\ LET e == Head(panelQ).sig IN
     IF Head(panelQ).to \cap wired = {} THEN UNCHANGED <<panelId, label>>
     ELSE IF e.kind = "conn" THEN SetConnected(e.dev)
     ELSE panelId' = (IF panelId = e.dev THEN NoDevice ELSE panelId) /\ UNCHANGED label
  /\ UNCHANGED <<panel, enables, building, wired, hasty>>

\* A signal is dispatched to the handlers of all its proxies; twice is as once.
PanelDispatch ==
  /\ panelQ # <<>> /\ panelQ' = Tail(panelQ)
  /\ LET e == Head(panelQ).sig
         handled == Head(panelQ).to \cap wired # {}
     IN CASE handled /\ e.kind = "conn" -> SetConnected(e.dev)
          [] handled /\ e.kind = "disc" /\ panelId = e.dev ->
               panelId' = NoDevice /\ label' = NoDevice
          [] OTHER -> UNCHANGED <<panelId, label>>
  /\ UNCHANGED <<panel, enables, building, wired, hasty>>

\* All ids in _signalIds are those of the current proxy.
OneProxy == \A p, q \in wired : p = q

\* disable: disconnects the handlers from the current proxy.  A proxy still
\* under construction is forgotten, not stopped.
PanelDisable ==
  /\ panel = "on" /\ OneProxy
  /\ panel' = "off" /\ wired' = {}
  /\ panelId' = NoDevice /\ label' = NoDevice
  /\ hasty' = (hasty \/ building # {})
  /\ UNCHANGED <<enables, building, panelQ>>

\* Every proxy numbers its handlers from one.  With the ids of two proxies in
\* _signalIds the first two disconnect the handlers of the current one, whichever
\* was ready last; on the next disconnectSignal throws, and disable ends there.
PanelDisableThrows ==
  /\ panel = "on" /\ ~OneProxy
  /\ panel' = "broken"
  /\ \E current \in wired : wired' = wired \ {current}
  /\ UNCHANGED <<enables, building, panelQ, panelId, label, hasty>>

PanelNext ==
  \/ PanelEnable
  \/ \E p \in building : ProxyReady(p) \/ ProxyFails(p)
  \/ PanelDispatch
  \/ PanelDisable \/ PanelDisableThrows

----------------------------------------------------------------------------
PanelTypeOK ==
  /\ panel \in {"off", "on", "broken"}
  /\ enables \in 0..MaxEnables
  /\ building \subseteq 1..enables /\ wired \subseteq 1..enables
  /\ panelQ \in Seq([sig : Events, to : SUBSET (1..enables)])
  /\ panelId \in Devices \cup {NoDevice} /\ label \in Devices \cup {NoDevice}
  /\ hasty \in BOOLEAN

PanelSettled == Delivered /\ panel = "on" /\ building = {} /\ panelQ = <<>>

\* The panel never keeps showing a device that is gone, however many devices
\* come and go and however often, and how hastily, it is disabled and enabled,
\* unless the daemon was restarted; and with a proxy, as long as one device is
\* connected at a time, it misses none: the query and the signals leave no gap,
\* nor do the proxies that a hasty disable() left behind make one.  A bridge
\* that lags is an excuse for both.
PanelIsRight ==
  PanelSettled /\ ~lagged =>
    /\ panelId # NoDevice => link[panelId] = "up" \/ panelId \in orphaned
    /\ ~together /\ wired # {} => \A d \in Devices : link[d] = "up" => panelId = d

\* What the panel says is what its Disconnect item would disconnect, unless it
\* remembers a device from before the last enable(): which takes a hasty
\* disable(), and an event that never came or a new proxy that could not be
\* built.
LabelTellsId ==
  PanelSettled /\ (hasty => ~lagged /\ panelId \notin orphaned /\ enables \in wired) =>
    label = panelId
=============================================================================
