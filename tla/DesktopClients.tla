--------------------------- MODULE DesktopClients ---------------------------
(***************************************************************************)
(* The desktop's views of the daemon's peers, side by side: the window of  *)
(* the GTK application, its connection page, and the panel of the GNOME    *)
(* Shell extension.  They share nothing but the daemon's signals.          *)
(***************************************************************************)
EXTENDS GtkWindow, ShellPanel, ConnectionPage

CONSTANT Choices   \* sets of views that the user may have on the desktop

ASSUME ChoicesAssumption == Choices \subseteq SUBSET {"window", "panel", "page"}

VARIABLE running   \* the views that are there

vars == <<bridgeVars, windowVars, panelVars, pageVars, running>>

Init ==
  /\ BridgeInit /\ WindowInit /\ PanelInit /\ PageInit
  /\ running \in Choices

PeerStep == PeerNext /\ UNCHANGED <<windowVars, panelVars, pageVars, running>>

\* The bridge emits a signal, and every view that listens has it queued.
Signal ==
  /\ \E e \in Events :
       /\ RecvEvent(e)
       /\ IF "window" \in running THEN WindowHears(e) ELSE UNCHANGED windowVars
       /\ IF "panel" \in running THEN PanelHears(e) ELSE UNCHANGED panelVars
       /\ IF "page" \in running THEN PageHears(e) ELSE UNCHANGED pageVars
  /\ UNCHANGED running

WindowStep == /\ "window" \in running /\ WindowNext
              /\ UNCHANGED <<bridgeVars, panelVars, pageVars, running>>

PanelStep  == /\ "panel" \in running /\ PanelNext
              /\ UNCHANGED <<bridgeVars, windowVars, pageVars, running>>

PageStep   == /\ "page" \in running /\ PageNext
              /\ UNCHANGED <<bridgeVars, windowVars, panelVars, running>>

Next == PeerStep \/ Signal \/ WindowStep \/ PanelStep \/ PageStep

Spec == Init /\ [][Next]_vars

TypeOK == /\ BridgeTypeOK /\ WindowTypeOK /\ PanelTypeOK /\ PageTypeOK
          /\ running \in Choices
=============================================================================
