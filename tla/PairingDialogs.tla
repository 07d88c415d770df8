--------------------------- MODULE PairingDialogs ---------------------------
(***************************************************************************)
(* How a pairing request reaches the user and the answer reaches the       *)
(* request: the event and the wait of perform_handshake (transport/        *)
(* websocket_server.rs), the bridge and the D-Bus methods accept_pairing   *)
(* and reject_pairing (dbus/transport_iface.rs), and the dialogs of the    *)
(* GTK application (gcontinuity-gtk: main.rs, app.rs, ui/window.rs,        *)
(* ui/pairing_dialog.rs, dbus/mod.rs).                                     *)
(*                                                                         *)
(* Every activation of the application, also of one that runs already,     *)
(* builds another window with a listener of its own, so that a request     *)
(* opens one dialog in each.  A dialog knows the device that asks, not the *)
(* request: its call resolves whatever request of that device is pending   *)
(* when it arrives.                                                        *)
(***************************************************************************)
EXTENDS PairingGate

CONSTANTS
  DevOf,     \* the device that asks in each connection
  Windows    \* activations of one run of the application

ASSUME DialogAssumption == DevOf \in [Conns -> Devices]

Dialogs == Conns \X Windows     \* the dialog of a request in a window

VARIABLES
  stage,     \* how far the event of each connection's request has come
  dialog,    \* state of each dialog
  clicked,   \* its response
  window,    \* state of each window
  cleaning,  \* handshakes whose own 120 s ran out: gate.remove is next
  decider,   \* history: the dialog whose call decided a connection's request
  crowded    \* history: connections that asked while the event, a dialog or a
             \* call of another request of their device was still about

dialogVars == <<stage, dialog, clicked, window, cleaning, decider, crowded>>
requestVars == <<gateVars, dialogVars>>

NoDialog == <<NoConn, NoConn>>

(***************************************************************************)
(* stage:  none, the device has not asked; unsent, registered and          *)
(*   PairingRequested next; sent, in the broadcast channel; over, the      *)
(*   bridge has emitted or skipped it.                                     *)
(* dialog: none; shown; calling, answered, and a thread calls              *)
(*   accept_pairing or reject_pairing; closed, the call has returned;      *)
(*   missed, it ended before it could call.                                *)
(* window: none; open; listening, once its listener has subscribed;        *)
(*   closed, while the application and the listener go on.                 *)
(***************************************************************************)
Stages       == {"none", "unsent", "sent", "over"}
DialogStates == {"none", "shown", "calling", "closed", "missed"}
WindowStates == {"none", "open", "listening", "closed"}

DialogInit ==
  /\ GateInit
  /\ stage = [c \in Conns |-> "none"]
  /\ dialog = [x \in Dialogs |-> "none"]
  /\ clicked = [x \in Dialogs |-> "none"]
  /\ window = [w \in Windows |-> "none"]
  /\ cleaning = {}
  /\ decider = [c \in Conns |-> NoDialog] /\ crowded = {}

\* The request of c may still reach the user, or the answer to it the daemon.
OnItsWay(c) ==
  \/ stage[c] \in {"unsent", "sent"}
  \/ \E w \in Windows : dialog[<<c, w>>] \in {"shown", "calling"}

Rivals(c) == {x \in Conns \ {c} : DevOf[x] = DevOf[c] /\ OnItsWay(x)}

Pass(c, from, to) == stage[c] = from /\ stage' = [stage EXCEPT ![c] = to]

----------------------------------------------------------------------------
Request(c) ==
  /\ Pass(c, "none", "unsent")
  /\ GateRegister(DevOf[c], c)
  /\ crowded' = IF Rivals(c) = {} THEN crowded ELSE crowded \cup {c}
  /\ UNCHANGED <<dialog, clicked, window, cleaning, decider>>

SendRequested(c) ==
  /\ Pass(c, "unsent", "sent")
  /\ UNCHANGED <<gateVars, dialog, clicked, window, cleaning, decider, crowded>>

\* The 30 s around the handshake leave the entry in the gate; after its own
\* 120 s, should they run out first, the handshake takes it away.
GiveUp(c) ==
  /\ chan[c] = "open" /\ stage[c] # "unsent"
  /\ GateAbandon(c)
  /\ cleaning' = cleaning \/ cleaning' = cleaning \cup {c}
  /\ UNCHANGED <<stage, dialog, clicked, window, decider, crowded>>

\* (Mutant: the timed-out request is rejected where it should be removed.)
CleanUpRejects(c) ==
  /\ c \in cleaning /\ cleaning' = cleaning \ {c}
  /\ GateResolve(DevOf[c], "rejected")
  /\ UNCHANGED <<stage, dialog, clicked, window, decider, crowded>>

CleanUp(c) ==
  /\ c \in cleaning /\ cleaning' = cleaning \ {c}
  /\ GateRemove(DevOf[c])
  /\ UNCHANGED <<stage, dialog, clicked, window, decider, crowded>>

\* Those that show a dialog for a signal of now: the listening windows, and
\* perhaps a listener whose window is closed; what becomes of a dialog on a closed
\* window is up to the toolkit.
Audience == {{w \in Windows : window[w] = "listening"} \cup left :
               left \in SUBSET {w \in Windows : window[w] = "closed"}}

\* (Mutant: a dialog without an application.)
EmitAlways(c) ==
  /\ Pass(c, "sent", "over")
  /\ dialog' = [x \in Dialogs |-> IF x[1] = c THEN "shown" ELSE dialog[x]]
  /\ UNCHANGED <<gateVars, clicked, window, cleaning, decider, crowded>>

\* The bridge emits PairingRequested.  A signal that nobody listens to is not
\* repeated, and no method lists the pending requests.
Emit(c) ==
  /\ Pass(c, "sent", "over")
  /\ \E to \in Audience :
       dialog' = [x \in Dialogs |-> IF x[1] = c /\ x[2] \in to THEN "shown" ELSE dialog[x]]
  /\ UNCHANGED <<gateVars, clicked, window, cleaning, decider, crowded>>

\* The channel was full: the bridge skips the event.
Lag(c) ==
  /\ Pass(c, "sent", "over")
  /\ UNCHANGED <<gateVars, dialog, clicked, window, cleaning, decider, crowded>>

----------------------------------------------------------------------------
\* on_activate builds a window; run_listener has subscribed.
OpenWindow(w) ==
  /\ \/ window[w] = "none" /\ window' = [window EXCEPT ![w] = "open"]
     \/ window[w] = "open" /\ window' = [window EXCEPT ![w] = "listening"]
  /\ UNCHANGED <<gateVars, stage, dialog, clicked, cleaning, decider, crowded>>

\* Accept, Reject, or Escape, which rejects.
Answer(x, v) ==
  /\ dialog[x] = "shown" /\ dialog' = [dialog EXCEPT ![x] = "calling"]
  /\ clicked' = [clicked EXCEPT ![x] = v]
  /\ UNCHANGED <<gateVars, stage, window, cleaning, decider, crowded>>

\* A window is closed.  Its dialogs go with it, without an answer or with that of
\* a closed dialog, a rejection; its listener stays.
CloseWindow(w) ==
  /\ window[w] \in {"open", "listening"}
  /\ window' = [window EXCEPT ![w] = "closed"]
  /\ LET its == {x \in Dialogs : x[2] = w /\ dialog[x] = "shown"} IN
     \E answering \in SUBSET its :
       /\ dialog' = [x \in Dialogs |-> IF x \in answering THEN "calling"
                                       ELSE IF x \in its THEN "missed" ELSE dialog[x]]
       /\ clicked' = [x \in Dialogs |-> IF x \in answering THEN "rejected" ELSE clicked[x]]
  /\ UNCHANGED <<gateVars, stage, cleaning, decider, crowded>>

\* The process ends, with its last window or before: with its dialogs, its
\* listeners, and the calls that have not been sent.
QuitGtk ==
  /\ \E w \in Windows : window[w] # "none"
  /\ window' = [w \in Windows |-> "none"]
  /\ LET lost == {x \in Dialogs : dialog[x] \in {"shown", "calling"}} IN
     /\ dialog' = [x \in Dialogs |-> IF x \in lost THEN "missed" ELSE dialog[x]]
     /\ clicked' = [x \in Dialogs |-> IF x \in lost THEN "none" ELSE clicked[x]]
  /\ UNCHANGED <<gateVars, stage, cleaning, decider, crowded>>

\* The daemon resolves a request; without one the call only fails.
Resolve(d, x) ==
  IF gate[d] = NoConn
    THEN UNCHANGED <<gateVars, decider>>
    ELSE /\ GateResolve(d, clicked[x])
         /\ decider' = IF chan[gate[d]] = "open" THEN [decider EXCEPT ![gate[d]] = x]
                                                 ELSE decider

\* Every call has a thread of its own, so that they arrive in any order.
Deliver(x) ==
  /\ dialog[x] = "calling" /\ dialog' = [dialog EXCEPT ![x] = "closed"]
  /\ Resolve(DevOf[x[1]], x)
  /\ UNCHANGED <<stage, clicked, window, cleaning, crowded>>

DialogNext ==
  \/ \E c \in Conns : \/ Request(c) \/ SendRequested(c) \/ GiveUp(c) \/ CleanUp(c)
                      \/ Emit(c) \/ Lag(c)
  \/ \E x \in Dialogs : Deliver(x) \/ \E v \in Verdicts : Answer(x, v)
  \/ \E w \in Windows : OpenWindow(w) \/ CloseWindow(w)
  \/ QuitGtk

\* The daemon, the user and the application, in any order.
DialogSpec == DialogInit /\ [][DialogNext]_requestVars

\* The threads of the calls run; nothing else need happen.
FairDialogs == DialogSpec /\ \A x \in Dialogs : WF_requestVars(Deliver(x))

----------------------------------------------------------------------------
DialogTypeOK ==
  /\ GateTypeOK
  /\ stage \in [Conns -> Stages]
  /\ dialog \in [Dialogs -> DialogStates]
  /\ clicked \in [Dialogs -> Verdicts \cup {"none"}]
  /\ window \in [Windows -> WindowStates]
  /\ cleaning \subseteq Conns /\ crowded \subseteq Conns
  /\ decider \in [Conns -> Dialogs \cup {NoDialog}]
  /\ \A x \in Dialogs : window[x[2]] = "none" => dialog[x] \notin {"shown", "calling"}

\* What decided a request was a click in a dialog of its device, with that very
\* answer, however many windows show the request and whichever of them are answered,
\* left open or closed; and it was a dialog of that very request, unless the event, a
\* dialog or a call of another request of the device was still about when it asked:
\* such a leftover takes the newer request for its own.
DecidedByClick ==
  \A c \in Conns : chan[c] \in Verdicts =>
    LET by == decider[c] IN
    /\ by \in Dialogs /\ clicked[by] = chan[c] /\ DevOf[by[1]] = DevOf[c]
    /\ c \notin crowded => by[1] = c

\* The inductive invariant: an entry is that of a request of its device; what is
\* on its way for the device of a request that waits, and is not crowded, is that
\* request; a decision came from a call that has returned, so that its dialog is
\* not answered again.
RequestInv ==
  /\ \A c \in Conns : stage[c] = "none" => /\ chan[c] = "unused"
                                           /\ \A w \in Windows : dialog[<<c, w>>] = "none"
  /\ \A d \in Devices : gate[d] # NoConn => DevOf[gate[d]] = d
  /\ \A c \in Conns \ crowded, x \in Conns :
       chan[c] = "open" /\ DevOf[x] = DevOf[c] /\ OnItsWay(x) => x = c
  /\ \A x \in Dialogs : dialog[x] = "calling" => clicked[x] \in Verdicts
  /\ \A c \in Conns : chan[c] \in Verdicts => dialog[decider[c]] = "closed"
  /\ \A c \in Conns : stage[c] \in {"unsent", "sent"} =>
       \A w \in Windows : dialog[<<c, w>>] = "none"

DialogInv == GateInv /\ DialogTypeOK /\ RequestInv /\ DecidedByClick

\* The call of a dialog of a waiting request ends the wait, also when other
\* requests, dialogs, windows and cleanups of the device cross it: unless the
\* application ends first.
ClickEndsWait ==
  \A x \in Dialogs :
    dialog[x] = "calling" /\ chan[x[1]] = "open" ~> chan[x[1]] # "open" \/ dialog[x] = "missed"
=============================================================================
