# gcontinuity in TLA+

Specifications of the gcontinuity daemon and of the two desktop programs that
show its state, TLC configurations that check them on small instances, and
TLAPS proofs of the safety properties that matter most.  Source paths are given
relative to `src/`; `D/` stands for `gcontinuity-daemon/src/`, `G/` for
`gcontinuity-gtk/src/`.

## 1. The system

gcontinuity links an Android phone with a Linux desktop.  A daemon listens for
phones on TLS + WebSocket, pairs them with the user's consent, keeps a registry
of connected peers, routes their packets, and talks on the session bus to a GTK
application and to a GNOME Shell extension.

| Component | State | Operations | Talks to |
|---|---|---|---|
| Start-up (`D/config.rs`, `D/tls.rs`, `D/identity/mod.rs`, `D/main.rs`) | six files | `load_config`, `load_or_generate`, `load_or_create` | everything else gets its results |
| Pairing gate (`D/transport/websocket_server.rs:43-73`) | map device -> oneshot `Sender` | `register`, `resolve`, `remove` | handshakes wait on it, D-Bus calls resolve it |
| Trust store (`D/store/mod.rs`) | sled tree device -> info | `is_trusted`, `get_fingerprint`, `store_device`, `remove_device` | handshake, `unpair_device` |
| Handshake (`websocket_server.rs:259-383`) | one task per connection | Hello, PairRequest, trust check, decision, PairAccept/PairReject | gate, store, events |
| Server and peers (`websocket_server.rs:76-255`, `D/main.rs`) | task per connection, cancellation token | accept, register, announce, loop, remove, shutdown broadcast | registry, events |
| Registry (`D/transport/peer.rs`) | `RwLock` of device -> bounded channel, counters | `register`, `remove`, `send_to`, `broadcast`, `get_all`, `inc_*` | loops, D-Bus |
| Routing (`D/transport/mod.rs`) | none | `route_packet` | registry, feature queue |
| Keepalive (`websocket_server.rs:193-246`) | `last_rx`, `ping_pending` | two guarded sleeps of `select!` | the peer |
| D-Bus interface and bridge (`D/dbus/transport_iface.rs`) | receiver of a broadcast channel | methods; one signal per event | registry, gate, desktop programs |
| Phase-1 D-Bus service (`D/dbus/mod.rs`) | its own gate, never registered at | `unpair_device` and others | store |
| GTK window (`G/app.rs`, `G/ui/window.rs`, `G/dbus/mod.rs`) | labels, device row, visible page, 300 ms timers | initial query, signal listener, handlers, navigation | D-Bus |
| GTK connection page (`G/pages/connection.rs`) | `PageState` | signal listener, Disconnect | D-Bus; not part of the window yet |
| GTK pairing dialogs (`G/ui/pairing_dialog.rs`, `G/app.rs`, `G/dbus/mod.rs`) | open dialogs, a thread for each answer | show, Accept, Reject | bridge, gate |
| Shell extension (`gcontinuity-shell-ext/extension.js`) | `_connectedDeviceId`, `_signalIds`, proxy, label | `enable`, `disable`, proxy callback, query, two signals | D-Bus |
| File transfer (`D/transport/webrtc/data_channel.rs`) | chunks by index, checksum | `send_file`, `on_message`, `assemble`; not called yet by the rest | a data channel |
| WebRTC sessions (`D/transport/webrtc/peer_connection.rs`) | `RwLock` of session id -> peer connection and state | `create_session`, `handle_answer`, `handle_ice_candidate`, `close_session`, `active_sessions`; only the last is called yet | libwebrtc, D-Bus |
| Media tracks (`D/transport/webrtc/`) | none | a stub | - |
| Phase-1 server (`D/server/`, `D/pairing/mod.rs`, `D/keepalive/mod.rs`) | session state, gate, `connected_device` | `handle`, `handle_packet`, keepalive task; not started by `main` | store, D-Bus |
| mDNS, NetworkManager watcher | none | pure I/O | - |

What is hard about it, and where:

* *Interleaving.*  Every connection is a tokio task; D-Bus calls run beside
  them.  The gate, the store, the registry and the events are changed in
  separate steps, keyed by device although several connections of one device
  may be alive.
* *Time.*  A 30 s timeout encloses a 120 s one; the ping and pong sleeps of
  `select!` start anew at each turn; the GTK window has a 300 ms callback that
  nothing cancels.
* *Blocking.*  `send_to` waits for room in a channel while it holds the
  registry's read guard; the loop that makes room takes the write guard; one
  queue has no reader at all.  WebRTC signalling keeps a read guard while libwebrtc
  works.
* *Failure.*  A crash between the update of the store and its flush; a crash
  between the files of the first start; a failed Ack; a lagging bridge; a restart
  of the daemon under running clients.
* *Staleness.*  The desktop programs ask once and follow signals afterwards,
  through queues that keep no order between kinds of signal.  A pairing dialog knows
  the device that asked, not the request.  The callback of the extension's proxy may
  come when the extension is off, or on for the second time.  Every activation of the GTK
  application builds another window with a listener of its own.

`PROJECT.json` lists these as hazards at their source lines, each with the
properties that cover it.

What makes each component correct: a waiting handshake can be woken and is
decided once (gate); what was reported survives a crash, and trust comes from
consent (store, handshake); every handshake ends (handshake); registry and
events agree with the live connections (lifecycle); a silent peer is given up, an active
one is not (keepalive); nobody waits for the registry for ever, and Ctrl-C ends the
loops (channels); what the desktop shows settles on
what is true (clients); a request is decided by a click that was meant for it, and
a call of its dialog ends its wait (dialogs); signalling never touches a session that is being
closed, and none is left open out of reach (WebRTC); a phone that has paired once
meets the same daemon again (start-up); a file arrives whole or is refused (file transfer); who is called
connected is, and no session hangs (Phase-1 server).

## 2. Modules

| Module | Models | Notes |
|---|---|---|
| `PeerIds` | the set `Devices` | shared by the next two, so that `PairingHandshake` gets one set |
| `PairingGate` | the gate as a component, with `GateSpec`: any calls of its operations in any order | the handshakes, the dialogs and the Phase-1 sessions are built from its operations |
| `PeerStore` | the sled tree: what readers see and what is durable | operators used by `PairingHandshake` |
| `PairingHandshake` | `perform_handshake`, its timeouts, D-Bus decisions, `unpair_device`, crashes | composes gate and store |
| `PairingDialogs` | a pairing request on its way to the user and the answer on its way back | extends `PairingGate`; `perform_handshake` is reduced to its wait |
| `PeerPresence` | what registry and events promise about each device | abstract |
| `PeerLifecycle` | accept loop, admission, registry, events, end of a connection, shutdown, errors of the server | the handshake is one step here; implements `PeerPresence`; no fairness |
| `Keepalive` | the `select!` loop against a clock | one connection |
| `PeerChannels` | the registry's `RwLock`, the bounded channels, the feature queue, `broadcast` | peers, D-Bus callers, the broadcast of the shutdown |
| `EventBridge` | the broadcast channel, the bridge, restarts of the daemon | its peers are those of `PeerPresence` |
| `SignalStreams` | a listener with one zbus stream per kind of signal | instantiated by `GtkWindow` and `ConnectionPage` |
| `GtkWindow`, `ShellPanel`, `ConnectionPage` | the three views of the desktop | each extends `EventBridge` |
| `DesktopClients` | the views next to each other | composes the three |
| `WebRtcSessions` | `WebRtcManager` as concurrent calls over its lock | |
| `Startup` | configuration, TLS pair and identity on disk, kills and restarts | |
| `FileDelivery` | what a receiver promises about the destination file | abstract |
| `FileTransfer` | `send_file` and `FileTransferReceiver` over a channel that loses and reorders | implements `FileDelivery` |
| `PairingSession` | the Phase-1 sessions with their gate, keepalive tasks and `connected_device` | uses the gate of `PairingGate` |
| `PairingProofs` | proofs about `PairingGate`, `PairingHandshake` and `PairingDialogs` | the gate's invariant carries the other two |
| `MessageLoopProofs` | proofs about `Keepalive` and `PeerChannels` | |
| other `*Proofs` | proofs about the module of that name | `DesktopClientsProofs` covers the views and the bridge too |
| `MC*` | the instances that TLC checks | |

How state corresponds to code (actions are mapped line by line in
`PROJECT.json`):

* `PairingGate`: `gate[d]` is the connection that owns the `Sender` under key
  `d`; `chan[c]` is the state of that connection's oneshot.  A connection
  of `PairingHandshake` registers at most once, so connection and oneshot are
  identified; a Phase-1 session may register again once its last wait is over.
* `PeerStore`: `store` is what this process reads, `durable` what a restarted
  one would find.  `store_device` and `remove_device` are two steps, update and
  flush; sled may flush by itself at any time.
* `PairingHandshake`: `pc[c]` is the `.await` (or store call) where the task
  is; `elapsed[c]` counts the timers that have run out.  `lastWrite`, `reported` and
  `early` are history variables: who last wrote the entry of a device, what PairAccepts
  and unpairings have said of it since its last update began, and whether a known phone
  was told so by an entry that was not on disk.
* `PeerLifecycle`: `phase[c]` is the place in `handle_peer`; `registry[d]` the
  connection whose handle is stored; `announced` what a client that saw every
  event believes.
* `Keepalive`: `pingTimer` and `pongTimer` are what is left of the two sleeps of
  the current turn of `select!`, `Off` when the precondition was false.  tokio
  timers may be late, never early.
* `PeerChannels`: `waiting` is the fair queue of tokio's `RwLock`; `readers` the
  guards held across an `.await`.  A guard that is dropped without an `.await`
  in between is taken and dropped in one step.
* `PeerPresence`: `link[d]` is what `get_connected_devices` and the last event say
  of a device together.  `PeerLifecycle` computes it from `registry` and
  `announced`, unless connections overlap or an Ack was lost (`LinkOf`).
* `EventBridge`: `bus` is the broadcast channel as the bridge sees it: a send to
  a full channel drops the oldest event (`lagged`).  `Restart` is a crash of the
  daemon and its next start; devices that have not come back since are
  `orphaned`.
* `GtkWindow`: `winStreams[k]` is one zbus signal stream; `answer` is the reply to
  the initial query on its way to the main loop; `timers` counts the pending 300 ms
  callbacks.  `winBlind`, `late` and `winSwapped` are history variables that name
  what went wrong on the way to the window.
* `ShellPanel`: each call of `enable` makes a proxy, which is `building` until its
  callback has put its handlers into `_signalIds` (`wired`), or has met an error.  `panelQ` is the main
  loop's queue, with the proxies that each signal is for.  `label` is the device in
  the text, `panelId` is `_connectedDeviceId`; they are not always the same.
* `ConnectionPage`: `pageId` is `PageState.device_id`, which is set and cleared with
  the rest of the state.
* `PairingDialogs`: `stage[c]` is how far the event of a request has come; `window[w]` is
  one activation of the application, and `dialog[<<c, w>>]` the dialog that its listener
  opens for the request.  `cleaning` holds the handshakes between the end of their own
  120 s and `gate.remove`.  `decider` and `crowded` are history variables: which dialog's
  click decided a request, and which requests were made while something of another
  request of the device was still about: its event, a dialog in any window, or a call.
* `WebRtcSessions`: a call of a manager's method is a process; a session is named by
  the call that created it.  `stage[x]` is the `.await` where a call is; `readers` are
  the calls that libwebrtc keeps under the read guard.
* `Startup`: `disk[f]` is the run of the generator whose output is in file `f`,
  0 if it is empty; `todo` and `open` are the `fs::write` in progress.
* `FileTransfer`: `chunks` is the receiver's map, `net` the frames on the way.
  `from` and `meant` are history variables: which call sent a chunk, and which
  file the sender had while it sent what was saved.  Its header frame is left
  out: `total_chunks` is stored and never read.
* `PairingSession`: a step ends where the code waits and something shared may
  change meanwhile.  Each packet brings a `device_id` of its own, in any state.
  `strayed` is a history variable: the session that `connected_device` was taken from has
  sent another one since.  The keepalive's clock is abstracted to `quiet[c]`, the number
  of checks, one every 30 s, since a Pong was read: the age of the last Pong is at
  most 30 s after none, anything after one, and more than 35 s after two.

Operators commented "(Mutant ...)" are plausible bugs.  No specification uses
them; `PROJECT.json` names for each the definition it replaces and the property
that then fails.

## 3. What TLC checks

Passing runs:

| Run | Instance | Shows |
|---|---|---|
| `handshake` | 2 connections of 1 device, 2 fingerprints, one of them empty; 130 000 states | `ClickReachesWaiter`: a click reaches the handshake that waits; `OnlyTimeoutLeavesEntry`: a click can be wasted only on a request that ran out of time; `TrustNeedsConsent`; `ReportedIsDurable`: what a PairAccept, also a silent one, or an unpairing says survives a crash, but for one named case; `HandshakeEnds` |
| `lifecycle` | 3 connections, 2 devices; 638 000 states | `AloneIsExact`, `GoneIsForgotten`: registry and events are right, except where two connections of a device overlap or an Ack was lost; `ImplementsPresence`: `PeerPresence` is implemented |
| `keepalive` | clock of 5 s, 16 ticks of silence; 173 states | `TimeoutNeedsSilence`: no peer is given up before 70 s of silence; `UnansweredPingEnds` |
| `channels` | 2 peers, 1 D-Bus caller, the broadcast, channels of 1 place; 123 000 states | `TypeOK` with `QueueExact`: no request for the lock is lost or granted twice; `LockWaitsEnd`: a jam is the only reason to wait for the lock for ever; `SendsReturn`; `ShutdownCompletes`: after Ctrl-C the loops and the broadcast end, but for a jam or a loop stuck at the feature queue |
| `clients` | 2 devices, 4 events, a bus of 2 places, 1 restart, 2 calls of `enable`, one view at a time; 2.4 million states, devices symmetric | `TypeOK`; `PanelIsRight`, `WindowIsRight`, `PageIsRight`: each view ends up right but for the reasons they name; `LabelTellsId`: however `enable` and `disable` alternate, the label tells `_connectedDeviceId` |
| `dialogs` | 2 requests of 1 device, 2 windows; 548 000 states | `DialogTypeOK`; `DecidedByClick`: a request is decided by a click for its device with that answer, in a dialog of its own unless something of another request was about; `ClickEndsWait` |
| `webrtc` | 4 calls, 3 of them with one session id; 87 500 states | `WorksOnOpen`: no answer or candidate meets a closing session; `OpenIsReachable`: only a replaced session is left open; `LockIsGranted`: only a call that hangs keeps others waiting |
| `startup` | 3 kills; 1 700 states | `PairsUsable`: no files of different generations lie next to each other, and no identity lacks its certificate; only its key may be lost; `SameDaemon`: phones meet the fingerprint and the device id they know; `ServesInTheEnd` |
| `files` | 5 files around a chunk of 2 bytes, 1 edit, 2 sends; 46 000 states | `DeliversWhole`: `FileDelivery` is implemented; `UneditedIsExact`; `ArrivedIsAccepted`: neither order nor leftovers of an earlier call make a complete transfer fail |
| `session` | 2 sessions, 2 devices that either may name in any packet, 2 fingerprints; 347 000 states | `ConnectedIsLive`: no phone is named that has no session, but for a change of `device_id`; `EntryIsWaitedFor`; `SessionSettles`: a session never hangs; `SilentIsDropped`: a keepalive that gives up or fails ends the session |

Runs that TLC refutes, each a sentence of the repository that the code does not
keep (section 6): `reconnect` and `keepalive_probe`.

Of the type invariants, all of which are proved (section 4), TLC checks those that say
more than types: `PeerChannels` (`QueueExact`), `PairingDialogs` (no dialog without the
application) and `DesktopClients`.

Why the bounds are enough.

* *Connections and devices.*  Everything that goes wrong between connections
  goes wrong between two connections of one device: one registers, the other
  replaces, removes or is decided.  The lifecycle adds a third connection and a
  second device so that a third party may end in between, and to show that
  devices do not disturb each other.  Two fingerprints are one match and one
  mismatch; that one of them is the empty string adds the torn read of
  `websocket_server.rs:315-317`, where an entry that was removed in between reads as one.
* *Channels.*  64 places (256 for features and events) become one or two: the
  properties only distinguish full from not full, and with one place both happen
  after one packet.  One caller is enough for a jam; with several, `SendsReturn` would also rest on tokio serving waiting senders in
  order, which the model does not have.
* *Clock.*  30 s, 10 s and the time in between are multiples of 5 s; silence is
  counted to 80 s (`MaxSilence`), past the 70 s at which the code must have
  acted.
* *Events.*  Four events are a connect and a disconnect of two devices, or two
  rounds of one, and overflow a bus of two.  Five were checked once, with the
  same result (8.5 million states).  One restart divides the history into before
  and after; devices that come back leave `orphaned`.  With two calls of `enable`
  one proxy can be late for the other.  The views share nothing but the daemon's
  signals, so that each is checked without the other ones (`Single`).
* *Requests.*  Two requests of a device meet in its entry of the gate, in the bus and
  in their calls; two windows are a dialog that is answered and one that is left open,
  closed, or answered against it.  That the dialog of another device does not decide is
  left to the proof (`ClickDecides`), which has any number of devices.
* *WebRTC calls.*  Three calls for one id are two creations and a close, or a
  creation, an answer and a close; the fourth one has another id and meets them only
  at the lock.
* *Kills.*  Three kills put one in each of the configuration, the TLS pair and
  the identity.
* *Files.*  The empty file, one short chunk, one full chunk, and a full and a short
  one; two of the same length, so that an edit may go unnoticed by the length.
  Two calls are a transfer and its retry.
* *Sessions.*  Two sessions share an entry of the gate or `connected_device`; two device
  ids are one that a session keeps and one that it changes to.  Phones show `f1` when a
  user is asked; what is in the store for `d1` (nothing, `f1`, `f2`) makes a request new,
  known or an impostor's.  That leaves out renamings and a store that knows both devices.
  Only the keepalive of the first session runs: a keepalive touches nothing but its own
  session, and the first session meets everything the second one does.  The proofs have
  none of these bounds.

Deadlock is checked for `handshake`, where it says little, as a crash and sled's own
flush are always possible: `HandshakeEnds` is what shows that no handshake is stuck.  The
other systems may really stop: all
connections over and the daemon ended (`lifecycle`), the connection closed
(`keepalive`), the peers gone or the registry jammed (`channels`), the events used
up (`clients`), the requests made (`dialogs`), the calls returned or hung
(`webrtc`), the daemon serving (`startup`), the calls made (`files`), the
sessions over (`session`).  Liveness properties show that
they do not stop too early; `lifecycle` and `files` have none.

Fairness.  Weak fairness stands for the tokio runtime, which polls a task that
can run and fires a timer that has run out, and for systemd in `Startup`.  In
`PairingDialogs` only the thread of a call that was made is fair (`Deliver`), in
`WebRtcSessions` every call (`Proceed`), which may yet hang in libwebrtc.
Strong fairness is used where `select!` starts at a random branch, so that a ready
one is not passed over for ever (`TakeQueued` and `SeeCancelled` of `PeerChannels`,
`DeadSignal` of `PairingSession`).  Of phones it is assumed, in `PeerChannels` and
`PairingSession`, that what is sent to them is taken by their sockets; nothing is assumed
of what they send, of the user, of D-Bus callers, or of a TLS upgrade, which has no
timeout.  `PeerLifecycle` has no fairness: there, a task may wait for ever in front of any
step, as it may behind the registry lock or a full channel.  What a shutdown has to bring
about is asked in `PeerChannels`, where both are modelled.
`Keepalive` also has `PunctualKeepalive`, with timers exactly on time, so that the
refutation of `ProbedWhenSilent` cannot be blamed on a late timer.  `startup`
assumes that kills stop (`MaxCrashes`).

## 4. What is proved

All theorems hold for every value of the constants: any number of connections,
devices, fingerprints, sessions, crashes, files, and any lengths of chunks and of
the two sleeps.

* `PairingProofs`, the gate.  `GateInv` (types, `NoLostWakeup`, `EntriesPending`) is
  inductive as it stands: that no device shares its connection with another is
  what lets `register` and `remove` drop one Sender without stranding a second
  waiter.  `DecisionSticks` follows step by step.
* `PairingProofs`, the handshake.  First the lemma `GateSimulation`: under the invariant,
  every step of a handshake, D-Bus caller or crash calls the gate as `GateNext` allows, or
  leaves it alone, so that the gate's part of the invariant is `GateStep`.  The rest of
  `Inv` is `TaskInv` (what a task knows at each `pc`), `OwnerInv` (an entry of the
  gate belongs to a connection of that device) and `WriteInv` (how far the last
  update of each device has come, and that what was said of it agrees with it), needed
  because the properties speak of a task's past: `TrustNeedsConsent` needs that only
  accepted connections reach the store, and `ReportedIsDurable` that a flush after the
  last insert covers it although other flushes and removals overlap, and that the entry a
  silent PairAccept stands for is on disk or the device is in `early`.
  `OnlyTimeoutLeavesEntry` needs of `OwnerInv` that a task which is still in its handshake
  and owns an entry has a receiver, or is about to remove the entry.
* `PairingProofs`, the dialogs.  `DialogSimulation` is the same for the gate.  `RequestInv`
  says why a click cannot go astray: when nothing of another request of its device was
  about as a request was made, whatever is on its way for the device while it waits, in
  whichever window, belongs to it; and a dialog whose call has decided something is not
  answered again.  `DecidedByClick` is inductive with it.  `OwnCallReaches`: the call of a
  dialog of a request that still waits decides that very request.
* `PeerLifecycleProofs`.  `Inv` adds to the properties that living twins are in
  `overlap` and that every announced device has a task that vouches for it.  From it,
  `LinkTold` says which link each device has while a task of it is at a given phase; with
  that, each step is a `PeerPresence` step of one device or leaves the links alone.
  `PresenceImplemented` is the refinement `Spec => PresenceSpec`.  `CleanExit`: when
  `main` returns after a shutdown, every connection has ended, and registry and clients know,
  but for lost Acks; an error of the server ends the process whoever is connected.
* `MessageLoopProofs`, the keepalive.  `TimeoutNeedsSilence` for all `PingAfter` and
  `PongWait`: the invariant bounds from below the silence that has passed by what is left
  of the sleep that is armed.  `PingIsTimed`: an unanswered Ping always has a pong sleep armed.
* `MessageLoopProofs`, the channels.  `Lined` says that the lock's queue holds those who
  want it, each once; four lemmas say what asking, being served, both at once (a Ping, which
  is counted and then answered) and neither do to it.  `Roles` says that who is in `push` holds
  a read guard, that only a loop that has ended is not registered, and that a Pong goes to the
  loop's own peer.  `QueueExact` follows.  `JamStep` then takes a jammed reader and its peer
  through every action: each action of theirs is blocked, and no other frees a place.
  `JamIsTheOnlyLock`: when the first in the queue cannot have the lock, either it is a jam, or
  there is a holder whose send can be done, or whose peer's loop can go on.
* `StartupProofs`.  `FilesInv` says which writes may be pending at which step,
  `TlsInv` and `IdInv` what the written files hold by then and that nothing is
  written to them once phones have seen the result.  `IdInv` follows the three files of
  the identity through every kill: the key is written after the certificate, so that what
  is lost can only be the key, or the configuration after both.  `PairsUsable`
  and `SameDaemon` follow.
* `FileTransferProofs`.  The invariant follows a checksum from the hasher, which
  holds the part of the file that was read so far unless the file was edited,
  over the EOF frame to the write in progress and the destination.  From it,
  `UneditedIsExact` and, step by step, `DeliversWhole`.  `ArrivedIsAccepted` needs what
  `assemble` computes.  `Joined` is a recursive function; that it exists, depends only on the
  payloads below its index and is not changed by empty ones is proved by induction, in the
  form of `Least` (a nonempty set of natural numbers has a least member).  `ArriveInv` then
  says that there is one payload for each call and index, which the frames of that call, the
  chunks taken from it, its checksum and the hasher all agree with.
* `WebRtcSessionsProofs`.  `MapInv` and `CallInv` say that a session which the map
  offers, or which libwebrtc works on, is in use: created, open and not closing.  What
  keeps `close_session` from breaking that is the lock: whoever is granted the write
  guard meets no reader (`TakeOutKeeps`).  `WorksOnOpen`, `OpenIsReachable` and
  `ClosingSticks` follow.  `QueueCorrect`: each waiting call is in the lock's queue once;
  `LibwebrtcIsTheOnlyLock`: only a call of libwebrtc keeps the first of them waiting.
* `DesktopClientsProofs`.  The properties say what a view shows when nothing is on its way;
  the invariants say what is on its way until then.  `BusInv`: in the broadcast channel, the
  events of a device that is gone end with its departure (`Covers`), and the last signal is the
  arrival of who is connected (`EndsUp`), unless events were skipped or devices connected
  together.  `WindowInv`, `PanelInv` and `PageInv` say the same of the channel followed by the
  view's own queues, and that what the view shows now is true or will be corrected from there.
  A step of the peers is summed up by `Told`, a read of the bridge by `Received`, and what two
  zbus streams, which keep no order between them, make of a signal by `Heard` and `Kept`; each
  view's proof is then about its own handlers.  For the extension, `PanelShape` lists which
  proxies can be building, wired and enabled together, also when one fails or a `disable`
  throws; `LabelTellsId` rests on it.
* `PairingSessionProofs`.  The invariant adds to `ConnectedIsLive` and `EntryIsWaitedFor`
  that a session past its request knows the phone it asks for, whatever `device_id` it
  named before, and that one which has ended knows none (`SessionInv`).  `NotStranded`: a
  session that waits owns the entry of its phone, or its wait is over.

Assumptions used are the named `ASSUME`s of the modules: the null values are not
members of the sets they stand beside, lengths are positive, `MaxSilence` exceeds
70 s in ticks.

Every safety property that a passing run checks is proved, invariant, action property or
refinement.  Model-checked only are the liveness properties (`HandshakeEnds`,
`ShutdownCompletes`, `UnansweredPingEnds`, `LockWaitsEnd`, `SendsReturn`, `ServesInTheEnd`,
`SessionSettles`, `SilentIsDropped`, `ClickEndsWait`, `LockIsGranted`), which TLAPS cannot
prove under fairness.  For six of them the safety part is proved, for all values of the
constants: that a task which waits has somebody who can move it, or what the state is
once it has ended.

| Liveness property | What is proved of it |
|---|---|
| `UnansweredPingEnds` | `PingIsTimed` |
| `LockWaitsEnd` | `ChannelsTypeCorrect` (the queue is exact), `JamIsTheOnlyLock`, `JamLasts` |
| `LockIsGranted` | `QueueCorrect`, `LibwebrtcIsTheOnlyLock` |
| `ClickEndsWait` | `OwnCallReaches` |
| `SessionSettles` | `NotStranded` |
| `ShutdownCompletes` | `JamLasts`, and of the end of `main` `CleanExit` |

These theorems have no run of their own.

## 5. Assumptions of the models

* Reads of sled do not fail.  Its writes and flushes may.
* Writing to a socket ends, well or not.  A phone that stops reading is therefore
  outside `PeerChannels`.
* One `unpair_device` per device is in progress at a time.
* A phone's packets are reduced to their kinds.  JSON that does not parse is
  skipped by the code and is a stutter here.
* `EventBridge` uses `PeerPresence` without its muddled state; when that is entered
  is what `PeerLifecycle` says.
* The session bus stays up.  A crash of the daemon and its next start are one step: a
  query in between fails, which has the same outcome for every view as an empty
  answer.  Replies and signals of one sender arrive in order, as D-Bus guarantees.
* gjs numbers the signal handlers of each proxy from one, and `disconnectSignal` throws on
  an id that its proxy does not have.
* GTK delivers one response per dialog, and a dialog whose window is closed is gone, with a
  response or without one.  A listener whose window is closed may or may not show another
  dialog: that is up to the toolkit.  Quitting the application ends its threads.
* libwebrtc returns, fails or hangs; what it does to a connection is left out.
* `fs::write` leaves an empty or a whole file when the process is killed: the
  contents are a few hundred bytes, written at once.  Power failures and two
  daemons starting at the same time are left out.
* SHA-256 has no collisions: in `FileTransfer` a checksum is the content.  Frames
  may be lost and reordered; the callers, which do not exist yet, may send again,
  with the same receiver or a new one.
* Sessions of `PairingSession` send no reply that blocks for ever.  What a phone sends is
  not restricted: any packet, with any `device_id`, in any state of the loop.

## 6. Disagreements between code and comments

Shown by a refuted run:

1. *Connected but not registered* (`reconnect`).  `remove` deletes by device id.
   The old connection of a device that has reconnected takes the new entry away.
2. *No probe for a silent peer* (`keepalive_probe`).  The precondition of the
   30 s sleep is evaluated when `select!` is entered, just after a message, when
   it is false; a silent peer causes no further entry.

Named in a property as its exception:

* *A decision without a waiter* (`OnlyTimeoutLeavesEntry`).  The 30 s timeout drops a
  waiting handshake without telling the gate.  `accept_pairing` then returns Ok, and
  nothing is paired (`websocket_server.rs:45`: "Delivers GTK user accept/reject decision
  to the waiting handshake task").
* *A pairing told too early* (`ReportedIsDurable`, `early`).  A phone that comes back while
  the flush of its own entry is under way, or after it has failed, gets a silent PairAccept
  (`websocket_server.rs:317-323`) by an entry that a crash may still take away.
* *send_to does not return* (`SendsReturn`, `LockWaitsEnd`).  It waits for room under the
  read guard; the loop that would make room waits for the write guard, or is the waiter.
  `peer.rs:107-108` promises "`Err` if the peer is not connected or the channel is
  full/closed": with a full channel there is no `Err` and possibly no return at all, ever.
  `JamLasts` proves that such a jam stays; the properties of the run except it.
* *The shutdown waits for a jam* (`ShutdownCompletes`).  The same jam, or a loop that waits
  for the feature queue, keeps the daemon from ending after Ctrl-C.
* *The wrong dialog* (`DecidedByClick`, `crowded`).  A dialog that was left open, in the
  window of its request or in another window of the application, or a call that is still
  on its way, decides a newer request of the same device.
* *A session nobody can close* (`OpenIsReachable`).  `create_session` with an id in use
  drops the older session from the map, and its connection is never closed.
* *One hung call stops all sessions* (`LockIsGranted`), as signalling keeps its read
  guard.
* *A hasty disable* (`LabelTellsId`, `PanelIsRight`).  The callback of a proxy wires its
  handlers into an extension that has been disabled (`extension.js:114`); after the next
  `enable`, `_signalIds` holds the ids of two proxies, and `disable` throws with the
  handlers of one of them still connected (`extension.js:5`: "disconnect all signal
  handlers").
* *An identity key lost* (`PairsUsable`, `KeyLost`).  A kill while the key is written
  (`identity/mod.rs:76`) leaves a whole certificate and an empty key, which every later
  start loads, as only their existence is asked (`:31-33`).  The server that calls it valid
  (`server/mod.rs:63`: "valid private key must exist in identity") is that of Phase 1, which
  is not started; it would panic.
* *An empty configuration* (`ServesInTheEnd`, `SameDaemon`).  An empty configuration file,
  left by a kill, ends every later start, and an empty `config.toml` of the identity gives
  the daemon a new device id at each start.
* *A name left behind* (`ConnectedIsLive`, `strayed`).  `handle_packet` replaces `peer_info`
  by that of each Hello and PairRequest (`pairing/mod.rs:128-170`), and the end of `handle`
  compares with the last one (`server/connection.rs:90-92`): a session that has paired and
  then sends another `device_id` leaves the first one in `connected_device`, although the
  comment says "Ensure connected_device is cleared if the task exits for any reason"
  (`server/connection.rs:88`).

Seen while modelling, without a property of their own:

* *A torn read.*  `is_trusted` and `get_fingerprint` are two reads; an `unpair_device`
  between them makes the second one an empty string, which equals an empty fingerprint
  (`websocket_server.rs:315-317`).  Such a phone is admitted silently, without an entry and
  without the user.  The model has this step; nothing is written, so that
  `TrustNeedsConsent` is not concerned.
* *The wrong page.*  The 300 ms callback of the window is not cancelled by a disconnect and
  can leave it on the page of a device that is gone (`window.rs:394`), although
  `window.rs:6-7` says that the disconnect "fixes stays-on-device-page bug".
* The decision's 120 s never run out before the 30 s around them
  (`websocket_server.rs:337`); a handshake that is superseded by another one of its
  device reports `user_rejected` (`:362`); a lost Ack leaves the peer registered and
  announced (`:190`, the exception in `EntryOfLiveTask`).
* `broadcast` does wait for a slow peer, which "must not block others" (`peer.rs:124-129`);
  the Pong does need the registry lock, with "no lock contention" (`transport/mod.rs:51`);
  the receiver of the feature queue is kept and never read, so that packets for features are
  never pushed to any (`main.rs:95`).
* The waiting page of the window leads nowhere: "Back to devices" of a connected device
  ends on it, and only the next DeviceConnected leaves it.
* `PairingAccepted` is said to update the trusted list (`app.rs:107`); the handler only
  logs.  The remove button of a trusted row removes the row and leaves the device
  trusted (`window.rs:443-447`).
* A DeviceDisconnected leaves the uptime of the connection page as it was
  (`pages/connection.rs:277-287`).
* A received file is written in place, not moved to `dest_dir`
  (`data_channel.rs:171-172` and `:293`), so that a failed write leaves a torn one.
  The chunks of a failed transfer stay in the receiver: a retry after the file has
  become shorter can never succeed with the same receiver, which is why
  `ArrivedIsAccepted` excludes leftovers beyond the end.
* `connected_device`, "the single source of truth for which device is currently live"
  (`pairing/mod.rs:88`), is one in one direction at most (`ConnectedIsLive`): a second
  phone that pairs overwrites the first (`:106`), which stays connected and unnamed, and a
  Disconnect of any session clears it (`:112`).
* While a Phase-1 session waits for the user it reads no Pong, so its keepalive
  gives the phone up after some 70 s; the session ends once the user has decided
  or 120 s are over.

## 7. What is not modelled

* Of the Phase-1 server: its events, and `accept_pairing` and `reject_pairing` of a
  session, which nothing calls.  Its code is compiled and not started.
* Two calls of `send_file` at once, which its `&self` allows, and two receivers that write
  one destination: nothing calls either yet.  The calls of `FileTransfer` follow each other,
  also to a new receiver.
* The views of a second window of the GTK application, which are those of the first;
  its dialogs are modelled.
* A TLS upgrade that never ends and, with it, keeps `main` from returning: an upgrade is
  under no timeout, and `ShutdownCompletes` speaks of the peers that have been admitted.
* Media tracks (a stub), mDNS and the NetworkManager watcher (pure I/O).
* The serde layout of the two packet codecs, which keep no state: a packet is its kind.
* Of the GTK application: the rows of trusted and nearby devices, the refresh button,
  the packet log, the address and the uptime.  Of the extension: notifications; its
  Disconnect item is a caller of `send_to` in `PeerChannels`.
* Transfer counters of the registry, other than the lock they take; progress events of
  a file transfer.
* What libwebrtc does with a description or a candidate.

## 8. Plan

1. `PairingHandshake` as the environment of `PairingDialogs`: a refinement in place of
   the reduced wait.
2. The safety part of the other liveness properties (`HandshakeEnds`, `SendsReturn`,
   `ServesInTheEnd`, `SilentIsDropped`).
3. Two senders and two receivers in `FileTransfer`, once something calls them.
