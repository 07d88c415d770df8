--------------------------- MODULE ConnectionPage ---------------------------
(***************************************************************************)
(* The connection page (gcontinuity-gtk/src/pages/connection.rs) as a view *)
(* of the daemon's peers.  It only follows signals, and its Disconnect     *)
(* button clears it before the daemon has answered.  The packet log, the   *)
(* address and the text of the uptime are left out.  The window does not   *)
(* use the page yet.                                                       *)
(***************************************************************************)
EXTENDS EventBridge

VARIABLES
  pageSubs, pageStreams, pageBlind, pageSwapped,   \* its signal streams
  pageId,    \* PageState.device_id, and all that is set with it
  pressed    \* history: Disconnect was pressed after the last DeviceConnected

Follower == INSTANCE SignalStreams
  WITH subs <- pageSubs, streams <- pageStreams, blind <- pageBlind,
       swapped <- pageSwapped

followVars == <<pageSubs, pageStreams, pageBlind, pageSwapped>>
pageVars   == <<followVars, pageId, pressed>>

PageInit == Follower!StreamsInit /\ pageId = NoDevice /\ pressed = FALSE

PageHears(e) == Follower!Hear(e, TRUE) /\ UNCHANGED <<pageId, pressed>>

PageSubscribes(k) == Follower!Subscribe(k) /\ UNCHANGED <<pageId, pressed>>

\* (Mutant: a disconnect of another device is skipped.)
PageFollowsOwn(e) ==
  /\ Follower!Take(e)
  /\ pageId' = IF e.kind = "conn" THEN e.dev ELSE IF pageId = e.dev THEN pageId ELSE NoDevice
  /\ pressed' = (pressed /\ e.kind # "conn")

\* Any disconnect clears the page, whichever device it was.
PageFollows(e) ==
  /\ Follower!Take(e)
  /\ pageId' = IF e.kind = "conn" THEN e.dev ELSE NoDevice
  /\ pressed' = (pressed /\ e.kind # "conn")

\* The Disconnect button sends the device a packet from a thread of its own;
\* whether the connection ends is up to the phone.
PressDisconnect ==
  /\ pageId # NoDevice
  /\ pageId' = NoDevice /\ pressed' = TRUE
  /\ UNCHANGED followVars

PageNext ==
  \/ \E k \in Kinds : PageSubscribes(k)
  \/ \E e \in Events : PageFollows(e)
  \/ PressDisconnect

----------------------------------------------------------------------------
PageTypeOK ==
  /\ Follower!StreamsTypeOK(Events)
  /\ pageId \in Devices \cup {NoDevice} /\ pressed \in BOOLEAN

PageSettled ==
  Delivered /\ Follower!Listening /\ ~lagged /\ ~pageBlind /\ ~pageSwapped

\* The page never keeps showing a device that is gone, and for one device at a
\* time it misses none but one that Disconnect was pressed for: unless the
\* bridge lagged, it subscribed too late, two signals changed places, or the
\* daemon was restarted.
PageIsRight ==
  PageSettled =>
    /\ pageId # NoDevice => link[pageId] = "up" \/ pageId \in orphaned
    /\ ~together /\ ~pressed => \A d \in Devices : link[d] = "up" => pageId = d
=============================================================================
