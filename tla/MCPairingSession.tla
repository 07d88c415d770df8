-------------------------- MODULE MCPairingSession --------------------------
(***************************************************************************)
(* Two sessions whose packets name two devices.  The phones show f1 when a *)
(* user is asked; f2 may be left in the store from before.  Devices can be *)
(* named so that it is left for d1.  Of the two keepalives, which do not   *)
(* meet, only that of c1 is let run.                                       *)
(***************************************************************************)
EXTENDS PairingSession

CONSTANTS c1, c2, d1, d2, f1, f2

TwoDevices == {d1, d2}
TwoConns   == {c1, c2}
TwoFps     == {f1, f2}

MCInit == Init /\ store[d2] = NoFp

\* Only what the phones send is bounded.
ShowsF1 ==
  /\ \A c \in Conns : asks'[c] # f2
  /\ \A d \in Devices : store'[d] = f2 => store[d] = f2

\* The keepalive of c2 is spawned and stays before its first check.
OneKeepalive == quiet'[c2] = 0 /\ (ticking[c2] => ticking'[c2])

MCNext == Next /\ ShowsF1 /\ OneKeepalive

\* Fairness, without the keepalive that does not run.
MCFairness ==
  /\ \A c \in Conns : WF_vars(Proceed(c))
  /\ WF_vars(Check(c1)) /\ SF_vars(DeadSignal(c1))

MCSpec == MCInit /\ [][MCNext]_vars /\ MCFairness
=============================================================================
