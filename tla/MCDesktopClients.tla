-------------------------- MODULE MCDesktopClients --------------------------
(* Instances of DesktopClients for TLC. *)
EXTENDS DesktopClients, TLC

CONSTANTS d1, d2

Devices2 == {d1, d2}

\* One view at a time: none can tell whether another one is there.
Single == {{"window"}, {"panel"}, {"page"}}

\* Devices are interchangeable.
DeviceSymmetry == Permutations(Devices2)
===========================================================================
