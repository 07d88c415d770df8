---------------------------- MODULE MCKeepalive ----------------------------
(* Keepalive with a clock of 5 s. *)
EXTENDS Keepalive

Ping30s == 6
Pong10s == 2
Max80s  == 16
===========================================================================
