----------------------------- MODULE MCStartup -----------------------------
(***************************************************************************)
(* The daemon is killed up to three times.                                 *)
(***************************************************************************)
EXTENDS Startup
=============================================================================
