---------------------------- MODULE MCBootstrap ----------------------------
(* The instance of Bootstrap for TLC. *)
EXTENDS Bootstrap
=============================================================================
