----------------------------- MODULE MCConsole -----------------------------
(* The instance of Console for TLC: a model sealed on one of two servers. *)
EXTENDS Console, TLC
CONSTANTS a, b, m1
Homes == m1 :> a
=============================================================================
