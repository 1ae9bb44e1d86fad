------------------------------- MODULE MCFlow -------------------------------
(* The instance of Flow for TLC: flows share no state, so one request stands *)
(* for any number of them.                                                   *)
EXTENDS Flow
=============================================================================
