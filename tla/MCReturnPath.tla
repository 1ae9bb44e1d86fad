---------------------------- MODULE MCReturnPath ----------------------------
(* The instance of ReturnPath for TLC. *)
EXTENDS ReturnPath
=============================================================================
