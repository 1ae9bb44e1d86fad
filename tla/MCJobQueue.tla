----------------------------- MODULE MCJobQueue -----------------------------
(* The instance of JobQueue for TLC. *)
EXTENDS JobQueue
=============================================================================
