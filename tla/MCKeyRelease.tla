---------------------------- MODULE MCKeyRelease ----------------------------
(* The instance of KeyRelease for TLC: the stop lists of a short history,    *)
(* and suite lists whose first entries differ.                               *)
EXTENDS KeyRelease

MCLists == <<{}, {"now"}>>
MCSource == <<"x25519", "p384">>
MCDest == <<"p384">>
=============================================================================
