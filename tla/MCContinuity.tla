---------------------------- MODULE MCContinuity ----------------------------
(* A genesis, its child, and a merge of the two.                            *)
EXTENDS Continuity

MCLineage == [b \in {"a", "b", "c"} |->
                 CASE b = "a" -> <<>> [] b = "b" -> <<"a">> [] b = "c" -> <<"b", "a">>]

Symmetry == Permutations(Issuers)
=============================================================================
