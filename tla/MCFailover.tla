----------------------------- MODULE MCFailover -----------------------------
(* The instance of Failover for TLC: a policy with a quarantine, and one     *)
(* that expires and whose bound on lost state is below a unit of time.       *)
EXTENDS Failover, TLC

MCPolicies == <<[notAfter |-> 2, quarantine |-> 1, maxRPO |-> 1],
                [notAfter |-> 1, quarantine |-> 0, maxRPO |-> 0]>>
ExecutorSymmetry == Permutations(Executors)
=============================================================================
