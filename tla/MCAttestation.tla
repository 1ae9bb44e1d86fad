---------------------------- MODULE MCAttestation ----------------------------
(* Instances of Attestation for TLC. *)
EXTENDS Attestation, TLC

CONSTANTS m1, m2, n1, n2

AllFamilies == {"gcp-sev-snp", "gcp-sev-snp-vtpm", "aws-sev-snp", "azure-sev-snp", "azure-cgpu",
                "gcp-tdx", "aws-nitro-enclave", "simulated"}

Perms == Permutations({m1, m2}) \union Permutations({n1, n2})
==============================================================================
