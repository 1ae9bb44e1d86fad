----------------------------- MODULE MCKeyStore -----------------------------
(* Instances of KeyStore for TLC. *)
EXTENDS KeyStore, TLC

CONSTANTS h1, h2, i1, i2, b1, b2, p1, p2

TwoNames == <<"authority_signing", "session_sealing">>

(* One family for each shape of sealer. *)
SealerFamilies == {"simulated", "gcp-sev-snp", "gcp-sev-snp-vtpm", "aws-sev-snp", "gcp-tdx", "aws-nitro"}

Perms == Permutations({h1, h2}) \union Permutations({p1, p2})
=============================================================================
