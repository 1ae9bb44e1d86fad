----------------------------- MODULE Attestation -----------------------------
(***************************************************************************)
(* Remote attestation (internal/shared/tee): a machine answers a           *)
(* challenge with evidence, and a verifier of the machine's family admits  *)
(* or refuses it, asking the chip's vendor for certificates, TCB           *)
(* documents, key sets, manifests and revocation answers that it keeps in  *)
(* memory and on disk.                                                     *)
(*                                                                         *)
(* A machine is one of Machines and differs from a sound one in at most    *)
(* one way (Defects).  A quote is one answer of one machine to one nonce;  *)
(* evidence is put together from the parts of quotes: the chip's report,   *)
(* the vTPM's quote of the boot and the certificate of its key, the GPU's  *)
(* tokens and reports.  Cryptography is ideal: a part verifies when it is  *)
(* a machine's own and the document it is checked under is genuine.        *)
(***************************************************************************)
EXTENDS Naturals, FiniteSets

CONSTANTS Machines,     \* the machines that can be attested
          Nonces,       \* the challenges, those too short included
          ShortNonces,  \* the ones below NonceMinBytes
          Families,     \* the providers a run covers
          MaxTime,      \* bound: the clock runs from 0 to MaxTime
          MaxQuotes,    \* bound: challenges answered
          Validity,     \* how long a dated document stays valid
          MaxSkew       \* how old a Nitro document or a GPU token may be

ASSUME AttestationAssumption ==
    /\ ShortNonces \subseteq Nonces
    /\ MaxTime \in Nat /\ MaxQuotes \in Nat
    /\ Validity \in Nat \ {0} /\ MaxSkew \in Nat

VARIABLES cfg,        \* the verifier's configuration
          fact,       \* what is wrong with each machine, if anything
          quoted,     \* the quotes machines have made
          now,        \* the clock
          published,  \* when a vendor replaced a document, if it did
          mem,        \* the verifier's VCEKs in memory
          disk        \* the cache directories

attestationVars == <<cfg, fact, quoted, now, published, mem, disk>>

-----------------------------------------------------------------------------
(* The families and what they rest on.                                     *)

SEVFamilies  == {"gcp-sev-snp", "gcp-sev-snp-vtpm", "aws-sev-snp", "azure-sev-snp", "azure-cgpu"}
AzureFamilies == {"azure-sev-snp", "azure-cgpu"}

\* The families whose evidence carries a quote of the boot.
QuotesTheBoot(f) == f \in AzureFamilies \union {"gcp-sev-snp-vtpm"}

\* The families an external RATS verifier can be asked about: those whose
\* measurement this side can read from the record itself.
ReadsLocally(f) == f \in {"gcp-sev-snp", "gcp-tdx", "simulated"}

\* What may be wrong with a machine of a family.  azure-cgpu checks the chip
\* with azure-sev-snp's own code, and only its GPU is looked at here.
Defects(f) ==
    {"none", "image"}
      \union (IF f # "azure-cgpu" THEN {"forged"} ELSE {})
      \union (IF f \in SEVFamilies \ {"azure-cgpu"} THEN {"debug", "vmpl", "belowFloor", "platform", "otherKey"} ELSE {})
      \union (IF f \in {"gcp-sev-snp", "gcp-sev-snp-vtpm", "aws-sev-snp"} THEN {"hostData"} ELSE {})
      \union (IF f \in {"gcp-sev-snp-vtpm", "azure-sev-snp"} \/ f = "aws-nitro-enclave" THEN {"boot"} ELSE {})
      \union (IF f = "gcp-sev-snp-vtpm" THEN {"foreignInstance", "selection"} ELSE {})
      \union (IF f = "aws-sev-snp" THEN {"vlek"} ELSE {})
      \union (IF f = "azure-cgpu" THEN {"gpu", "gpuRevoked"} ELSE {})
      \union (IF f = "gcp-tdx" THEN {"debug", "outdatedTCB", "outdatedQE"} ELSE {})
      \union (IF f = "aws-nitro-enclave" THEN {"debug"} ELSE {})

\* "both": NVIDIA's tokens and this verifier's own evaluation of the GPU.
Modes(f) == IF f = "azure-cgpu" THEN {"nras", "both", "own"} ELSE {"nras"}

\* NewRATSVerifier refuses a family whose records it cannot read.
NewRATSVerifier(c) == c.rats => ReadsLocally(c.family)

Configs ==
    {c \in [family : Families, mode : {"nras", "both", "own"}, keeps : BOOLEAN, rats : BOOLEAN] :
        /\ c.mode \in Modes(c.family)
        /\ NewRATSVerifier(c)}

-----------------------------------------------------------------------------
(* The vendors' documents and the caches.                                  *)

\* A VCEK and a revocation answer belong to one machine; the others serve all.
DocIds == ({"vcek", "ocsp"} \X Machines) \union ({"tcbInfo", "qeIdentity", "jwks", "rim"} \X {"all"})
VCEKId(m) == <<"vcek", m>>
OCSPId(m) == <<"ocsp", m>>
TCBInfo    == <<"tcbInfo", "all">>
QEIdentity == <<"qeIdentity", "all">>
JWKS       == <<"jwks", "all">>
RIM        == <<"rim", "all">>

NoDoc == [body |-> "none", newer |-> FALSE, until |-> 0]
Never == MaxTime + 1

\* What a vendor answers a fetch: its document of the day, a page that is
\* not the document (a proxy's, with HTTP 200), or nothing.  A key set and a
\* manifest carry no date.
Answers == {"good", "garbage", "down"}

Fetched(d, a) ==
    IF a = "down" THEN NoDoc
    ELSE [body  |-> IF a = "good" THEN "genuine" ELSE "garbage",
          newer |-> d[1] \in DOMAIN published /\ published[d[1]] # Never,
          until |-> IF a = "garbage" \/ d[1] \in {"jwks", "rim"} THEN 0 ELSE now + Validity]

Kept(d) == IF cfg.keeps THEN disk[d] ELSE NoDoc

\* fetchVCEK: from memory, then the file, then AMD, and stored in both
\* before anything has checked it.
VCEK(m, a, memory) ==
    IF memory[m] # NoDoc THEN memory[m]
    ELSE IF Kept(VCEKId(m)) # NoDoc THEN Kept(VCEKId(m))
    ELSE Fetched(VCEKId(m), a)

\* Signed with Intel's TCB signing key, whose chain ends at Intel's root.
VerifyPCSSignature(x) == x.body = "genuine"

\* A PCS document counts while its signature verifies and it is current.
DocumentCurrent(x) == VerifyPCSSignature(x) /\ now < x.until

\* pcsClient.document with the currency of a cached copy not looked at.
PCSDocumentUndated(d, a) ==
    IF Kept(d).body = "genuine" THEN Kept(d)
    ELSE LET x == Fetched(d, a) IN IF DocumentCurrent(x) THEN x ELSE NoDoc

\* pcsClient.document: the cached copy while it is current, else fetched,
\* and only a document that verifies and is current is returned and kept.
PCSDocument(d, a) ==
    IF DocumentCurrent(Kept(d)) THEN Kept(d)
    ELSE LET x == Fetched(d, a) IN IF DocumentCurrent(x) THEN x ELSE NoDoc

\* A set holds the keys of its day; after a rotation NVIDIA's holds the key
\* before it too, for the tokens under way.
Holds(set, key) == set.body = "genuine" /\ (key = "new" => set.newer)

LoadJWKS(refresh, a) ==
    IF ~refresh /\ Kept(JWKS).body = "genuine" THEN Kept(JWKS)
    ELSE LET x == Fetched(JWKS, a) IN IF x.body = "genuine" THEN x ELSE NoDoc

\* nrasJWKS.verify without the refresh.
JWKSForStale(key, a) == LoadJWKS(FALSE, a)

\* nrasJWKS.verify: the set is fetched again, once, when the token names a
\* key it does not hold.
JWKSFor(key, a) ==
    LET set == LoadJWKS(FALSE, a)
    IN IF set.body = "genuine" /\ ~Holds(set, key) THEN LoadJWKS(TRUE, a) ELSE set

\* A manifest that parses, with its chain and its measurements.
ParseRIM(x) == x.body = "genuine"

\* RIMFetcher.Fetch: a cached manifest that parses is never fetched again.
RIMManifest(a) ==
    IF ParseRIM(Kept(RIM)) THEN Kept(RIM)
    ELSE LET x == Fetched(RIM, a) IN IF ParseRIM(x) THEN x ELSE NoDoc

\* verifyOCSPResponse: an answer holds up to and including its nextUpdate.
OCSPValid(x) == x.body = "genuine" /\ now <= x.until

\* OCSPChecker.check with the request's nonce demanded of a cached answer.
OCSPAnswerNonced(m, a) ==
    LET x == Fetched(OCSPId(m), a) IN IF OCSPValid(x) THEN x ELSE NoDoc

\* OCSPChecker.check: a cached Good answer while it is valid, else a fresh
\* one.  An answer says Revoked when NVIDIA had revoked the certificate.
OCSPAnswer(m, a) ==
    IF OCSPValid(Kept(OCSPId(m))) THEN Kept(OCSPId(m))
    ELSE LET x == Fetched(OCSPId(m), a) IN IF OCSPValid(x) THEN x ELSE NoDoc

OCSPGood(m, x) == x # NoDoc /\ ~(x.newer /\ fact[m] = "gpuRevoked")

\* acpctl tee cache-status: what CacheStatus calls current.
CacheCurrent(d) ==
    LET x == disk[d]
    IN CASE d[1] = "vcek" -> x.body = "genuine" /\ now < x.until
         [] d[1] \in {"tcbInfo", "qeIdentity"} -> DocumentCurrent(x)
         [] d[1] = "ocsp" -> x.body = "genuine" /\ now < x.until
         [] OTHER -> x.body = "genuine"

-----------------------------------------------------------------------------
(* Producers.                                                              *)

\* The report m's chip makes for n.  configfs-tsm's answer is used only when
\* the entry's generation shows that no other write came between.
Report(m, n) ==
    [of |-> m, nonce |-> n, at |-> now, key |-> IF published["jwks"] # Never THEN "new" ELSE "old"]

\* The producer of m answers n with the chip's report and what the family
\* puts beside it.  It refuses a short nonce; a challenge is put to a machine
\* once.
Answer(m, n) ==
    /\ n \notin ShortNonces
    /\ \A q \in quoted : q.of = m => q.nonce # n
    /\ Cardinality(quoted) < MaxQuotes
    /\ quoted' = quoted \union {Report(m, n)}
    /\ UNCHANGED <<cfg, fact, now, published, mem, disk>>

\* The report alone.
QuoteSEV(m, n)   == cfg.family = "gcp-sev-snp" /\ Answer(m, n)
QuoteTDX(m, n)   == cfg.family = "gcp-tdx" /\ Answer(m, n)
QuoteNitro(m, n) == cfg.family = "aws-nitro-enclave" /\ Answer(m, n)
QuoteSimulated(m, n) == cfg.family = "simulated" /\ Answer(m, n)

\* The host's certificate table holds a VLEK, unless the host's reports are
\* signed with its VCEK.
VLEKFromCertTable(m) == fact[m] # "otherKey"

\* The report and that VLEK, without which there is no evidence.
QuoteAWS(m, n) == cfg.family = "aws-sev-snp" /\ VLEKFromCertTable(m) /\ Answer(m, n)

\* The vTPM's attestation key of m, made from Google's template: the same key
\* each time it is made.
AK(m) == m

\* The report, which names the vTPM's key, and that key's quote of the boot; a
\* key the TPM has lost is made again.
QuoteGCPVTPM(m, n) == cfg.family = "gcp-sev-snp-vtpm" /\ Answer(m, n)

\* The HCL report, read once at start, and the vTPM's quote for n.
QuoteAzure(m, n) == cfg.family = "azure-sev-snp" /\ Answer(m, n)

\* The same, and the tokens and reports of the GPU attestation command.
QuoteCGPU(m, n) == cfg.family = "azure-cgpu" /\ Answer(m, n)

\* The evidence that can be made of the quotes so far, each part a quote's.
\* Evidence that does not parse is refused before anything is fetched, and
\* so changes nothing.
Evidence ==
    {[chip |-> c, ak |-> AK(k.of), boot |-> b, gpu |-> g] :
        c \in quoted,
        k \in IF cfg.family = "gcp-sev-snp-vtpm" THEN quoted ELSE {[of |-> "none"]},
        b \in IF QuotesTheBoot(cfg.family) THEN quoted ELSE {<<>>},
        g \in IF cfg.family = "azure-cgpu" THEN quoted ELSE {<<>>}}

\* What the producer of q's machine itself sends for q.
Own(q) ==
    [chip |-> q,
     ak   |-> IF cfg.family = "gcp-sev-snp-vtpm" THEN AK(q.of) ELSE "none",
     boot |-> IF QuotesTheBoot(cfg.family) THEN q ELSE <<>>,
     gpu  |-> IF cfg.family = "azure-cgpu" THEN q ELSE <<>>]

-----------------------------------------------------------------------------
(* What each verifier checks, in the code's order.                         *)

\* The leaf under AMD's intermediate of its kind, and that under a pinned
\* root, then the report's signature.  No date is looked at.
PinnedAMDRootFor(chain) == chain.body = "genuine"
VerifyAMDChain(leaf) == PinnedAMDRootFor(leaf)
VerifySEVReportSignature(m) == fact[m] # "forged"

\* The floor is the operator's, or the bulletins' for the chip's product; no
\* part of the platform's TCB is below it.
AboveFloor(m) == fact[m] # "belowFloor"

\* The floor, and the platform's and the guest's bits.
CheckSEVSNPPolicy(m) == AboveFloor(m) /\ fact[m] # "platform"

AfterSignature(ev, n) ==
    LET m == ev.chip.of
    IN /\ fact[m] \notin {"otherKey", "debug", "vmpl"}
       /\ CheckSEVSNPPolicy(m)
       /\ ev.chip.nonce = n
       /\ fact[m] \notin {"hostData", "image"}

\* GCPSEVVerifier.verify
GCPSEVVerify(ev, n, vcek) ==
    /\ VerifyAMDChain(vcek) /\ VerifySEVReportSignature(ev.chip.of)
    /\ AfterSignature(ev, n)

\* The quote is the key's, for this nonce, of a boot the policy names.
TPMQuoteHolds(ev, n, ak) ==
    ev.boot.of = ak /\ ev.boot.nonce = n /\ fact[ev.boot.of] # "boot"

\* A VLEK is of the chip's product, in its dates, at the report's TCB and
\* loaded by a provider the policy names.
CheckVLEK(m) == fact[m] # "vlek"

\* AWSSEVSNPVerifier.VerifyEvidence: the VLEK rides in the evidence.
AWSSEVVerify(ev, n) ==
    /\ fact[ev.chip.of] # "otherKey"
    /\ CheckVLEK(ev.chip.of)
    /\ VerifySEVReportSignature(ev.chip.of)
    /\ AfterSignature(ev, n)

\* The key's certificate chains to Google's root and names an instance of a
\* project the policy accepts.
VerifyGCEAKCertificate(m) == fact[m] # "foreignInstance"

\* GCPSEVVTPMVerifier.VerifyEvidence without the look at the second half of
\* REPORT_DATA.
GCPSEVVTPMVerifyUnbound(ev, n, vcek) ==
    /\ GCPSEVVerify(ev, n, vcek)
    /\ VerifyGCEAKCertificate(ev.ak)
    /\ TPMQuoteHolds(ev, n, ev.ak)
    /\ fact[ev.boot.of] # "selection"

\* GCPSEVVTPMVerifier.VerifyEvidence: the key's certificate is Google's and
\* of a named project, the chip's report names the key, the key signs the
\* quote, the quote covers the policy's PCRs.
GCPSEVVTPMVerify(ev, n, vcek) ==
    /\ GCPSEVVerify(ev, n, vcek)
    /\ VerifyGCEAKCertificate(ev.ak)
    /\ ev.ak = AK(ev.chip.of)
    /\ TPMQuoteHolds(ev, n, ev.ak)
    /\ fact[ev.boot.of] # "selection"

\* The HCL report carries the vTPM's key, and the chip's REPORT_DATA its hash.
AttestationKey(ev) == ev.chip.of

\* azureSNPChecker.check: the quote alone answers the challenge.
AzureSNPCheck(ev, n, vcek) ==
    LET m == ev.chip.of
    IN /\ VerifyAMDChain(vcek) /\ VerifySEVReportSignature(m)
       /\ fact[m] \notin {"otherKey", "debug", "vmpl"}
       /\ CheckSEVSNPPolicy(m)
       /\ TPMQuoteHolds(ev, n, AttestationKey(ev))

AzureAcceptMeasurement(ev) == fact[ev.chip.of] # "image"

\* evaluateGPUClaims on tokens that verify under the set and are not expired.
EvaluateGPUClaims(ev, n, set) ==
    /\ Holds(set, ev.gpu.key) /\ now <= ev.gpu.at + MaxSkew
    /\ ev.gpu.nonce = n /\ fact[ev.gpu.of] # "gpu"

\* The GPU's report is for this nonce, signed with a key whose chain ends at
\* NVIDIA's root.
VerifyGPUReport(ev, n) == ev.gpu.nonce = n

\* The manifests verify and the GPU's measurements are the golden ones.
MeasurementsMatch(m, rim) == rim # NoDoc /\ fact[m] # "gpu"

\* GPUEvaluator.Evaluate and Complete: the report holds, no certificate is
\* revoked, and the measurements match.
GPUEvaluationComplete(ev, n, answer, rim) ==
    /\ VerifyGPUReport(ev, n)
    /\ OCSPGood(ev.gpu.of, answer)
    /\ MeasurementsMatch(ev.gpu.of, rim)

\* evaluateTCB and evaluateQE: the first level the platform reaches, and its
\* status one the policy accepts.  The newer document withdraws the level of
\* an outdated platform.
EvaluateTCB(m, info) == info # NoDoc /\ ~(info.newer /\ fact[m] = "outdatedTCB")
EvaluateQE(m, id)    == id # NoDoc /\ ~(id.newer /\ fact[m] = "outdatedQE")

\* The quote's own chain of signatures, up to the PCK certificate.
TDXQuoteSigned(ev) == fact[ev.chip.of] # "forged"

\* The platform the PCK certificate, which chains to Intel's root, names.
PCKPlatform(ev) == ev.chip.of

\* GCPTDXVerifier.VerifyQuote
TDXVerify(ev, n, info, qe) ==
    LET m == ev.chip.of
    IN /\ TDXQuoteSigned(ev)
       /\ EvaluateTCB(PCKPlatform(ev), info) /\ EvaluateQE(m, qe)
       /\ fact[m] # "debug" /\ ev.chip.nonce = n /\ fact[m] # "image"

\* The COSE envelope: its chain to a pinned root now, and its signature.
NitroEnvelopeVerifies(m) == fact[m] # "forged"

\* The document the envelope carries.
NitroDocument(ev) == ev.chip

\* AWSNitroVerifier.verify
NitroVerify(ev, n) ==
    LET doc == NitroDocument(ev)
    IN /\ NitroEnvelopeVerifies(doc.of)
       /\ now <= doc.at + MaxSkew
       /\ doc.nonce = n
       /\ fact[doc.of] \notin {"debug", "image", "boot"}

\* SimulatedVerifier.Verify
SimulatedVerify(ev, n) ==
    ev.chip.nonce = n /\ fact[ev.chip.of] \notin {"image", "forged"}

-----------------------------------------------------------------------------
(* A verification: which documents are asked for, and what comes of it.    *)

\* The vendors a family's verifier asks.  What azure-cgpu asks AMD, and what
\* comes of it, is azure-sev-snp's code; here its VCEK is the genuine one.
Asked ==
    CASE cfg.family \in SEVFamilies \ {"aws-sev-snp", "azure-cgpu"} -> {"vcek"}
      [] cfg.family = "azure-cgpu" -> (IF cfg.mode # "own" THEN {"jwks"} ELSE {})
                                        \union (IF cfg.mode # "nras" THEN {"ocsp", "rim"} ELSE {})
      [] cfg.family = "gcp-tdx" -> {"tcbInfo", "qeIdentity"}
      [] OTHER -> {}

\* The VCEK, or what stands for it, that ev's report is checked under.
VCEKOf(ev, a, memory) ==
    IF cfg.family = "azure-cgpu" THEN Fetched(VCEKId(ev.chip.of), "good")
    ELSE VCEK(ev.chip.of, a["vcek"], memory)

SNPHolds(ev, n, a, memory) == n \notin ShortNonces /\ AzureSNPCheck(ev, n, VCEKOf(ev, a, memory))

\* NVIDIA's word, unless the verdict rests on the own evaluation alone.
GPUTold(ev, n, a) == cfg.mode = "own" \/ EvaluateGPUClaims(ev, n, JWKSFor(ev.gpu.key, a["jwks"]))

\* AzureSEVSNPVerifier.VerifyEvidence
AzureSEVVerify(ev, n, a, memory) == SNPHolds(ev, n, a, memory) /\ AzureAcceptMeasurement(ev)

\* AzureCGPUVerifier.VerifyEvidence
AzureCGPUVerify(ev, n, a, memory) ==
    /\ SNPHolds(ev, n, a, memory) /\ GPUTold(ev, n, a)
    /\ cfg.mode # "nras" =>
          GPUEvaluationComplete(ev, n, OCSPAnswer(ev.gpu.of, a["ocsp"]), RIMManifest(a["rim"]))
    /\ AzureAcceptMeasurement(ev)

\* The documents a verification of ev uses, each asked for only when the
\* code gets that far: the QE identity once the TCB's level is accepted, and
\* the revocation answer and the manifest once NVIDIA's tokens hold.
UsedOfIntel(ev, a) ==
    LET info == PCSDocument(TCBInfo, a["tcbInfo"])
    IN {<<TCBInfo, info>>} \union
       (IF EvaluateTCB(PCKPlatform(ev), info)
        THEN {<<QEIdentity, PCSDocument(QEIdentity, a["qeIdentity"])>>} ELSE {})

UsedOfNVIDIA(ev, n, a) ==
    (IF cfg.mode # "own" THEN {<<JWKS, JWKSFor(ev.gpu.key, a["jwks"])>>} ELSE {})
      \union
    (IF cfg.mode # "nras" /\ GPUTold(ev, n, a)
     THEN {<<OCSPId(ev.gpu.of), OCSPAnswer(ev.gpu.of, a["ocsp"])>>,
           <<RIM, RIMManifest(a["rim"])>>} ELSE {})

Used(ev, n, a, memory) ==
    LET f == cfg.family
        used ==
            CASE f = "gcp-tdx" /\ n \notin ShortNonces /\ TDXQuoteSigned(ev) -> UsedOfIntel(ev, a)
              [] f = "azure-cgpu" /\ SNPHolds(ev, n, a, memory) -> UsedOfNVIDIA(ev, n, a)
              [] "vcek" \in Asked /\ n \notin ShortNonces ->
                   {<<VCEKId(ev.chip.of), VCEKOf(ev, a, memory)>>}
              [] OTHER -> {}
    IN {u \in used : u[2] # NoDoc}

\* The verdict.
Admits(ev, n, a, memory) ==
    LET f == cfg.family
    IN /\ n \notin ShortNonces
       /\ CASE f = "gcp-sev-snp"      -> GCPSEVVerify(ev, n, VCEKOf(ev, a, memory))
            [] f = "gcp-sev-snp-vtpm" -> GCPSEVVTPMVerify(ev, n, VCEKOf(ev, a, memory))
            [] f = "aws-sev-snp"      -> AWSSEVVerify(ev, n)
            [] f = "azure-sev-snp"    -> AzureSEVVerify(ev, n, a, memory)
            [] f = "azure-cgpu"       -> AzureCGPUVerify(ev, n, a, memory)
            [] f = "gcp-tdx"          ->
                 TDXVerify(ev, n, PCSDocument(TCBInfo, a["tcbInfo"]), PCSDocument(QEIdentity, a["qeIdentity"]))
            [] f = "aws-nitro-enclave" -> NitroVerify(ev, n)
            [] OTHER                  -> SimulatedVerify(ev, n)

\* The cache directories after a verification.  Of the revocation answers
\* only the Good ones are kept; a VCEK found in memory is not written again.
Stored(used, memory) ==
    [d \in DocIds |->
        IF /\ cfg.keeps
           /\ \E u \in used : u[1] = d /\ (d[1] = "ocsp" => OCSPGood(d[2], u[2]))
           /\ d[1] = "vcek" => memory[d[2]] = NoDoc
        THEN (CHOOSE u \in used : u[1] = d)[2]
        ELSE disk[d]]

Remembered(used, memory) ==
    [m \in Machines |->
        IF \E u \in used : u[1] = VCEKId(m) THEN (CHOOSE u \in used : u[1] = VCEKId(m))[2] ELSE memory[m]]

Kinds == {"vcek", "ocsp", "tcbInfo", "qeIdentity", "jwks", "rim"}
AllAnswer(a) == [k \in Kinds |-> a]

\* In one verification every vendor answers well, except that one may not.
\* (From every vendor but AMD a page that is not the document is refused like
\* silence: one of the two is enough.)
AnswerSets ==
    {AllAnswer("good")} \union
    {[AllAnswer("good") EXCEPT ![j] = b] :
        j \in Asked, b \in IF Asked = {"vcek"} THEN {"garbage", "down"} ELSE {"garbage"}}

\* Verifier.Verify: the verdict is Admits, and this is what it leaves
\* in the caches (a verification that leaves them alone is a stuttering step).
Verify(ev, n, a) ==
    LET used == Used(ev, n, a, mem)
    IN /\ \E u \in used : disk[u[1]] # u[2] \/ (u[1][1] = "vcek" /\ mem[u[1][2]] # u[2])
       /\ mem' = Remembered(used, mem)
       /\ disk' = Stored(used, mem)
       /\ UNCHANGED <<cfg, fact, quoted, now, published>>

\* What an appraisal service that is sound says of the evidence: an EAR
\* signed with its key, for the session's nonce, affirming a machine whose
\* signatures, platform and nonce hold.  It need not know the pin.
Affirms(ev, n) ==
    ev.chip.nonce = n /\ fact[ev.chip.of] \in {"none", "image", "hostData"}

\* VerifyEAR: signed with the service's key.
VerifyEAR(ear) == ear.signed

\* RATSVerifier.appraise: a service that is down, refuses a session, or is
\* still processing when the wait ends gives no EAR.
Appraised(ear) == ear.answered /\ VerifyEAR(ear)

\* RATSVerifier.VerifyRecord: the measurement is read from the record first;
\* then the service's answer decides, and the pin is held last.
VerifyRecord(ev, n, ear) ==
    /\ n \notin ShortNonces
    /\ Appraised(ear) /\ ear.nonce = n
    /\ Affirms(ev, ear.nonce)
    /\ fact[ev.chip.of] # "image"

\* acpctl tee prefetch: a host of the peer's family verifies its own
\* evidence, pinned to its own measurement, in a process of its own, and so
\* fills the cache directories.
Prefetch(q, a) ==
    /\ cfg.family \in {"gcp-sev-snp", "gcp-tdx"} /\ cfg.keeps
    /\ disk' = LET none == [m \in Machines |-> NoDoc] IN Stored(Used(Own(q), q.nonce, a, none), none)
    /\ UNCHANGED <<cfg, fact, quoted, now, published, mem>>

-----------------------------------------------------------------------------
(* The surroundings.                                                       *)

Tick ==
    /\ now < MaxTime
    /\ now' = now + 1
    /\ UNCHANGED <<cfg, fact, quoted, published, mem, disk>>

\* A vendor replaces a document: a TCB level or a QE is withdrawn, a
\* certificate revoked, a signing key rotated.
Publish(k) ==
    /\ published[k] = Never
    /\ k \in IF cfg.family = "gcp-tdx" THEN {"tcbInfo", "qeIdentity"}
             ELSE IF cfg.family = "azure-cgpu" THEN {"ocsp", "jwks"} ELSE {}
    /\ published' = [published EXCEPT ![k] = now]
    /\ UNCHANGED <<cfg, fact, quoted, now, mem, disk>>

\* The verifier's process restarts: memory is lost, the directories are not.
Restart ==
    /\ mem' = [m \in Machines |-> NoDoc]
    /\ UNCHANGED <<cfg, fact, quoted, now, published, disk>>

\* The operator deletes a VCEK that cache-status does not call current.  (An
\* expired document of another kind is fetched again as if it were not there.)
Discard(d) ==
    /\ d[1] = "vcek" /\ disk[d] # NoDoc /\ ~CacheCurrent(d)
    /\ disk' = [disk EXCEPT ![d] = NoDoc]
    /\ UNCHANGED <<cfg, fact, quoted, now, published, mem>>

AttestationInit ==
    /\ cfg \in Configs
    /\ fact \in [Machines -> Defects(cfg.family)]
    /\ \E m \in Machines : fact[m] = "none"
    /\ quoted = {} /\ now = 0
    /\ published = [k \in {"tcbInfo", "qeIdentity", "ocsp", "jwks"} |-> Never]
    /\ mem = [m \in Machines |-> NoDoc]
    /\ disk = [d \in DocIds |-> NoDoc]

AttestationNext ==
    \/ \E m \in Machines, n \in Nonces : QuoteSEV(m, n)
    \/ \E m \in Machines, n \in Nonces : QuoteTDX(m, n)
    \/ \E m \in Machines, n \in Nonces : QuoteNitro(m, n)
    \/ \E m \in Machines, n \in Nonces : QuoteSimulated(m, n)
    \/ \E m \in Machines, n \in Nonces : QuoteAWS(m, n)
    \/ \E m \in Machines, n \in Nonces : QuoteGCPVTPM(m, n)
    \/ \E m \in Machines, n \in Nonces : QuoteAzure(m, n)
    \/ \E m \in Machines, n \in Nonces : QuoteCGPU(m, n)
    \/ ~cfg.rats /\ \E ev \in Evidence, n \in Nonces, a \in AnswerSets : Verify(ev, n, a)
    \/ \E q \in quoted, a \in AnswerSets : Prefetch(q, a)
    \/ Tick
    \/ \E k \in DOMAIN published : Publish(k)
    \/ Restart
    \/ \E d \in DocIds : Discard(d)

AttestationSpec == AttestationInit /\ [][AttestationNext]_attestationVars

-----------------------------------------------------------------------------
(* Properties.                                                             *)

\* What the verifier would admit in this state, with the vendors answering
\* well, wrongly or not at all, and whatever the appraisal service answers.
Admitted ==
    {v \in [ev : Evidence, nonce : Nonces] :
        IF cfg.rats
        THEN \E ear \in [answered : BOOLEAN, signed : BOOLEAN, nonce : Nonces] :
                VerifyRecord(v.ev, v.nonce, ear)
        ELSE \E a \in Answers : Admits(v.ev, v.nonce, AllAnswer(a), mem)}

\* What is admitted is one machine: its chip's report, the key in its vTPM
\* and the quote of its boot are the same machine's, nothing is wrong with
\* it that was wrong when it was asked, and every part that answers a
\* challenge answers this one, the GPU's too.  Parts of two sound machines,
\* or of an earlier challenge, never add up to a verdict
\* (gcp_sev_snp_vtpm.go VerifyEvidence, azure_vtpm.go check,
\* azure_cgpu.go VerifyEvidence, rats_verifier.go VerifyRecord).
AdmittedIsGenuine ==
    \A v \in Admitted :
        LET m == v.ev.chip.of
        IN /\ fact[m] \in {"none", "outdatedTCB", "outdatedQE", "gpu", "gpuRevoked"}
                           \union (IF cfg.rats THEN {"hostData"} ELSE {})
           /\ v.nonce \notin ShortNonces
           /\ QuotesTheBoot(cfg.family) => v.ev.boot.of = m /\ v.ev.boot.nonce = v.nonce
           /\ cfg.family \notin AzureFamilies => v.ev.chip.nonce = v.nonce
           /\ cfg.family = "azure-cgpu" => fact[v.ev.gpu.of] # "gpu" /\ v.ev.gpu.nonce = v.nonce

\* A platform, a quoting enclave or a GPU certificate that its vendor has
\* withdrawn is admitted only while a document from before the withdrawal
\* is still valid: the caches never stretch a document past its date
\* (gcp_tdx_pcs.go document, nvidia_ocsp.go check).
RevocationTakesHold ==
    \A v \in Admitted : ~cfg.rats =>
        /\ fact[v.ev.chip.of] = "outdatedTCB" => now < published["tcbInfo"] + Validity
        /\ fact[v.ev.chip.of] = "outdatedQE"  => now < published["qeIdentity"] + Validity
        /\ cfg.family = "azure-cgpu" /\ cfg.mode # "nras" /\ fact[v.ev.gpu.of] = "gpuRevoked" =>
              now <= published["ocsp"] + Validity

\* The documents a machine's evidence is checked under.
Needs(m) == {d \in DocIds : d[1] \in Asked /\ d[2] \in {m, "all"}}

FreshQuotes == {q \in quoted : q.at = now /\ fact[q.of] = "none"}

\* An air-gapped site can rely on cache-status: a verifier started on
\* directories that hold what a machine's evidence needs, each called
\* current, admits that machine with no vendor to ask (cache_status.go),
\* unless NVIDIA signed with a key newer than the set.
CurrentIsEnough ==
    cfg.keeps /\ ~cfg.rats =>
        \A q \in FreshQuotes :
            /\ \A d \in Needs(q.of) : CacheCurrent(d)
            /\ JWKS \in Needs(q.of) => Holds(disk[JWKS], q.key)
            => Admits(Own(q), q.nonce, AllAnswer("down"), [m \in Machines |-> NoDoc])

\* Whatever the caches hold, a sound machine is admitted when the vendors
\* answer: an expired document is fetched again, a rotated key set is
\* followed.  The exception is the code's own: a page that is not a VCEK,
\* once stored, is neither checked nor replaced (gcp_sev_snp.go fetchVCEK).
SoundIsAdmitted ==
    ~cfg.rats =>
        \A q \in FreshQuotes :
            mem[q.of].body # "garbage" /\ Kept(VCEKId(q.of)).body # "garbage" =>
                Admits(Own(q), q.nonce, AllAnswer("good"), mem)

\* cache_status.go says of the cached documents that "the ones with a
\* validity period stop being used once it ends": no admission rests on a
\* cached document whose period, as cache-status reads it, has ended.
ExpiredStopsBeingUsed ==
    cfg.keeps /\ ~cfg.rats =>
        \A v \in Admitted, d \in DocIds :
            d \in Needs(v.ev.chip.of) /\ disk[d].body = "genuine" => CacheCurrent(d)
=============================================================================
