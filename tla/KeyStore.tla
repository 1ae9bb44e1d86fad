------------------------------ MODULE KeyStore ------------------------------
(***************************************************************************)
(* Key files and their sealing: what the daemons keep of their keys on     *)
(* disk, sealed to the host's TEE (ADR 0016, 0022, 0023, 0036, 0037), and   *)
(* the release authority's escrow key with its recovery envelope.          *)
(*                                                                         *)
(*   tee.SealSecretWith, OpenSecretWith   a sealed key file                 *)
(*   tee.SealerFor                        the sealer a host has             *)
(*   LoadMaterials, readSecret            a daemon's start                  *)
(*   seal-keys, sentinel seal-key         sealing in place, file by file    *)
(*   acp-bootstrap seal-keys -pcr0        sealing for a Nitro image         *)
(*   fetchSecretFiles                     the enclave takes its files       *)
(*   sagvd escrow-provision               the escrow key, made and sealed   *)
(*   acpctl escrow recover                the recovery ceremony             *)
(*                                                                         *)
(* A host has a chip and a TPM of its own; its image (the launch           *)
(* measurement) and its boot (the PCRs) change, its tee.sealer is           *)
(* reconfigured, its disk is copied to another host, a file's clear fields *)
(* are edited, a process dies between any two of its steps and a host is   *)
(* lost for good. Sealing is ideal: a box opens under the layers and the   *)
(* associated data it was made with and no other. An operator that may     *)
(* refuse returns the set of what it opened, empty when it refuses.        *)
(***************************************************************************)
EXTENDS Naturals, Sequences, FiniteSets

CONSTANTS
    Hosts,          \* the machines
    Families,       \* the TEE families a host may be of
    Names,          \* the secrets a configuration names, in keyFiles' order
    Images,         \* launch measurements
    Boots,          \* what the PCRs a TPM seals to can read
    Paths,          \* file names the operator gives escrow-provision
    MaxProvisions,  \* bound: escrow keys made
    MaxCommands,    \* bound: commands the operator gives
    MaxEvents       \* bound: what happens to the machines and the disks

ASSUME KeyStoreAssumption == Images # {} /\ Boots # {}

NameSet == {Names[i] : i \in DOMAIN Names}

VARIABLES
    family,     \* tee.provider of each host
    machine,    \* the image it runs, the boot it is in, its tee.sealer
    files,      \* the key file at each name's path
    cmd,        \* the operator's command: seal-keys or escrow-provision on a host
    lost,       \* the hosts lost for good
    escrow,     \* the escrow key file at each path of each host
    recovery,   \* the recovery envelopes, kept off the hosts
    made,       \* escrow keys made so far
    published,  \* where each escrow key was first written to a -pub file
    reported,   \* the provisionings that told the operator of a recovery envelope
    tampered,   \* the files copied over or edited by another hand
    misdirected, \* the files a Nitro sealing replaced under inputs no enclave answers to
    commands,   \* how many commands were given
    events      \* how many things happened to the machines

diskVars == <<files, tampered, misdirected>>
escrowVars == <<escrow, recovery, made, published, reported>>
keyStoreVars == <<family, machine, cmd, lost, commands, events, diskVars, escrowVars>>

NoFile == [form |-> "none"]
NoKey == <<>>
Idle == [at |-> "idle"]
Modes == {"auto", "tee", "tpm2", "both"}

(* The secret the operator puts at host h's path for name n. *)
Bare(h, n) == [form |-> "bare", key |-> <<h, n>>]

-----------------------------------------------------------------------------
(* The sealer a host has *)

(* SealerKindForProvider: the kinds of sealer a family has under a mode,    *)
(* none when the mode is refused.                                          *)
SealerKindForProvider(p, mode) ==
    CASE p = "aws-nitro" -> IF mode \in {"tpm2", "both"} THEN {} ELSE {"aws-kms-attested"}
      [] p # "aws-nitro" /\ mode = "tpm2" -> {"tpm2"}
      [] p \in {"gcp-sev-snp", "gcp-sev-snp-vtpm"} /\ mode = "both" -> {"sev+tpm2"}
      [] p \notin {"aws-nitro", "gcp-sev-snp", "gcp-sev-snp-vtpm"} /\ mode = "both" -> {}
      [] p = "simulated" /\ mode \in {"auto", "tee"} -> {"simulated"}
      [] p \in {"gcp-sev-snp", "aws-sev-snp"} /\ mode \in {"auto", "tee"} -> {"sev"}
      [] p = "gcp-sev-snp-vtpm" /\ mode \in {"auto", "tee"} ->
            IF mode = "tee" THEN {"sev"} ELSE {"sev+tpm2"}
      [] p \in {"gcp-tdx", "azure-sev-snp", "azure-cgpu"} /\ mode \in {"auto", "tee"} ->
            IF mode = "tee" THEN {} ELSE {"tpm2"}
      [] OTHER -> {}

(* The firmware's derived key: the chip's on Compute Engine, the fleet's on *)
(* EC2, with the launch measurement mixed in.                              *)
sevSealingLayer(h, m) == <<"chip", IF family[h] = "aws-sev-snp" THEN "ec2" ELSE h, m.image>>

(* A TPM's sealed object under a policy of this boot's PCRs. *)
vtpmLayer(h, m) == <<"tpm", h, m.boot>>

(* A KMS data key released to an image's attestation. *)
nitroLayer(image) == <<"kms", image>>

(* The simulated TEE's key, derived from its measurement alone. *)
simulatedLayer(m) == <<"simulated", m.image>>

(* The chip's box nested inside the TPM's. *)
nestedLayers(h, m) == {sevSealingLayer(h, m), vtpmLayer(h, m)}

(* SealerFor: the layers a box of kind is sealed in on host h running as m. *)
SealerFor(h, m, kind) ==
    CASE kind = "simulated" -> {simulatedLayer(m)}
      [] kind = "sev" -> {sevSealingLayer(h, m)}
      [] kind = "tpm2" -> {vtpmLayer(h, m)}
      [] kind = "sev+tpm2" -> nestedLayers(h, m)
      [] kind = "aws-kms-attested" -> {nitroLayer(m.image)}

Seal(layers, key, aad) == [layers |-> layers, key |-> key, aad |-> aad]
Unseal(box, layers, aad) == IF box.layers = layers /\ box.aad = aad THEN {box.key} ELSE {}

-----------------------------------------------------------------------------
(* A sealed key file *)

sealedSecretAADUnnamed(tee, measurement, name, kind) == <<tee, measurement, kind>>
sealedSecretAAD(tee, measurement, name, kind) == <<tee, measurement, name, kind>>

SealSecretWith(key, layers, kind, tee, measurement, name) ==
    [form |-> "sealed", tee |-> tee, measurement |-> measurement, sealer |-> kind, name |-> name,
     box |-> Seal(layers, key, sealedSecretAAD(tee, measurement, name, kind))]

(* OpenSecretWith: what file f opens to as name on host h running as m: the *)
(* clear fields first, then the sealer under the file's own clear fields.   *)
OpenSecretWith(f, h, m, kind, name) ==
    IF f.name = name /\ f.tee = family[h] /\ f.sealer = kind
    THEN Unseal(f.box, SealerFor(h, m, kind),
                sealedSecretAAD(family[h], f.measurement, f.name, f.sealer))
    ELSE {}

(* hostSealer: the sealer kind of host h running as m, if it has one. *)
hostSealer(h, m) == SealerKindForProvider(family[h], m.mode)

(* readSecret: a bare file as it is, a sealed one opened by the host. *)
readSecret(h, m, f, name) ==
    CASE f.form = "none" -> {}
      [] f.form = "bare" -> {f.key}
      [] f.form = "sealed" ->
            UNION {OpenSecretWith(f, h, m, kind, name) : kind \in hostSealer(h, m)}

-----------------------------------------------------------------------------
(* The escrow key's files. An escrow key is a number; its public half is   *)
(* the same number in the clear.                                           *)

sealedAAD(tee, measurement, tag) == <<"escrow", tee, measurement, tag>>

SealKey(k, h, m, kind) ==
    [form |-> "sealed", tee |-> family[h], measurement |-> m.image, tag |-> k,
     box |-> Seal(SealerFor(h, m, kind), k, sealedAAD(family[h], m.image, k))]

(* SealedKey.Open: the live family and measurement must be the file's, and  *)
(* the key the private half of the public key the file names.              *)
OpenKey(s, h, m, kind) ==
    IF s.tee = family[h] /\ s.measurement = m.image
    THEN {k \in Unseal(s.box, SealerFor(h, m, kind), sealedAAD(family[h], m.image, s.tag)) : k = s.tag}
    ELSE {}

(* loadEscrowKey: a plaintext key only under the simulated TEE. *)
loadEscrowKey(h, m, s) ==
    CASE s.form = "none" -> {}
      [] s.form = "plaintext" -> IF family[h] = "simulated" THEN {s.key} ELSE {}
      [] s.form = "sealed" ->
            UNION {OpenKey(s, h, m, kind) : kind \in hostSealer(h, m)}

(* WrapRecovery and Recovery.Open: to the operator's one recovery key. *)
WrapRecovery(k) == [form |-> "recovery", tag |-> k, key |-> k]
RecoveryOpen(r) == IF r.form = "recovery" /\ r.key = r.tag THEN {r.key} ELSE {}

(* A genome's key enveloped to an escrow key, and whether a key opens it:  *)
(* the envelope names the key it was sealed to.                            *)
EscrowSeal(k) == [escrowKey |-> k]
EscrowOpen(env, k) == env.escrowKey = k

(* writeExclusive: O_CREATE|O_EXCL, so an existing file refuses the write. *)
writeExclusiveTruncates(old) == TRUE
writeExclusive(old) == old.form = "none"

-----------------------------------------------------------------------------
(* LoadMaterials: every key file the configuration names opens (all the    *)
(* worker loads), and the authority's escrow key when one is named.        *)
escrowKeyPath(h) == machine[h].escrowPath

loadKeyFiles(h) == \A n \in NameSet : readSecret(h, machine[h], files[h][n], n) # {}

LoadMaterials(h) ==
    /\ loadKeyFiles(h)
    /\ escrowKeyPath(h) \in Paths =>
            loadEscrowKey(h, machine[h], escrow[h][escrowKeyPath(h)]) # {}

KeyStoreInit ==
    /\ family \in [Hosts -> Families]
    /\ machine \in [Hosts -> {[image |-> i, boot |-> b, mode |-> "auto", escrowPath |-> "unset"] :
                                i \in {CHOOSE i \in Images : TRUE}, b \in {CHOOSE b \in Boots : TRUE}}]
    /\ files = [h \in Hosts |-> [n \in NameSet |-> Bare(h, n)]]
    /\ cmd = Idle
    /\ lost = {}
    /\ escrow = [h \in Hosts |-> [p \in Paths |-> NoFile]]
    /\ recovery = [p \in Paths |-> NoFile]
    /\ made = 0
    /\ published = [k \in 1 .. MaxProvisions |-> NoKey]
    /\ reported = {}
    /\ tampered = {} /\ misdirected = {}
    /\ commands = 0
    /\ events = 0

(* The operator gives a command on a host that stands, one at a time. *)
Command(h) ==
    /\ cmd = Idle /\ h \notin lost
    /\ commands < MaxCommands
    /\ commands' = commands + 1

-----------------------------------------------------------------------------
(* seal-keys: the daemons' and the sentinel's, one file after another. *)

TEESealer(h) == hostSealer(h, machine[h])

(* sagvd and acp-compute seal-keys: the daemon's materials must load.       *)
SealKeysStart(h) ==
    /\ Command(h)
    /\ family[h] # "aws-nitro"
    /\ LoadMaterials(h) /\ TEESealer(h) # {}
    /\ cmd' = [at |-> "next", host |-> h, i |-> 1]
    /\ UNCHANGED <<family, machine, lost, events, diskVars, escrowVars>>

(* acp-bootstrap seal-keys: the host must have a sealer. *)
runSealKeys(h) ==
    /\ Command(h)
    /\ family[h] # "aws-nitro"
    /\ TEESealer(h) # {}
    /\ cmd' = [at |-> "next", host |-> h, i |-> 1]
    /\ UNCHANGED <<family, machine, lost, events, diskVars, escrowVars>>

(* A file already sealed is proven to open here and left as it is, or the  *)
(* command ends.                                                           *)
SealKeysSkip(h, n) ==
    /\ files[h][n].form = "sealed"
    /\ cmd' = IF readSecret(h, machine[h], files[h][n], n) # {} THEN [cmd EXCEPT !.i = @ + 1] ELSE Idle
    /\ UNCHANGED <<family, machine, lost, commands, events, diskVars, escrowVars>>

SealKeysSealUnopened(h, n, layers) ==
    LET kind == CHOOSE kind \in TEESealer(h) : TRUE
    IN /\ files[h][n].form = "bare"
       /\ cmd' = [at |-> "rename", host |-> h, i |-> cmd.i,
                  temp |-> SealSecretWith(files[h][n].key, layers, kind, family[h], machine[h].image, n)]
       /\ UNCHANGED <<family, machine, lost, commands, events, diskVars, escrowVars>>

(* A bare file is sealed, opened once from the sealed form and written     *)
(* beside its path. The sealer may make a box of other layers than its      *)
(* own, which then does not open: the command ends with the bare file in   *)
(* place.                                                                  *)
SealKeysSeal(h, n, layers) ==
    LET kind == CHOOSE kind \in TEESealer(h) : TRUE
        f == SealSecretWith(files[h][n].key, layers, kind, family[h], machine[h].image, n)
    IN /\ files[h][n].form = "bare"
       /\ cmd' = IF OpenSecretWith(f, h, machine[h], kind, n) # {}
                 THEN [at |-> "rename", host |-> h, i |-> cmd.i, temp |-> f]
                 ELSE Idle
       /\ UNCHANGED <<family, machine, lost, commands, events, diskVars, escrowVars>>

(* replaceFile: the temporary file is renamed over the path. *)
replaceFile(h, n) ==
    /\ cmd.at = "rename"
    /\ files' = [files EXCEPT ![h][n] = cmd.temp]
    /\ cmd' = [at |-> "next", host |-> h, i |-> cmd.i + 1]
    /\ UNCHANGED <<family, machine, lost, commands, events, tampered, misdirected, escrowVars>>

SealKeysDone ==
    /\ cmd.at \in {"next", "nitro"} /\ cmd.i \notin DOMAIN Names
    /\ cmd' = Idle
    /\ UNCHANGED <<family, machine, lost, commands, events, diskVars, escrowVars>>

(* sealNitroKeys: outside the enclave, file after file, for the PCR0 and    *)
(* under the KMS key the operator gives.  Nothing here can open what it     *)
(* seals, and nothing tells whether an image has that PCR0 and KMS will     *)
(* give its enclave the data key back.                                      *)
NoImage == "no image"
KMSKeys == {"usable", "unusable"}

sealNitroKeys(h, pcr0, kms) ==
    /\ Command(h)
    /\ family[h] = "aws-nitro"
    /\ kms = "usable" => pcr0 \in Images
    /\ cmd' = [at |-> "nitro", host |-> h, i |-> 1, pcr0 |-> pcr0, kms |-> kms]
    /\ UNCHANGED <<family, machine, lost, events, diskVars, escrowVars>>

(* A file already sealed is kept when its clear fields name this image and  *)
(* its own name, and ends the command otherwise.                            *)
NitroKeep(h, n) ==
    LET f == files[h][n]
    IN /\ f.form = "sealed"
       /\ cmd' = IF /\ f.tee = "aws-nitro" /\ f.sealer = "aws-kms-attested"
                    /\ f.measurement = cmd.pcr0 /\ f.name = n
                 THEN [cmd EXCEPT !.i = @ + 1] ELSE Idle
       /\ UNCHANGED <<family, machine, lost, commands, events, diskVars, escrowVars>>

(* A bare file is sealed and written beside its path, or KMS or the disk    *)
(* refuses and the command ends.                                            *)
NitroSeal(h, n) ==
    LET layers == IF cmd.kms = "usable" THEN {nitroLayer(cmd.pcr0)} ELSE {}
        f == SealSecretWith(files[h][n].key, layers, "aws-kms-attested", "aws-nitro", cmd.pcr0, n)
    IN /\ files[h][n].form = "bare"
       /\ \/ cmd' = [at |-> "nitro rename", host |-> h, i |-> cmd.i, pcr0 |-> cmd.pcr0,
                     kms |-> cmd.kms, temp |-> f]
          \/ cmd' = Idle
       /\ UNCHANGED <<family, machine, lost, commands, events, diskVars, escrowVars>>

(* replaceFile, of a file that was never opened. *)
NitroReplace(h, n) ==
    /\ cmd.at = "nitro rename"
    /\ files' = [files EXCEPT ![h][n] = cmd.temp]
    /\ misdirected' = IF cmd.kms = "usable" THEN misdirected ELSE misdirected \union {<<h, n>>}
    /\ cmd' = [at |-> "nitro", host |-> h, i |-> cmd.i + 1, pcr0 |-> cmd.pcr0, kms |-> cmd.kms]
    /\ UNCHANGED <<family, machine, lost, commands, events, tampered, escrowVars>>

-----------------------------------------------------------------------------
(* sagvd escrow-provision: the key is made or read from stdin, sealed,      *)
(* opened once and wrapped for recovery in memory; then the sealed file,   *)
(* the public key and the recovery envelope are written, in that order.    *)

(* What stdin may carry: what acpctl escrow recover opened. *)
RecoveredKeys == UNION {RecoveryOpen(recovery[p]) : p \in Paths}

ProvisionStart(h, k, out, rec) ==
    /\ Command(h)
    /\ family[h] # "aws-nitro"
    /\ k = made + 1 \/ k \in RecoveredKeys
    /\ LoadMaterials(h) /\ TEESealer(h) # {}
    /\ LET kind == CHOOSE kind \in TEESealer(h) : TRUE
           s == SealKey(k, h, machine[h], kind)
       IN /\ OpenKey(s, h, machine[h], kind) # {}
          /\ cmd' = [at |-> "out", host |-> h, key |-> k, sealed |-> s, out |-> out, rec |-> rec]
    /\ made' = IF k > made THEN k ELSE made
    /\ UNCHANGED <<family, machine, lost, events, diskVars, escrow, recovery, published, reported>>

ProvisionOut ==
    /\ cmd.at = "out"
    /\ IF writeExclusive(escrow[cmd.host][cmd.out])
       THEN /\ escrow' = [escrow EXCEPT ![cmd.host][cmd.out] = cmd.sealed]
            /\ cmd' = [cmd EXCEPT !.at = "pub"]
       ELSE /\ cmd' = Idle
            /\ UNCHANGED escrow
    /\ UNCHANGED <<family, machine, lost, commands, events, diskVars, recovery, made, published, reported>>

(* The public key's file is written, over an older one: from here on       *)
(* sealers may pick the key up and seal genomes to it.                     *)
ProvisionPub ==
    /\ cmd.at = "pub"
    /\ published' = [published EXCEPT ![cmd.key] = IF @ = NoKey THEN <<cmd.host, cmd.out>> ELSE @]
    /\ cmd' = IF cmd.rec \in Paths THEN [cmd EXCEPT !.at = "recovery"] ELSE Idle
    /\ UNCHANGED <<family, machine, lost, commands, events, diskVars, escrow, recovery, made, reported>>

ProvisionRecovery ==
    /\ cmd.at = "recovery"
    /\ IF writeExclusive(recovery[cmd.rec])
       THEN /\ recovery' = [recovery EXCEPT ![cmd.rec] = WrapRecovery(cmd.key)]
            /\ reported' = reported \union {cmd.key}
       ELSE UNCHANGED <<recovery, reported>>
    /\ cmd' = Idle
    /\ UNCHANGED <<family, machine, lost, commands, events, diskVars, escrow, made, published>>

(* acpctl escrow keygen: a plaintext key for the simulated TEE. *)
EscrowKeygen(h, out) ==
    /\ Command(h)
    /\ made < MaxProvisions
    /\ writeExclusive(escrow[h][out])
    /\ escrow' = [escrow EXCEPT ![h][out] = [form |-> "plaintext", key |-> made + 1]]
    /\ published' = [published EXCEPT ![made + 1] = <<h, out>>]
    /\ made' = made + 1
    /\ UNCHANGED <<family, machine, cmd, lost, events, diskVars, recovery, reported>>

-----------------------------------------------------------------------------
(* What happens to the machines and their disks *)

Event ==
    /\ events < MaxEvents
    /\ events' = events + 1

(* The command dies between two of its steps. *)
Crash ==
    /\ Event
    /\ cmd # Idle
    /\ cmd' = Idle
    /\ UNCHANGED <<family, machine, lost, commands, diskVars, escrowVars>>

(* The host restarts into another image or another boot, or its            *)
(* configuration names another sealer or another escrow file.              *)
Reconfigure(h, m) ==
    /\ Event
    /\ cmd = Idle /\ h \notin lost /\ m # machine[h]
    /\ machine' = [machine EXCEPT ![h] = m]
    /\ UNCHANGED <<family, cmd, lost, commands, diskVars, escrowVars>>

(* A sealed key file is copied over another path, on this host or another, *)
(* and its clear fields may be edited on the way.                          *)
CopyFile(h, n, to, as, relabel) ==
    LET f == files[h][n]
    IN /\ Event
       /\ cmd = Idle /\ to \notin lost /\ <<h, n>> # <<to, as>>
       /\ f.form = "sealed"
       /\ files' = [files EXCEPT ![to][as] =
                IF relabel THEN [f EXCEPT !.name = as, !.tee = family[to]] ELSE f]
       /\ tampered' = tampered \union {<<to, as>>}
       /\ UNCHANGED <<family, machine, cmd, lost, commands, misdirected, escrowVars>>

(* The host is gone, with its chip, its TPM and its disk. *)
Lose(h) ==
    /\ Event
    /\ cmd = Idle /\ h \notin lost
    /\ lost' = lost \union {h}
    /\ UNCHANGED <<family, machine, cmd, commands, diskVars, escrowVars>>

Settings(h) ==
    {[machine[h] EXCEPT !.image = i] : i \in Images} \union
    {[machine[h] EXCEPT !.boot = b] : b \in Boots} \union
    {[machine[h] EXCEPT !.mode = o] : o \in Modes} \union
    {[machine[h] EXCEPT !.escrowPath = p] : p \in Paths}

(* The file seal-keys is at, when it is at one. *)
AtFile(at) == cmd.at = at /\ cmd.i \in DOMAIN Names

KeyStoreNext ==
    \/ \E h \in Hosts : SealKeysStart(h)
    \/ \E h \in Hosts : runSealKeys(h)
    \/ AtFile("next") /\ SealKeysSkip(cmd.host, Names[cmd.i])
    \/ AtFile("next") /\ \E broken \in BOOLEAN :
          SealKeysSeal(cmd.host, Names[cmd.i], IF broken THEN {} ELSE
              UNION {SealerFor(cmd.host, machine[cmd.host], kind) : kind \in TEESealer(cmd.host)})
    \/ AtFile("rename") /\ replaceFile(cmd.host, Names[cmd.i])
    \/ SealKeysDone
    \/ \E h \in Hosts, pcr0 \in Images \union {NoImage}, kms \in KMSKeys :
          sealNitroKeys(h, pcr0, kms)
    \/ AtFile("nitro") /\ NitroKeep(cmd.host, Names[cmd.i])
    \/ AtFile("nitro") /\ NitroSeal(cmd.host, Names[cmd.i])
    \/ AtFile("nitro rename") /\ NitroReplace(cmd.host, Names[cmd.i])
    \/ \E h \in Hosts, k \in 1 .. MaxProvisions, out \in Paths, rec \in Paths \union {"none"} :
          ProvisionStart(h, k, out, rec)
    \/ ProvisionOut
    \/ ProvisionPub
    \/ ProvisionRecovery
    \/ \E h \in Hosts, out \in Paths : EscrowKeygen(h, out)
    \/ Crash
    \/ \E h \in Hosts : \E m \in Settings(h) : Reconfigure(h, m)
    \/ \E h \in Hosts, n \in NameSet, to \in Hosts, as \in NameSet, relabel \in BOOLEAN :
          CopyFile(h, n, to, as, relabel)
    \/ \E h \in Hosts : Lose(h)

KeyStoreSpec == KeyStoreInit /\ [][KeyStoreNext]_keyStoreVars

-----------------------------------------------------------------------------
(* Properties *)

(* The settings a host can be brought to. *)
AnySetting == [image : Images, boot : Boots, mode : Modes, escrowPath : {"unset"}]

KeyStoreTypeOK ==
    /\ family \in [Hosts -> Families]
    /\ lost \subseteq Hosts
    /\ made \in 0 .. MaxProvisions
    /\ reported \subseteq 1 .. MaxProvisions
    /\ tampered \subseteq Hosts \X NameSet /\ misdirected \subseteq Hosts \X NameSet
    /\ commands \in 0 .. MaxCommands /\ events \in 0 .. MaxEvents

(* A sealed key file opens only as the secret it was sealed as, whatever    *)
(* path it is copied to and whatever its clear fields are edited to say,    *)
(* and only on the host it was sealed on unless its sealer is bound to the *)
(* image or the fleet alone (sealed_secret.go:6, sealer_for.go).           *)
OpensOnlyAsSealed ==
    \A h \in Hosts, n \in NameSet :
        files[h][n].form = "sealed" =>
            \A m \in AnySetting : \A k \in readSecret(h, m, files[h][n], n) :
                /\ k[2] = n
                /\ \/ k[1] = h
                   \/ family[k[1]] = family[h] /\ files[h][n].sealer \in {"simulated", "aws-kms-attested"}
                   \/ family[k[1]] = family[h] /\ family[h] = "aws-sev-snp" /\ files[h][n].sealer = "sev"

(* Sealing never loses a key by itself: at every point of every command, a  *)
(* process death or a refused write included, the file at a key's path is  *)
(* the bare key or one that some setting of its own host opens to that key.  *)
(* The commands of a host that seals for itself keep this whatever their    *)
(* sealer makes, because they open a sealed file before they rename it over *)
(* the bare one.  The Nitro command cannot open what it seals, and keeps it *)
(* for a PCR0 some image has under a KMS key its enclave can use: what it   *)
(* replaces under other inputs is excepted, and only that                   *)
(* (acp-bootstrap seal_keys.go:108-137 and 185-217).                        *)
KeySurvivesSealing ==
    \A h \in Hosts \ lost, n \in NameSet :
        <<h, n>> \notin tampered \union misdirected =>
            \E m \in AnySetting : <<h, n>> \in readSecret(h, m, files[h][n], n)

(* A genome sealed to an escrow key that was ever published can be opened: *)
(* as long as the host stands its file opens to that key under some        *)
(* setting of the host, and once a provisioning reported a recovery        *)
(* envelope, that envelope opens to it after every host is gone            *)
(* (escrow_provision.go:157-196).                                          *)
PublishedCanBeOpened ==
    \A k \in 1 .. MaxProvisions :
        published[k] # NoKey =>
            LET h == published[k][1]
                s == escrow[h][published[k][2]]
            IN /\ h \notin lost =>
                    \/ s = [form |-> "plaintext", key |-> k]
                    \/ \E m \in AnySetting : \E x \in loadEscrowKey(h, m, s) : EscrowOpen(EscrowSeal(k), x)
               /\ k \in reported => \E x \in RecoveredKeys : EscrowOpen(EscrowSeal(k), x)
=============================================================================
