----------------------------- MODULE KeyRelease -----------------------------
(***************************************************************************)
(* The release of genome keys to another cloud (ADR 0009 to 0011, 0029):   *)
(*   internal/vault/kms           the coordinator, its policy, the         *)
(*                                confirmation; internal/vault/revocation  *)
(*                                the operator's stop list;                *)
(*   cmd/sagvd/crosscloud_*.go    the two commands, one process each, that *)
(*                                hold the cross-cloud audit log open;     *)
(*   internal/bootstrap           the destination daemon: crosscloud       *)
(*                                (Receiver) and restorer.                 *)
(*                                                                         *)
(* A run of crosscloud-restore is a number: it stands for the request id,  *)
(* the nonce and the token id, all fresh in every run.  A handshake key is *)
(* a number too.  HTTP calls are messages that stay in the network for     *)
(* ever: they may be lost (never received), late, and received twice.      *)
(* Signatures and Evidence are assumed to work.                            *)
(***************************************************************************)
EXTENDS Naturals, Sequences, FiniteSets, SequencesExt, FiniteSetsExt

CONSTANTS
    Decisions,
    Keys,          \* key ids
    GenomeKeys,    \* the key ids that name a genome (bundle.IsKeyID)
    Images,        \* measurements a destination may run
    Known,         \* the ones the verifier registry accepts
    Allowed,       \* the allow-list
    Lists,         \* Lists[s]: the images the stop list of serial s denies
    SourceSuites, DestSuites,   \* KEM suites, in order of preference
    Gated, GateRequired,        \* GateConfig is set, and Required
    MaxPending,    \* bound of the receiver's table
    MaxRuns, MaxHandshakes, MaxRestarts     \* bounds of the model

ASSUME KeysAssumption == GenomeKeys \subseteq Keys
ASSUME ListsAssumption == Lists \in Seq(SUBSET Images) /\ Lists # <<>>
ASSUME BoundsAssumption ==
    MaxPending \in Nat /\ MaxRuns \in Nat /\ MaxHandshakes \in Nat
    /\ MaxRestarts \in Nat

VARIABLES
    \* the release host
    list,      \* the serial of the stop list at list_path
    runs,      \* how many commands have run
    cmd,       \* the command that holds the audit log, or Idle
    audit,     \* the cross-cloud audit log
    net,       \* every message sent
    \* the destination
    image,     \* its TEE's measurement
    restarts, handshakes,
    pending,   \* Receiver.pending: run -> handshake key
    delivered, \* Receiver.delivered: key id -> the key registered under it
    keystore,  \* the in-memory keystore
    entries,   \* Restorer.entries
    work,      \* the restore in progress
    receipts,  \* the receipts on disk
    bundles    \* key ids whose bundle is in BundleDir

source == <<list, runs, cmd, audit>>
receiver == <<handshakes, pending, delivered>>
restorer == <<entries, work, receipts>>
vars == <<source, net, image, restarts, receiver, keystore, restorer, bundles>>

-----------------------------------------------------------------------------
None == "none"
Idle == [pc |-> "idle"]
Runs == 1..MaxRuns
Materials == {1, 2}     \* a genome's key id carries a tag of its one key
Levels == {"EXACT", "EQUIVALENT", "FAIL"}
Verdicts == Levels \cup {None}
Receipt == [run : Runs, image : Images, gate : Verdicts]
NoReceipt == [run |-> 0]

\* SuitePolicy.Choose: the first suite offered that is accepted here.
Choose(offered, accepted) ==
    LET common == SelectSeq(offered, LAMBDA s : s \in ToSet(accepted))
    IN  IF common = <<>> THEN None ELSE Head(common)

\* readKeyFiles, openEscrows: what a command may be given to release.
KeyMaterial ==
    {m \in UNION {[K -> Materials] : K \in SUBSET Keys \ {{}}} :
        \A k \in DOMAIN m \cap GenomeKeys : m[k] = 1}

Handshake(r, d) == [type |-> "handshake", run |-> r, decision |-> d]
Answer(r, h, suite, i) ==
    [type |-> "answer", run |-> r, key |-> h, suite |-> suite, image |-> i]
Token(c) == [type |-> "token", run |-> c.run, decision |-> c.decision,
             key |-> c.key, image |-> c.image, wrapped |-> c.keys]
Accepted(r) == [type |-> "accepted", run |-> r]

-----------------------------------------------------------------------------
(* The audit log: one command has it open at a time, so a set of events,    *)
(* each with its run, says what the sequence says.                          *)

Decision(kind, c) ==
    [kind |-> kind, run |-> c.run, decision |-> c.decision,
     keys |-> DOMAIN c.keys, image |-> c.image, serial |-> c.serial]

Decided == {e \in audit : e.kind \in {"KEY_RELEASE_AUTHORIZED",
                                      "KEY_RELEASE_DENIED"}}
Releases == {e \in audit : e.kind = "KEY_RELEASE_AUTHORIZED"}

\* revocation.HighestSerial
HighestSerial == Max({e.serial : e \in Decided} \cup {0})

\* FindAuthorizedRelease: the latest one of the decision.
LatestRelease(d) ==
    CHOOSE e \in Releases : /\ e.decision = d
                            /\ \A f \in Releases : f.decision = d => f.run <= e.run

\* LoadCrossCloudMaterials: the log is locked, the list not rolled back.
MaterialsLoad == cmd = Idle /\ list >= HighestSerial

-----------------------------------------------------------------------------
(* sagvd crosscloud-restore: CoordinateRestore.                             *)

\* The intent is recorded, then the handshake sent.
Initiate(d, m) ==
    /\ MaterialsLoad
    /\ runs < MaxRuns
    /\ runs' = runs + 1
    /\ cmd' = [pc |-> "handshake", run |-> runs', decision |-> d, keys |-> m,
               serial |-> list, key |-> 0, image |-> None]
    /\ audit' = audit \cup {[kind |-> "HANDSHAKE_INITIATED", run |-> runs',
                             decision |-> d]}
    /\ net' = net \cup {Handshake(runs', d)}
    /\ UNCHANGED <<list, image, restarts, receiver, keystore, restorer,
                   bundles>>

\* deny: the refusal stands whether or not it can be recorded.
Deny(c) ==
    /\ cmd' = Idle
    /\ \/ audit' = audit \cup {Decision("KEY_RELEASE_DENIED", c)}
       \/ audit' = audit

Answers(a) == cmd.pc = "handshake" /\ a.type = "answer" /\ a.run = cmd.run

\* The suite is one of ours; the Evidence verifies for the presented key,
\* the suite and this run's nonce.
Verifies(a) == a.suite \in ToSet(SourceSuites) /\ a.image \in Known

DenyAttestation(a) ==
    /\ Answers(a) /\ ~Verifies(a)
    /\ Deny(cmd)
    /\ UNCHANGED <<list, runs, net, image, restarts, receiver, keystore,
                   restorer, bundles>>

VerifyAttestation(a) ==
    /\ Answers(a) /\ Verifies(a)
    /\ cmd' = [cmd EXCEPT !.pc = "verified", !.key = a.key, !.image = a.image]
    /\ audit' = audit \cup {[kind |-> "ATTESTATION_VERIFIED", run |-> cmd.run,
                             decision |-> cmd.decision]}
    /\ UNCHANGED <<list, runs, net, image, restarts, receiver, keystore,
                   restorer, bundles>>

\* Gate.AuthorizeKeyRelease: the stop list, then the allow-list.
Authorized(c) == c.image \notin Lists[c.serial] /\ c.image \in Allowed

DenyByPolicy ==
    /\ cmd.pc = "verified" /\ ~Authorized(cmd)
    /\ Deny(cmd)
    /\ UNCHANGED <<list, runs, net, image, restarts, receiver, keystore,
                   restorer, bundles>>

\* Mutant of Release: the token may leave although the log took no record.
ReleaseUnrecorded ==
    /\ cmd.pc = "verified" /\ Authorized(cmd)
    /\ \/ audit' = audit \cup {Decision("KEY_RELEASE_AUTHORIZED", cmd)}
       \/ audit' = audit
    /\ net' = net \cup {Token(cmd)}
    /\ cmd' = [cmd EXCEPT !.pc = "sent"]
    /\ UNCHANGED <<list, runs, image, restarts, receiver, keystore, restorer,
                   bundles>>

\* The keys are wrapped, the release recorded, the token sent.
Release ==
    /\ cmd.pc = "verified" /\ Authorized(cmd)
    /\ audit' = audit \cup {Decision("KEY_RELEASE_AUTHORIZED", cmd)}
    /\ net' = net \cup {Token(cmd)}
    /\ cmd' = [cmd EXCEPT !.pc = "sent"]
    /\ UNCHANGED <<list, runs, image, restarts, receiver, keystore, restorer,
                   bundles>>

Dispatched ==
    /\ cmd.pc = "sent" /\ Accepted(cmd.run) \in net
    /\ cmd' = Idle
    /\ UNCHANGED <<list, runs, audit, net, image, restarts, receiver, keystore,
                   restorer, bundles>>

\* A call fails or times out, the log refuses an event, the process dies: the
\* command returns, and what is on the record stays.
GiveUp ==
    /\ cmd # Idle
    /\ cmd' = Idle
    /\ UNCHANGED <<list, runs, audit, net, image, restarts, receiver, keystore,
                   restorer, bundles>>

\* acpctl stop issue: any list ever issued may be put at list_path.
PlaceList(s) ==
    /\ list' = s
    /\ UNCHANGED <<runs, cmd, audit, net, image, restarts, receiver, keystore,
                   restorer, bundles>>

-----------------------------------------------------------------------------
(* The destination's Receiver.                                              *)

Outstanding == {r \in Runs : pending[r] # 0}

\* HandleHandshakeRequest: a fresh key under a suite both accept, kept against
\* the request id; Evidence over it.
HandleHandshake(m) ==
    /\ m.type = "handshake"
    /\ Choose(SourceSuites, DestSuites) # None
    /\ pending[m.run] = 0 /\ Cardinality(Outstanding) < MaxPending
    /\ handshakes < MaxHandshakes
    /\ handshakes' = handshakes + 1
    /\ pending' = [pending EXCEPT ![m.run] = handshakes']
    /\ net' = net \cup {Answer(m.run, handshakes',
                               Choose(SourceSuites, DestSuites), image)}
    /\ UNCHANGED <<source, image, restarts, delivered, keystore, restorer,
                   bundles>>

\* purgeExpiredLocked, or take after the expiry.
Expire(r) ==
    /\ pending[r] # 0
    /\ pending' = [pending EXCEPT ![r] = 0]
    /\ UNCHANGED <<source, net, image, restarts, handshakes, delivered,
                   keystore, restorer, bundles>>

\* register: the key recorded as delivered is not registered again; another
\* one under a key id the keystore holds is refused.
Delivers(k, v) == delivered[k] = v
Conflicts(wrapped) ==
    {k \in DOMAIN wrapped : ~Delivers(k, wrapped[k]) /\ keystore[k] # 0}

Register(wrapped, ks) ==
    LET new == {k \in ks : ~Delivers(k, wrapped[k])}
    IN  /\ keystore' = [k \in Keys |-> IF k \in new THEN wrapped[k]
                                                    ELSE keystore[k]]
        /\ delivered' = [k \in Keys |-> IF k \in new THEN wrapped[k]
                                                     ELSE delivered[k]]

NoEntry == [state |-> None, run |-> 0, signed |-> NoReceipt]

\* Restorer.Delivered: a genome that is restored or on its way stays as it is.
Delivered(ks, r) ==
    entries' = [k \in Keys |->
        IF /\ k \in ks \cap GenomeKeys
           /\ entries[k].state \in {None, "failed", "gate_failed"}
        THEN [state |-> "waiting", run |-> r, signed |-> NoReceipt]
        ELSE entries[k]]

\* take: gone afterwards, whatever happens.
Take(r) == pending' = [pending EXCEPT ![r] = 0]

Opens(m) ==
    /\ m.type = "token"
    /\ m.image = image /\ pending[m.run] # 0

HandleToken(m) ==
    /\ Opens(m) /\ pending[m.run] = m.key
    /\ Take(m.run)
    /\ IF Conflicts(m.wrapped) = {}
       THEN /\ Register(m.wrapped, DOMAIN m.wrapped)
            /\ Delivered(DOMAIN m.wrapped, m.run)
            /\ net' = net \cup {Accepted(m.run)}
       ELSE \* the keys before the one refused stay registered
            /\ \E ks \in SUBSET (DOMAIN m.wrapped \ Conflicts(m.wrapped)) :
                  Register(m.wrapped, ks)
            /\ UNCHANGED <<net, entries>>
    /\ UNCHANGED <<source, image, restarts, handshakes, work, receipts,
                   bundles>>

\* The token was sealed to a key of an earlier handshake of the same run.
TokenDoesNotOpen(m) ==
    /\ Opens(m) /\ pending[m.run] # m.key
    /\ Take(m.run)
    /\ UNCHANGED <<source, net, image, restarts, handshakes, delivered,
                   keystore, restorer, bundles>>

-----------------------------------------------------------------------------
(* The destination's Restorer: one restore at a time.                       *)

NoWork == [step |-> None]
At(step) == work.step = step
SetState(k, v) == entries' = [entries EXCEPT ![k].state = v]

ReceiveBundle(k) ==
    /\ k \in GenomeKeys \ bundles
    /\ bundles' = bundles \cup {k}
    /\ UNCHANGED <<source, net, image, restarts, receiver, keystore, restorer>>

\* work, restoreOne: a waiting key whose bundle is found.
StartRestore(k) ==
    /\ work = NoWork /\ entries[k].state = "waiting" /\ k \in bundles
    /\ work' = [step |-> "open", kid |-> k, gate |-> None,
                signed |-> NoReceipt]
    /\ SetState(k, "restoring")
    /\ UNCHANGED <<source, net, image, restarts, receiver, keystore, receipts,
                   bundles>>

\* open: with the key as the keystore holds it.
OpenBundle ==
    /\ At("open") /\ keystore[work.kid] # 0
    /\ work' = [work EXCEPT !.step = "gate"]
    /\ IF Gated THEN SetState(work.kid, "gating") ELSE UNCHANGED entries
    /\ UNCHANGED <<source, net, image, restarts, receiver, keystore, receipts,
                   bundles>>

\* runGate: a verdict, or none where none is required.
RunGate(verdict) ==
    /\ At("gate")
    /\ verdict = None => ~Gated \/ ~GateRequired
    /\ verdict # None => Gated
    /\ work' = [work EXCEPT !.step = "sign", !.gate = verdict]
    /\ UNCHANGED <<source, net, image, restarts, receiver, keystore, entries,
                   receipts, bundles>>

\* Mutant of RestoreFails: the record is left as it was.
RestoreFailsSilently ==
    /\ At("open") \/ At("gate") \/ At("sign")
    /\ work' = NoWork
    /\ UNCHANGED <<source, net, image, restarts, receiver, keystore, entries,
                   receipts, bundles>>

\* The key is not held, the bundle does not restore, the gate cannot run, the
\* receipt cannot be signed or kept.
RestoreFails ==
    /\ At("open") \/ At("gate") \/ At("sign")
    /\ work' = NoWork
    /\ SetState(work.kid, "failed")
    /\ UNCHANGED <<source, net, image, restarts, receiver, keystore, receipts,
                   bundles>>

WorkReceipt == [run |-> entries[work.kid].run, image |-> image,
                gate |-> work.gate]

\* sign: on disk first.
SaveReceipt ==
    /\ At("sign")
    /\ receipts' = [receipts EXCEPT ![work.kid] = WorkReceipt]
    /\ work' = [work EXCEPT !.step = "mark", !.signed = WorkReceipt]
    /\ UNCHANGED <<source, net, image, restarts, receiver, keystore, entries,
                   bundles>>

StateOf(gate) == IF gate = "FAIL" THEN "gate_failed" ELSE "restored"

MarkRestored ==
    /\ At("mark")
    /\ SetState(work.kid, StateOf(work.gate))
    /\ work' = [work EXCEPT !.step = "keep"]
    /\ UNCHANGED <<source, net, image, restarts, receiver, keystore, receipts,
                   bundles>>

\* Into whichever entry the key id has by then.
KeepSigned ==
    /\ At("keep")
    /\ entries' = [entries EXCEPT ![work.kid].signed = work.signed]
    /\ work' = [work EXCEPT !.step = "erase"]
    /\ UNCHANGED <<source, net, image, restarts, receiver, keystore, receipts,
                   bundles>>

EraseKey ==
    /\ At("erase")
    /\ keystore' = [keystore EXCEPT ![work.kid] = 0]
    /\ work' = NoWork
    /\ UNCHANGED <<source, net, image, restarts, receiver, entries, receipts,
                   bundles>>

\* loadReceipts
Reinstated(k) ==
    IF receipts[k] = NoReceipt THEN NoEntry
    ELSE [state |-> StateOf(receipts[k].gate), run |-> receipts[k].run,
          signed |-> receipts[k]]

\* The daemon stops or dies and starts again, perhaps as another image.
Restart(i) ==
    /\ restarts < MaxRestarts
    /\ restarts' = restarts + 1
    /\ image' = i
    /\ pending' = [r \in Runs |-> 0]
    /\ delivered' = [k \in Keys |-> 0]
    /\ keystore' = [k \in Keys |-> 0]
    /\ entries' = [k \in Keys |-> Reinstated(k)]
    /\ work' = NoWork
    /\ UNCHANGED <<source, net, handshakes, receipts, bundles>>

-----------------------------------------------------------------------------
(* sagvd crosscloud-confirm.                                                *)

\* Gate.Meets
Meets(gate, want) ==
    \/ want = None
    \/ gate = "EXACT"
    \/ gate = "EQUIVALENT" /\ want = "EQUIVALENT"

\* Mutant of Agrees: the release is known by its decision alone.
AgreesOnDecision(r, rel) == r.image = rel.image

\* The receipt is of the TEE the key went to and of this request and token.
Agrees(r, rel) == r.image = rel.image /\ r.run = rel.run

\* ConfirmRestore of the decision's latest release.
Confirm(d, k, want) ==
    /\ MaterialsLoad
    /\ \E e \in Releases : e.decision = d
    /\ LET rel == LatestRelease(d)
           r == entries[k].signed
       IN  /\ k \in rel.keys
           /\ r # NoReceipt /\ r.image \in Known
           /\ Agrees(r, rel) /\ Meets(r.gate, want)
           /\ audit' = audit \cup
                {[kind |-> "RESTORE_COMPLETED", run |-> rel.run, key |-> k,
                  receipt |-> r, want |-> want]}
    /\ UNCHANGED <<list, runs, cmd, net, image, restarts, receiver, keystore,
                   restorer, bundles>>

-----------------------------------------------------------------------------
Init ==
    /\ list = 1 /\ runs = 0 /\ cmd = Idle /\ audit = {} /\ net = {}
    /\ image \in Images /\ restarts = 0 /\ handshakes = 0
    /\ pending = [r \in Runs |-> 0]
    /\ delivered = [k \in Keys |-> 0]
    /\ keystore = [k \in Keys |-> 0]
    /\ entries = [k \in Keys |-> NoEntry]
    /\ work = NoWork
    /\ receipts = [k \in Keys |-> NoReceipt]
    /\ bundles = {}

RestorerNext ==
    \/ \E k \in Keys : StartRestore(k)
    \/ OpenBundle \/ RestoreFails \/ SaveReceipt \/ MarkRestored
    \/ KeepSigned \/ EraseKey
    \/ \E v \in Verdicts : RunGate(v)

Next ==
    \/ \E d \in Decisions, m \in KeyMaterial : Initiate(d, m)
    \/ \E a \in net : DenyAttestation(a)
    \/ \E a \in net : VerifyAttestation(a)
    \/ DenyByPolicy \/ Release \/ Dispatched \/ GiveUp
    \/ \E s \in 1..Len(Lists) : PlaceList(s)
    \/ \E m \in net : HandleHandshake(m)
    \/ \E m \in net : HandleToken(m)
    \/ \E m \in net : TokenDoesNotOpen(m)
    \/ \E r \in Runs : Expire(r)
    \/ \E k \in Keys : ReceiveBundle(k)
    \/ RestorerNext
    \/ \E i \in Images : Restart(i)
    \/ \E d \in Decisions, k \in Keys, w \in {None, "EQUIVALENT", "EXACT"} :
          Confirm(d, k, w)

Spec == Init /\ [][Next]_vars

\* The restorer's goroutine runs.
FairSpec == Spec /\ WF_vars(RestorerNext)

-----------------------------------------------------------------------------
TypeOK ==
    /\ list \in 1..Len(Lists) /\ runs \in 0..MaxRuns
    /\ cmd.pc \in {"idle", "handshake", "verified", "sent"}
    /\ image \in Images /\ restarts \in 0..MaxRestarts
    /\ handshakes \in 0..MaxHandshakes
    /\ pending \in [Runs -> 0..MaxHandshakes]
    /\ delivered \in [Keys -> {0} \cup Materials]
    /\ keystore \in [Keys -> {0} \cup Materials]
    /\ entries \in [Keys -> [state : {None, "waiting", "restoring", "gating",
                                      "restored", "gate_failed", "failed"},
                             run : 0..MaxRuns,
                             signed : {NoReceipt} \cup Receipt]]
    /\ work.step \in {None, "open", "gate", "sign", "mark", "keep", "erase"}
    /\ receipts \in [Keys -> {NoReceipt} \cup Receipt]
    /\ bundles \subseteq GenomeKeys

(* A key a destination holds was released to it on the record: to the image *)
(* it runs, which the verifier knows, the allow-list allows and the stop    *)
(* list the decision names does not deny, one no older than that of any     *)
(* decision before it, though the file may have been put back               *)
(* (CoordinateRestore emits KEY_RELEASE_AUTHORIZED before it sends the      *)
(* token, revocation.CheckNotRolledBack).                                   *)
KeyOnlyOnRecord ==
    \A k \in Keys : keystore[k] # 0 =>
        \E e \in Releases :
            /\ k \in e.keys /\ e.image = image
            /\ image \in Known \cap Allowed
            /\ image \notin Lists[e.serial]
            /\ \A f \in Decided : f.run < e.run => f.serial <= e.serial

(* A restore on the record was signed for by the TEE the recorded release   *)
(* names, under that release's own token, with the gate verdict the         *)
(* operator asked for (ConfirmRestore).                                     *)
ConfirmedIsTheRelease ==
    \A c \in {e \in audit : e.kind = "RESTORE_COMPLETED"} :
        /\ c.receipt.run = c.run
        /\ \E e \in Releases : /\ e.run = c.run /\ c.key \in e.keys
                               /\ e.image = c.receipt.image
        /\ c.want # None => c.receipt.gate \in {c.want, "EXACT"}

(* A released genome whose bundle is here is restored, or said to have      *)
(* failed: no restore stays on its way.                                     *)
ReleasedIsSettled ==
    \A k \in Keys :
        (entries[k].state = "waiting" /\ k \in bundles) ~>
            entries[k].state \in {None, "restored", "gate_failed", "failed"}

(* "On success, unwraps each WrappedKey and registers the result in the     *)
(* local keystore" (receiver.go): a genome queued by an accepted token has  *)
(* its key.                                                                 *)
AcceptedKeyIsHeld ==
    \A k \in Keys : entries[k].state = "waiting" => keystore[k] # 0

(* The remedy of docs/operator/06_cross_cloud_restore.md for a release      *)
(* whose token got no answer, to run the command again, ends in a restore   *)
(* that can be confirmed: when the latest release's token was accepted and  *)
(* the genome is restored here, the receipt is that release's.              *)
RetryCanBeConfirmed ==
    \A d \in Decisions, k \in GenomeKeys :
        (\E e \in Releases : e.decision = d) =>
            LET rel == LatestRelease(d)
            IN  /\ k \in rel.keys /\ Accepted(rel.run) \in net
                /\ entries[k].state = "restored" /\ work = NoWork
                /\ entries[k].signed.image = rel.image
                => Agrees(entries[k].signed, rel)
=============================================================================
