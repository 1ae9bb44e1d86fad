# Specifications of vaultgenome

TLA+ modules for the parts of the platform whose correctness depends on order,
failure, restart and stale knowledge: the audit log, the job queue, the nine
stages of a request, the release of keys to another cloud, failover, the wire
between the authority and its workers, the reconstitution of a genome, its
continuity, remote attestation, key files and the console.  TLC checks them on
small instances; TLAPS proves most of their safety properties for every instance.

The models are translated from the Go source; a comment at each definition
names the function it stands for, and `PROJECT.json` (`map`) gives the lines.

## 1. The system

The platform keeps a fine-tuned model as a *genome*.  The authority (`sagvd`)
releases it only to an attested machine, after a gate, with every decision on a
signed hash-chained log; a sentinel on the primary seals new generations; a
failover moves the last clean one to a standby; a person may stop everything or
order a move from a console.

| Component | State it keeps | Talks to | What is hard | What makes it correct |
| - | - | - | - | - |
| Audit log (`internal/audit`, `cmd/sagvd/audit_returnpath.go`) and its verifier (`cmd/acpctl/audit_log.go`) | live file, archives, the chain's base, count and tip | every component that decides; the operator, who ships archives | a crash or a failed call between any two file operations; writers racing a rotation | one linked log: no fork, no loss; "broken" only for cause |
| Job queue and store (`cmd/sagvd/job_queue.go`, `internal/vault/jobstore`) | jobs and FIFO in memory; records and views on disk | HTTP API, sessions | memory changed under a lock and the disk after it | each job to one session, none lost, none for ever |
| Nine-stage flow and session driver (`internal/vault/orchestration`, `cmd/sagvd/daemon.go`) | machine state, session, manifest, decision | log, intake, trust, issuer, sequencer, validation, incidents | the log may refuse any record in the middle of a stage | release only on a complete record; record before effect |
| Key release (`internal/vault/kms`, `revocation`, `internal/bootstrap/crosscloud`, `restorer`) | request, token and handshake ids; the destination's keystore and receipts | HTTP between two hosts, the cross-cloud log | lost, late and repeated calls; restarts; a stop list replaced by an older one | a key goes only where a recorded decision says |
| Sentinel and failover (`internal/genome/sentinel`, `internal/vault/failover`) | outbox of chained records; triggers | outbox files, replication, key release | silence taken for death; intrusion between check and seal; two executors | one failover per policy, to a clean committed genome |
| Return Path and worker (`internal/compute`, `cmd/acp-compute`) | session state at both ends, slots | network | cut connections, deadlines, restarts | a job taken is held or given back; every session ends |
| Staged disclosure, bootstrap, reassembly, receiving validator (`internal/vault/disclosure`, `internal/bootstrap`, `internal/reassembly`, `internal/recvvalidator`) | sequence numbers, received components, results | each other, through callers | messages out of order, again, altered; failures after a record | what is accepted is the genome |
| Succession, witness log, continuity proof (`internal/genome`, `internal/contracts`) | descriptors, an append-only tree, signed heads | issuers, receivers, observers | ragged trees; issuers racing on one log; restart of a log in memory | proofs prove what they say; forks are found, honest logs never accused |
| Attestation (`internal/shared/tee`) | caches of vendor documents in memory and on disk | vendors' services | parts of several quotes; stale and garbage documents | only one machine's own current evidence is admitted, and a sound one is |
| Key files and sealing (`internal/shared/tee`, `internal/genome/escrow`, `cmd/*/seal_keys.go`) | sealed files, escrow key, recovery envelope | TEE, operator | a death between two replacements; another image; copied files | no key is lost, none opens as another |
| Console (`cmd/sagvd/console_*.go`, `internal/console`, `cmd/vgconsole`) | people, passes, stop list, moves | two authorities, a person's application | handlers cut short, lost answers, a target restarted between check and send | keys only where ordered; what is recorded as sent can be restored |
| Genome formats, canonical arithmetic, observability, operator tools | data | - | data, not order | not modelled |

## 2. The modules

`AuditLog` — State is the disk (`present`, `live`, `archives`, `shipped`), the
process (`pc`, `booting`, `target`, `handle`, `unrecorded`, and `base`, `n`,
`tip` of `PersistentChain`, `counter` of the emitter), the writers, and the
history variable `log`.  Every file operation of `store.Rotate`, `store.Create`
and `store.OpenLive` is one action, each with the failure the code handles, and
`Crash` may come between any two.  A start takes one of the four ways `OpenLive`
opens a log.  The hash of an event is its place in the order of storing: that
keeps "links to" exact and leaves cryptography out.
`AppendOnlyLog` is what the log promises a reader; `AuditVerify` is `acpctl
audit verify` over `AuditLog`'s files and the mapping (`DiskLog`) under which
`AuditLog` implements `AppendOnlyLog`.

`JobQueue` — Each operation is split where the code releases the queue's lock: the
change of memory is one action, each store transaction after it another.  A start
reads `Pending`, resumes or fails each record and serves; a resumed job is queued
in memory (`ResumeJob`) and its raised counter is written after it (`PutAgain`),
so a daemon may die between the two.  No session can take a job there:
`ResumeJobs` runs before the API and the dispatcher do
(`cmd/sagvd/main.go:328`).  `served` and `taken` count the processes whose
sessions were handed a job.  A stop lets sessions end.  A behaviour either
crashes, stops and requeues, or meets a store that refuses writes (`faulty`): a
store that refuses a write *and* loses its memory can answer nothing, and the code
says so in its log.

`Flow` — A stage holds the flow's lock, so it is one action: the events it
appends and what it changes.  Every way a stage can stop part-way is an action
too, after which `serveOne` aborts.  A crash breaks flows off: their jobs are
resumed by the next process under the same request id and on the same log
(`ResumeJobs`), failed there, or lost if they had not reached the store; and a
request whose finished job left memory may be submitted again.  `trail` is what
the present flow of a request put on the log, `earlier` what the flows before it
left there.

`KeyRelease` — `crosscloud-restore` and `crosscloud-confirm` (one process each),
the coordinator, its allow-list and the stop list, the destination's receiver
and restorer.  HTTP calls are messages that stay in the network: lost, late or
received twice.  A destination may be restarted, perhaps as another image.

`Sentinel`, `Failover` — the primary's ticks, tripwires, seals, heartbeats and
report, file by file in the outbox; and, over a replica of that outbox in which
any file may be late, the watch, the choice of a genome, the recorded decision
and the check that a policy is not spent.  `Failover` extends `Sentinel`, so the
run composes the two; the release itself is `KeyRelease`'s.

`ReturnPath` — the worker's dial-and-serve loop, the vault's accept loop and
slots, the attested handshake and the job exchange, over connections that keep
order but may be cut.  A deadline may pass at any step.

`Bootstrap` — the sequencer and staged issuer on the vault's side, the
orchestrator, the reassembler and the receiving validator on the other.  Callers
may hand in wrong manifests, maps and contents.

`Merkle`, `Continuity` — the trees of RFC 6962 with the provers and verifiers the
code has for each (the reference is the recursive definition of the RFC), and
over them descriptors, ancestry, the witness log, its heads and receipts,
`DetectFork`, `Issue` and the receiver's validation.

`Attestation` — eight families (SEV-SNP on three clouds and with Google's vTPM,
Azure's confidential GPU, TDX, Nitro, the simulation) and the external verifier,
evidence put together from parts of any quotes, vendors that withdraw, rotate,
answer wrongly or not at all, and the caches with their dates.

`KeyStore` — sealing in place, provisioning of the escrow key and the recovery
ceremony, as steps a process may die between, over sealers whose layers bind a
chip, an image or a boot.  The four seal-keys commands share one body; each of
its steps is mapped to one of the copies.  The Nitro command of `acp-bootstrap`
has its own: it keeps, seals and replaces file by file, without opening what it
sealed, and the operator may have given it the PCR0 of no image or a KMS key that
does not serve the enclave (`misdirected`).

`Console` — the people list, passes, the check, the stop and a planned move.
A handler's partial writes are the parameter `n` (or `written`) of its action; a
call may fail with its effect done.

`MC…` modules are the instances for TLC; `…Proofs` modules hold the theorems about
the module they are named after.  Two of them prove a second component:
`BootstrapProofs` also `KeyStore`, the key files of the hosts that take part, and
`ReturnPathProofs` also `Attestation`, what a session admits its peer on.  So that
one module can extend both, the specifications of the second are `KeyStoreSpec` and
`AttestationSpec`, and so for their initial predicates, steps and variables.

How they fit: `Flow` relies on a job being driven by one session (`JobQueue`'s
`HandedToOne`), `ReturnPath` hands jobs back to that queue, and all rely on the
log being one sequence that takes an event or refuses it (`AuditLog`'s
`ImplementsAppendOnlyLog`).  `Failover`'s release is `KeyRelease`; `Console`
names escrow keys that `KeyStore` seals.  There is no module that composes
queue, flow and log: their product is out of TLC's reach at useful bounds.

## 3. What the runs check

| Run | Instance | Properties |
| - | - | - |
| `audit_crash` | 2 writers, segments of 2 or by age, 5 events, 5 ids per life | `TypeOK`, `LogInv`, `NoFork`, `NoLoss`, `BrokenOnlyForCause`; `ImplementsAppendOnlyLog`, `Recovers` (fair) |
| `queue_restart` | 2 jobs, 2 sessions, 1 crash, 1 stop, 1 requeue, 2 attempts; or a store that refuses writes | `HandedToOne`, `AcceptedOnRecord`, `ResumesBounded`, `AlwaysAnswers`; `EveryJobEnds` (fair) |
| `queue_terminal` | 1 job, 2 sessions | `TerminalIsImmutable`, **violated** (below) |
| `flow_record` | 1 request of 3 components, 2 admissions of it on the log | `ReleaseOnRecord`, `RecordBeforeEffect`; `EveryFlowEnds` (fair) |
| `key_release` | 1 decision, 2 keys, 2 images, 2 stop lists, 2 runs, 2 handshakes, 1 restart | `KeyOnlyOnRecord`, `ConfirmedIsTheRelease`; `ReleasedIsSettled` (fair) |
| `failover` | 2 states, 2 seals, 2 heartbeats, 3 starts, 2 executors, 2 policies | `OneFailoverPerSerial`, `RestoredIsClean`, `ChosenWasCommitted`, `RecordedGenomeChecksOut` |
| `return_path` | 2 connections, 2 jobs, 2 slots | `TakenIsHeld`, `VaultHearsTheWorker`; `EverySessionEnds` (fair) |
| `bootstrap` | 2 components, 2 tries of each call | `AcceptedIsTheGenome`, `DisclosedOnRecord` |
| `continuity` | 2 issuers, trees to 7 leaves, 2 appends, 2 heads kept, 1 fault | `TreeProofs`, `HonestNeverAccused`, `ForksAreFound`, `AppendedIsIssued` |
| `attestation` | 2 machines, 2 challenges, 2 quotes, 8 families, 3 times | `AdmittedIsGenuine`, `RevocationTakesHold`, `CurrentIsEnough`, `SoundIsAdmitted` |
| `keystore` | 2 hosts of every pairing of 6 sealer families, 2 images, 2 boots, 2 commands, 2 events | `OpensOnlyAsSealed`, `KeySurvivesSealing`, `PublishedCanBeOpened` |
| `console` | 2 servers, 1 owner, 1 model, 2 codes, 2 orders, 2 stop lists, 2 faults | `KeyGoesWhereOrdered`, `SentCanBeRestored` |

Deadlock is not checked: every instance stops when its bounded inputs are used
up, and the systems themselves rest when nobody asks them anything.  The other
modules' `TypeOK` document the shape of their state and are not checked by a run.

### Bounds

*Audit log.*  Five events with segments of 2 give a middle segment, which the
verifier and `NewestArchive` need; `MaxIds` bounds refused appends in one life;
crashes are not bounded, as they lead back to known states.
*Queue.*  Two jobs and two sessions let one session requeue a job that the other
takes and let the submitter be late; a crash and a stop make two restarts, one of
which may end between the admission of a resumed job and the write of its
counter, so the bound of two attempts is reached and used up.
*Flow.*  Flows share no state that one could change for another (intake and
issuer are keyed), so one request stands for many; three components let a
disclosure stop before, between and after two others; two admissions
(`MaxFlows`) are a flow broken off or finished at any point and its successor.
A flow is broken off or forgotten only if it can have a successor, so the second
admission's flow is never cut.
*Key release.*  Two runs and two handshakes are a retry against a destination
that forgot the first; two lists and two images, a rollback and a wrong restart.
*Failover.*  Two seals make a clean and a tainted generation, three starts a
sentinel that crashes twice, two executors under two policies a race and a
superseded policy.
*Return path.*  Two connections let a worker dial again while the vault still
serves the old one; two slots, two jobs at once.
*Bootstrap.*  Two components can be swapped, repeated and left out; a second try
meets what the first left.
*Continuity.*  Earlier logs of 0, 3 and 5 entries and two appends reach every
ragged tree up to 7; two heads are what a fork needs.
*Attestation.*  Two machines to mix parts of, two challenges for a replay, a
validity of 1 so that documents expire twice.  *Key store.*  Two commands and two
events let each command be interrupted and repeated on a changed host.
*Console.*  Two orders are a move and its retry; two faults, a broken-off step
and a restart as another image.

Symmetry is used where names are interchangeable and no liveness is checked
(executors, issuers, machines and nonces, hosts with their images and paths).

### Fairness

`AuditLog`: strong fairness of opening and of the steps of a rotation, because a
supervisor starts the daemon again and a disk that is tried again and again works
in the end; crashes are allowed in between.  `JobQueue`: weak fairness of each
session, of a submission's write, of the steps of a restart and of exit.  `Flow`:
weak fairness of `serveOne` and of `ResumeJobs`' work on each stored job, as a
daemon that died is started again.  `KeyRelease`: weak fairness of the restorer's
goroutine alone; no call is assumed to arrive.  `ReturnPath`: weak fairness of
each session's steps and of the deadlines both ends set; that a cut connection
is noticed before its deadline is not assumed.  No client is assumed to submit,
no disk to fail or not to.

## 4. What is proved

Each theorem holds for every value of the constants that satisfies the module's
named assumptions; the bounds (`Max…`) are constants too, so a theorem about a
bounded model is one for every bound.  Each proof has one lemma per action, or
per group of actions that disturb the same part of the state; what a part of the
state needs from its neighbours is said by a conjunct with a name.

| Module | Theorems | Property |
| - | - | - |
| `AuditLogProofs` | `TypeCorrect`, `LogInvariant`, `NoForkTheorem`, `NoLossTheorem`, `Refinement`, `BrokenForCause` | `TypeOK`, `LogInv`, `NoFork`, `NoLoss`, `ImplementsAppendOnlyLog`, `BrokenOnlyForCause` |
| `JobQueueProofs` | `JobHandedToOne`, `ResumptionsBounded`, `AnsweredIsOnRecord`, `JobsAnswer` | `HandedToOne`, `ResumesBounded`, `AcceptedOnRecord`, `AlwaysAnswers` |
| `FlowProofs` | `FlowInvariant`, `EffectsAreRecorded`, `ReleasesAreRecorded` | `FlowInv`, `RecordBeforeEffect`, `ReleaseOnRecord` |
| `KeyReleaseProofs` | `ReleaseTypes`, `KeysAreReleased`, `ConfirmationsAreSound` | `TypeOK`, `KeyOnlyOnRecord`, `ConfirmedIsTheRelease` |
| `FailoverProofs` | `RecordedGenomesCheckOut`, `PolicyFailsOverOnce`, `ChosenIsCommitted`, `RestoredGenomeIsClean` | `RecordedGenomeChecksOut`, `OneFailoverPerSerial`, `ChosenWasCommitted`, `RestoredIsClean` |
| `ReturnPathProofs`, return path | `TakenJobsAreHeld`, `VaultHearsWhatWasSaid` | `TakenIsHeld`, `VaultHearsTheWorker` |
| `ReturnPathProofs`, attestation | `AdmittedMachinesAreGenuine`, `WithdrawnIsNotAdmitted`, `CurrentCachesSuffice`, `SoundMachinesAreAdmitted` | `AdmittedIsGenuine`, `RevocationTakesHold`, `CurrentIsEnough`, `SoundIsAdmitted` |
| `BootstrapProofs`, bootstrap | `AcceptedIsGenuine`, `DisclosuresAreRecorded` | `AcceptedIsTheGenome`, `DisclosedOnRecord` |
| `BootstrapProofs`, key store | `SealedFilesOpenAsSealed`, `SealingKeepsKeys`, `PublishedKeysOpen` | `OpensOnlyAsSealed`, `KeySurvivesSealing`, `PublishedCanBeOpened` |
| `ConsoleProofs` | `KeysGoWhereOrdered`, `SentIsWhole` | `KeyGoesWhereOrdered`, `SentCanBeRestored` |

*Audit log.*  Neither `NoFork` nor `NoLoss` is inductive: a start trusts the newest
archive, so it must be known that an interrupted rotation has left the segment
that ends the log in the archive directory (`Interrupted`), that closed segments
do not overlap (`Disjoint`), are as their names say (`ClosedWell`), and that at
each step of a rotation the process's count, tip and target agree with the disk
(`ProcessKnows`).  `LogInv` is the conjunction.  `LogInvariant` and its
consequences assume an operator who ships a segment only when its closing is on
the record (`~ShipsUnrecorded`); without it TLC finds a fork.  The refinement
follows from `LogInv`: one action of the log appends to `DiskLog`, all others,
the moves and removals of a rotation and the crashes included, leave it.  What the
verifier finds needs `ClosingInv` besides: every segment but the first begins with
the record of the closing of a closed segment, no other event is such a record,
and a daemon that takes appends has that record behind it.

*Job queue.*  `HandedToOne` needs where a job is to be known at each step of each
session (`QueueInv`: a queued job stands in the queue once, a running one is with
one session, one past its completion is finished, and no session holds anything
while the process is down or resumes).  The record's side is `StoreInv`, for a
store that takes its writes: the attempts on the record are at least the processes
that handed the job out (`AttemptInv`), and more than those as long as a job is
queued that this process has not handed out, its counter being written before the
dispatcher runs (`FreshInv`); a job the memory holds as unfinished is unfinished on
the record, and one that is unfinished on the record is in memory or still to be
resumed.  `OrderInv` (submissions are in order, once each, and a session's job is
in memory or finished) and `AnswerInv` (a job that leaves memory has its view) hold
whatever the store does.

*Flow.*  The invariant speaks of a request's present flow.  One no stage of which
has failed has on the record exactly the events of the stages behind it
(`Course`), and is at an end with the outcome its state says (`Standing`).  What a
flow holds is on its record, failed or not (`Effects`): that gives
`RecordBeforeEffect`.  With `TypeOK` they are `FlowInv`.  A flow that leaves memory
hands its events to `earlier` and the next starts from nothing, which is all a crash
needs (`GoneKeeps`).  A released flow's trail is then the whole record of a passing
flow, and as that record has one admission, at its beginning, it is what the log
holds from the request's last admission on (`LastAdmission`): `ReleaseOnRecord`.

*Key release.*  The invariant follows a key from the command to the keystore: the
command decides under the newest list any decision has named (`SourceInv`),
decisions on the record are sound and ordered (`AuditInv`), a token in the network
has its release on the record (`NetInv`), so has a key that is held (`KeyInv`).
That a token arrives again, or at a destination restarted as another image, needs
no case of its own: a token opens only for the image it was wrapped to.

*Failover.*  Two facts about the primary are kept apart.  What is recorded was
sealed as it is recorded, whatever the sentinel was doing when it died
(`PrimaryInv`); this holds in any case, and a replica with files missing can only
show such records, so `ChosenIsCommitted` and `RestoredGenomeIsClean` follow from
it with `DecisionInv` (a recorded failover is justified by the record it names).
And the generations recorded are an unbroken chain whose files are whole, which
the next seal continues (`ChainInv`): `RecordedGenomesCheckOut` needs it, and it
needs a directory that syncs (`SyncFails = FALSE`; otherwise TLC finds the
counterexample of section 5).

*Return path.*  `HeldInv` is the agreement of queue and sessions; that two sessions
never hold one job makes the cardinality in `TakenIsHeld` one.  `HeardInv` says that
a reject or an output under way is the one word the worker said on that
connection, and that a worker still on a connection has said none: a vault that
hears an answer after the worker went away still hears that answer.

*Bootstrap.*  Four parts of the state carry the argument, each by itself: the
vault's log is the sequence of the messages emitted (`IssuerInv`), what the
reassembler admitted is what the descriptor's map says (`ReaInv`), a verdict of
pass means a signed manifest (`VrsInv`), and the orchestrator is past a phase only
with what that phase established (`OrchInv`).  A map that has the descriptor's
leaves names every path, so a covered map gives the genome.  The receiver's events
are in order because during ingress there are as many as records (`RecordInv`);
an event without its record ends ingress.

*Attestation.*  Whose parts are admitted follows from the verifiers, family by
family, once it is known what can be wrong with a family's machines
(`DefectsOfFamilies`); no step matters to it but that evidence is made of quotes
and quotes of machines (`QuotesInv`).  The dates need `CachesInv`: every document in
memory or on disk, the garbage too, was issued by now and, if it does not know of
a replacement, before that replacement (`Dated`).  It is kept by every step because
what a client returns is what it kept or what it fetched today, and a publication
or a tick only moves the limits up.  With it a client that looks at a document's
date cannot admit what was withdrawn longer ago than a document lives.  The two
availability theorems share one lemma: which documents are enough for a sound
machine (`EnoughIsAdmitted`), and then that current caches, or vendors that answer,
provide them.  That a set fetched again holds the token's key needs that a quote
signed with the new key was made after the rotation.  `MaxTime` and `MaxQuotes` are
arbitrary, and so are the families: an unknown one is verified as the simulation.

*Key store.*  `KeyFilesInv` says where a file comes from: it is bare, or was sealed
on some host as some secret in that host's layers (`SealedByHost`), or for an image
that may be nobody's (`SealedForImage`), whatever its clear fields have been edited
to; the box repeats those fields, so an edited file does not open.
One nobody else touched was sealed on its own host, because `seal-keys` opens what
it is about to rename over the bare key, and the command in progress carries that
fact between the two steps (`Renaming`, `Writing`); the Nitro command opens
nothing, and what it replaces opens on its host because the PCR0 is some image's
and the KMS key serves it, or is excepted (`misdirected`).  An escrow file is written by
`O_EXCL` and never over another, so a published key stays where its publication
says (`EscrowInv`).

*Console.*  Orders are numbered and their author stays the holder (`OrderInv`).
What stands behind a move at each of its steps (`Behind`) is its order, the release
on the source's record, the files the steps before left on the target, and that
the key it carries is the pinned image's; a target restarted as another image
changes its own escrow key and not the one that was checked.

Assumptions beyond types and bounds, and why the code has them: a marker for "no
job", "no connection" or "no key" is none of them (`JobAssumption`,
`NoneAssumption`); policy serials are numbers (`FailoverAssumption`); there is a
stop list and every list names images (`ListsAssumption`); there is an image and a
boot to run (`KeyStoreAssumption`); a document is valid for some time, and short
challenges are among the challenges (`AttestationAssumption`).

Only model-checked:

- liveness (`Recovers`, `EveryJobEnds`, `EveryFlowEnds`, `ReleasedIsSettled`,
  `EverySessionEnds`): beyond this prover;
- `Continuity`'s `TreeProofs`, `HonestNeverAccused`, `ForksAreFound` and
  `AppendedIsIssued`: each rests on what the provers and verifiers of the Merkle
  tree compute for every number of leaves, and the last on the ancestors a walk
  returns too.  Both are recursions, and what a recursive definition computes for
  all inputs needs an induction that none of the provers can instantiate.

Every other invariant a run checks is a theorem.

## 5. What the code does not keep

Each of these is a definition of a module that quotes the repository; TLC refutes
it.  `queue_terminal` is kept as a run, the others are reproduced by naming the
definition as the property of the run's cfg.

| Definition | Said | Done |
| - | - | - |
| `JobQueue!TerminalIsImmutable` | "Terminal states are immutable" (`cmd/sagvd/job_queue.go:78`) | a late `Put(queued)` overwrites a finished record, which the next start admits again |
| `JobQueue!FinishedAnswers` | a finished job answers | a crash between status and view: it answers 404 |
| `JobQueue!StopKeepsInFlight` | an orderly stop keeps the job in flight | it is failed |
| `AuditLog!EventIdsUnique` | ids are unique | ids used up by refused appends are handed out again after a restart |
| `AuditLog!NoFork` with `ShipsUnrecorded` | a start refuses (ADR 0027) | a closed segment shipped before its closing is recorded lets the next start fork the log |
| `Flow!RefusedLeavesNothing` | a refused request leaves nothing behind | retried, it is a duplicate |
| `Flow!StoppedStageChangesNothing` | a stage that stops changes nothing | a session whose issuance is not on the record stays active |
| `KeyRelease!RetryCanBeConfirmed` | a retry can be confirmed (`docs/operator/06_cross_cloud_restore.md:587`) | not when the first token was the one that was received |
| `KeyRelease!AcceptedKeyIsHeld` | an accepted key is in the keystore (`receiver.go:299`) | the digest of a delivered key outlives the key (`receiver.go:414`): a re-release is answered as accepted and nothing is held |
| `Sentinel!RecordedGenomeChecksOut` with `SyncFails` | a recorded genome has its files | a record that is in place when the directory will not sync is taken for not written, and the next seal replaces the files of that generation |
| `ReturnPath!WorkerGoesOn` | every wire failure loops (`cmd/acp-compute/daemon.go:152`) | a cycle's own deadline is taken for the daemon's shutdown and ends the worker with status 0 (`daemon.go:180`) |
| `Continuity!ProducedValidates` | a produced descriptor validates (`genome_descriptor_sign.go:18`) | not one signed under a suite other than Ed25519 |
| `Attestation!ExpiredStopsBeingUsed` | what cache-status calls expired is not used (`cache_status.go:10`) | the SEV verifier goes on using it (`gcp_sev_snp_verify.go:158`) |
| `Console!BrokenOffLeavesNothing` | "a move that breaks off leaves nothing under the model's name on the target, so it can be pressed again" (ADR 0039) | one that breaks off between bundle and envelope leaves the bundle, and pressing again is refused as `already_here` |
| `Console!NothingReleasedWhileStopped` | "Nothing is released while the stop is on" (`cmd/sagvd/console_move.go:39`) | the stop is looked at once, before a move that may take hours |

Smaller observations, from reading and modelling, not stated as properties:

- *Job queue.*  "MaxResumeAttempts bounds how many times one job is admitted"
  (`cmd/sagvd/config.go:1077`), but a daemon that dies between a resumed job's
  admission and the write of its counter (`job_queue.go:432`, `:438`) admits it
  again with the old one, without limit.  What is bounded, and proved, is how many
  processes work on the job: nothing of it runs before that write.
- *Audit.*  `acpctl audit verify` answers "broken" while a live file is half
  created; `rotateIfDue` logs that the log refuses every append also when only
  the move failed and the file was opened again.  The sequencer's audit counter
  restarts in every flow, so disclosure event ids repeat.
- *Key release and failover.*  A decision recorded before a crash spends the
  policy; wires armed again after a restart take a tampered machine as their
  baseline; a key released again after a restart outlives its use.
- *Return path.*  A reject after an accept is a protocol violation to the
  server, although a comment of `client/session.go` calls it correct; a session
  waiting in `queue.Next` does not notice that its worker is gone; heartbeats are
  never sent.
- *Bootstrap.*  `MarkReassemblyFailed` is illegal while components arrive, so an
  `Admit` that fails must wait for all of them; the transition from ready to
  rejected has no operation; a manifest's deadline is not enforced; a second
  orchestrator for a manifest reuses its ids.
- *Continuity.*  A descriptor signed again with a randomised signature is
  reported as a collision; two issuers reading the clock in one order and
  appending in the other raise a tamper incident; a clock set back makes an
  honest log's heads non-monotonic; `Issue` appends before it signs, so a failed
  signature leaves an entry without a proof.
- *Attestation.*  A garbage VCEK answer stays in memory and on disk; JWKS and
  OCSP answers without a next update never expire; the GPU half is bound to the
  challenge and not to the machine; the order of GPU claims is a Go map's.
- *Key store.*  A death between `-out` and `-recovery-out` leaves a sealed,
  published escrow key with no recovery envelope, and a retry at the same path is
  refused; `replaceFile` does not sync; `sealNitroKeys` replaces a bare file
  without opening what it sealed, so a PCR0 of no image or a KMS key that does not
  serve the enclave loses the key: `KeySurvivesSealing` excepts exactly those paths.
- *Console.*  Used orders are kept in memory, so a restarted source takes one
  again; an expired peer stays listed, is let in by `handleJoin` and refused by
  the check after it, so moves from it fail until it is forgotten; two servers
  moving to each other wait for each other's `moveMu` until the six hours are
  over; `handleStop` takes the serial as 0 when the list in force does not read;
  `refreshJournal` ignores a page's first index, so a rotated segment looks
  broken, and skips its tip check for a journal shorter than the chip's count.

## 6. What is not modelled

Signatures, hashes and encryption (assumed to work), payload contents, times other
than "old enough or not", metrics and logs.  The queue without a store loses
everything by design.  Trust is an input of `Flow`, as are the verdicts of the
validation dimensions; sessions do not expire there: an expired one makes a stage
fail.  A request has one flow at a time: that intake forgets a request (after its
window, or 4096 later ones) while its flow is still under way, and the request is
submitted again so that two flows interleave on the log, is left out.  The
sequencer is modelled as the flow configures it (`FinalizeOnError`,
`flow.go:561`). `ReturnPath`'s `AttestAgain` takes a job and puts it back for
stale Evidence in one step.  Of sealed key files, those of older versions without
a sealer field (`sealed_secret.go:123`) and edits of the sealer and measurement
fields are left out; of OCSP answers, those without a next update
(`nvidia_ocsp.go:222`).  Genome formats and canonical arithmetic are data without
concurrent state; observability is output; the operator's one-shot tools are file
I/O.  Of the console, the reading of the journal and the web page; of the key
stores, tenant keys (no daemon derives them) and `acpctl recover`; of attestation,
the SGX adapters, whose hooks are unwired.

## 7. Plan

Theorems left: those of `Continuity`, which need a prover with induction over
sequences.  Modelling left: trust admission with the stop list inside a session,
session expiry and sweep, and the console's journal.
