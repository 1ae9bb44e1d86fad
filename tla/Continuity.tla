----------------------------- MODULE Continuity -----------------------------
(***************************************************************************)
(* A genome's continuity: who its ancestors are, how it behaves, and that  *)
(* both were written down in a log nobody can rewrite.                     *)
(*   internal/contracts/genome_descriptor  the descriptor, named by its    *)
(*                                         own content                     *)
(*   internal/genome/store, succession     descriptors and their ancestry  *)
(*   internal/contracts/probe_battery      what was measured               *)
(*   internal/genome/witness, contracts/witness   the log, its heads and   *)
(*                                         receipts, and DetectFork        *)
(*   internal/vault/disclosure/issuer.go   Issue                           *)
(*   internal/contracts/continuity_proof   what Issue returns              *)
(* Two issuers share one log, each under a mutex of its own: what one has  *)
(* read is stale when it appends.  The log is in memory, so a restart      *)
(* begins a new one; the wall clock can be set back.                       *)
(*                                                                         *)
(* Hashes and signatures are constructors: equal only when what they cover *)
(* is.  A record's signature is the cover it was made over.                *)
(***************************************************************************)
EXTENDS Merkle, FiniteSets

CONSTANTS Issuers,      \* issuers on one log
          Bodies,       \* what descriptors describe, apart from the fields here
          Lineage,      \* body -> the bodies it was derived from, in order
          Subjects,     \* bodies proofs are asked for
          Suites,       \* signature suites of the keys descriptors are signed with
          Responses,    \* what a probe can be answered with
          WitnessKeys,  \* keys a log is started with
          EarlierSizes, \* entries the log holds when the model begins
          MaxGeneration, MaxAppends, MaxTime, MaxHeads, MaxFaults, MaxPath

Ed25519 == "ed25519"
Probes == 1..2
None == <<>>

VARIABLES clock,    \* the wall clock the issuers and the log read
          produced, \* descriptors a producer has signed
          store,    \* InMemoryStore: id -> descriptor
          log,      \* InMemoryLog.entries
          kid,      \* the key the log signs its heads with
          issuing,  \* Issue calls in progress, None when there is none
          heads,    \* signed tree heads someone has kept
          crashes, stepsBack, rot

vars == <<clock, produced, store, log, kid, issuing, heads,
          crashes, stepsBack, rot>>

-----------------------------------------------------------------------------
(* What was measured.                                                       *)

\* Scorecard.DeriveMerkleRoot: entries in the order of their probe ids.
ScorecardRoot(answers) ==
    ComputeMerkleRoot([p \in Probes |-> LeafHash(<<p, answers[p]>>)])

\* What the producer's own run of the battery was answered with.
Measured == CHOOSE answers \in [Probes -> Responses] : TRUE

\* ProbeBattery.DeriveMerkleRoot
BatteryRoot == ComputeMerkleRoot([p \in Probes |-> LeafHash(<<p, "probe">>)])

\* A scorecard and the attestation of the run it came from.
Scorecards(g) ==
    [genome : {g}, battery : {BatteryRoot}, answers : [Probes -> Responses]]
Attestation(s) ==
    [genome |-> s.genome, battery |-> s.battery,
     scorecard |-> ScorecardRoot(s.answers)]

-----------------------------------------------------------------------------
(* The descriptor.                                                          *)

\* derivationBytes: every field but the id and the signature, the suite too.
DeriveID(d) ==
    <<"gen", d.body, d.alg, d.parents, d.generation, d.battery, d.scores>>

\* CanonicalBytes: the id is covered as well.
Cover(d) == <<d.id, DeriveID(d)>>

\* validateProvenance: a genesis, and only a genesis, has no parents.
ProvenanceValid(d) ==
    /\ (d.generation = 0) = (d.parents = <<>>)
    /\ IsInjective(d.parents)
    /\ d.id \notin Range(d.parents)

\* GenomeDescriptor.Validate
Validate(d) == ProvenanceValid(d) /\ d.id = DeriveID(d)

VerifySignature(d) == Validate(d) /\ d.sig = Cover(d)

\* SignWith: RecordAlg leaves the field empty for ed25519 only.
SignWith(d, suite) ==
    LET named == [d EXCEPT !.alg = IF suite = Ed25519 THEN "" ELSE suite]
    IN  [named EXCEPT !.sig = Cover(named)]

\* A producer in the order SignWith documents: fields, DeriveID, SignWith.
Produce(body, parents, generation, suite) ==
    LET blank == [id |-> None, body |-> body, alg |-> "", parents |-> parents,
                  generation |-> generation, battery |-> BatteryRoot,
                  scores |-> ScorecardRoot(Measured), sig |-> None]
    IN  SignWith([blank EXCEPT !.id = DeriveID(blank)], suite)

\* InMemoryStore.Get: what is stored must still have the name asked for.
Get(id) == id \in DOMAIN store /\ DeriveID(store[id]) = id

\* succession.Walk with VerifySignatures: the stack holds the path from the
\* root to here, seen what the issuer has already put in its chain.
RECURSIVE Walk(_, _, _, _), WalkAll(_, _, _, _)
Walk(id, below, stack, seen) ==
    IF seen = <<"failed">> \/ id \in stack \/ ~Get(id) THEN <<"failed">>
    ELSE LET d == store[id]
         IN  IF (stack # {} /\ d.generation >= below) \/ ~VerifySignature(d)
             THEN <<"failed">>
             ELSE WalkAll(d.parents, d.generation, stack \cup {id},
                          IF id \in Range(seen) THEN seen ELSE Append(seen, id))
WalkAll(parents, below, stack, seen) ==
    IF parents = <<>> THEN seen
    ELSE WalkAll(Tail(parents), below, stack,
                 Walk(Head(parents), below, stack, seen))

\* loadAncestorChain
LoadAncestorChain(id) == Walk(id, 0, {}, <<>>)

-----------------------------------------------------------------------------
(* The log.                                                                 *)

\* canonicalLeafBytes, tagged and hashed.
LeafOf(e) ==
    LeafHash(<<e.index, e.prev, e.ts, e.genome, e.battery, e.scorecard, e.parent>>)
LeavesOf(entries) == [i \in DOMAIN entries |-> LeafOf(entries[i])]
ChainHead(entries) ==
    IF entries = <<>> THEN Zero ELSE LeafOf(entries[Len(entries)])

\* LogEntry.validateStructural: only the first entry hangs on nothing.
EntryValid(e) == (e.index = 0) = (e.prev = Zero)

\* Append's own fields of an entry.
Placed(e, entries) ==
    [e EXCEPT !.index = Len(entries), !.prev = ChainHead(entries)]

\* Mutant of HeadTimestamp: the newest entry's.
HeadTimestampOfEntry(entries) ==
    IF entries = <<>> THEN clock ELSE entries[Len(entries)].ts

\* headLocked: the clock, and never before the newest entry.
HeadTimestamp(entries) ==
    IF entries # <<>> /\ entries[Len(entries)].ts > clock
    THEN entries[Len(entries)].ts ELSE clock

\* headLocked.  Of "of" and "epoch" no code knows: the entries the head was
\* signed over, and the start of the log and setting of the clock it is of.
HeadOf(entries) ==
    [size |-> Len(entries), root |-> ComputeMerkleRoot(LeavesOf(entries)),
     chain |-> ChainHead(entries), ts |-> HeadTimestamp(entries), kid |-> kid,
     of |-> LeavesOf(entries), epoch |-> <<crashes, stepsBack>>]

\* SignedTreeHead.Validate
HeadValid(h) ==
    /\ (h.size = 0) = (h.root = Zero)
    /\ (h.size = 0) = (h.chain = Zero)
    /\ h.size = 1 => h.root = h.chain

\* Receipt
Receipt(index) ==
    [entry |-> log[index + 1], index |-> index, size |-> Len(log),
     path |-> InclusionPath(LeavesOf(log), index), head |-> HeadOf(log)]

\* WitnessReceipt.Validate
ReceiptValid(r) ==
    /\ EntryValid(r.entry) /\ HeadValid(r.head)
    /\ r.entry.index = r.index /\ r.size = r.head.size /\ r.index < r.size
    /\ r.head.ts >= r.entry.ts
    /\ r.size = r.index + 1 => r.head.chain = LeafOf(r.entry)
    /\ VerifyInclusion(LeafOf(r.entry), r.index, r.size, r.path, r.head.root)

\* Mutant of DetectFork: a proof that verifies is enough, whatever the sizes.
DetectForkBySize(a, b, path) ==
    IF a.kid # b.kid THEN "different_signers"
    ELSE IF a.size = b.size THEN "none"
    ELSE IF b.ts < a.ts THEN "timestamp_non_monotonic"
    ELSE IF VerifyConsistency(a.root, b.root, a.size, b.size, path)
    THEN "none" ELSE "inconsistent_proof"

\* DetectFork of two heads, the smaller first, and a proof of their sizes.
DetectFork(a, b, path) ==
    IF a.kid # b.kid THEN "different_signers"
    ELSE IF a.size = b.size
    THEN IF a.root # b.root THEN "same_size_different_root"
         ELSE IF a.chain # b.chain THEN "same_size_different_chain_head"
         ELSE "none"
    ELSE IF b.ts < a.ts THEN "timestamp_non_monotonic"
    ELSE IF VerifyConsistency(a.root, b.root, a.size, b.size, path)
    THEN "none" ELSE "inconsistent_proof"

-----------------------------------------------------------------------------
(* The proof Issue returns.                                                 *)

\* Mutant of IssuedAt: the issuer's clock as it was read at the start.
IssuedAtRead(call, r) == call.ts

\* Never before the head it cites.
IssuedAt(call, r) == IF call.ts < r.head.ts THEN r.head.ts ELSE call.ts

Proof(i) ==
    LET call == issuing[i]
        r == Receipt(call.index)
    IN  [subject |-> call.scorecard.genome, chain |-> call.chain,
         scorecard |-> call.scorecard, receipt |-> r,
         issuedAt |-> IssuedAt(call, r)]

\* validateAncestorChain, of descriptors as they were read.
AncestorsValid(p) ==
    LET ids == {p.chain[k].id : k \in DOMAIN p.chain}
        Of(id) == CHOOSE d \in Range(p.chain) : d.id = id
    IN  /\ p.chain # <<>> /\ p.chain[1].id = p.subject
        /\ Cardinality(ids) = Len(p.chain)
        /\ \A d \in Range(p.chain) :
               /\ Validate(d)
               /\ d.parents = <<>> => d.generation = 0
               /\ \A q \in Range(d.parents) :
                      q \in ids /\ Of(q).generation < d.generation
        /\ \E d \in Range(p.chain) : d.parents = <<>>

\* validateCrossBindings
BindingsValid(p) ==
    LET entry == p.receipt.entry
        root == ScorecardRoot(p.scorecard.answers)
    IN  /\ p.scorecard.genome = p.subject
        /\ p.scorecard.battery = p.chain[1].battery
        /\ root = p.chain[1].scores
        /\ entry.genome = p.subject
        /\ entry.battery = p.scorecard.battery /\ entry.scorecard = root
        /\ p.issuedAt >= p.receipt.head.ts

\* ContinuityProof.Validate and Verify
ProofValid(p) ==
    /\ AncestorsValid(p) /\ ReceiptValid(p.receipt) /\ BindingsValid(p)
    /\ \A d \in Range(p.chain) : VerifySignature(d)

-----------------------------------------------------------------------------
(* Actions.                                                                 *)

\* How often something went wrong: the bound on restarts, clock and rot.
Faults == crashes + stepsBack + rot

\* InMemoryStore.Put: a name that is taken keeps its bytes.
Stored(d) ==
    IF ~VerifySignature(d) \/ d.id \in DOMAIN store THEN store
    ELSE [id \in DOMAIN store \cup {d.id} |->
             IF id = d.id THEN d ELSE store[id]]

\* A producer signs a descriptor and offers it to the store.  It knows its
\* parents by name, and claims a generation.
ProduceDescriptor(body, generation, suite) ==
    LET Made(b) == CHOOSE d \in produced : d.body = b
        parents == [k \in DOMAIN Lineage[body] |-> Made(Lineage[body][k]).id]
        d == Produce(body, parents, generation, suite)
        bodies == {e.body : e \in produced}
    IN  /\ body \notin bodies /\ Range(Lineage[body]) \subseteq bodies
        /\ produced' = produced \cup {d}
        /\ store' = Stored(d)
        /\ UNCHANGED <<clock, log, kid, issuing, heads, crashes, stepsBack, rot>>

\* A descriptor is offered again, to a store that has lost it.
OfferAgain(d) ==
    /\ d \in produced /\ d.id \notin DOMAIN store /\ VerifySignature(d)
    /\ store' = Stored(d)
    /\ UNCHANGED <<clock, produced, log, kid, issuing, heads, crashes,
                   stepsBack, rot>>

\* The bytes behind a name change under the store.
Rot(id) ==
    /\ Faults < MaxFaults /\ rot' = rot + 1
    /\ store' = [store EXCEPT ![id].generation = @ + 1]
    /\ UNCHANGED <<clock, produced, log, kid, issuing, heads, crashes,
                   stepsBack>>

\* What Issue holds against what before it touches the log.
Bound(g, card, attestation) ==
    /\ attestation.genome = g
    /\ attestation.battery = card.battery
    /\ attestation.scorecard = ScorecardRoot(card.answers)
    /\ card.battery = store[g].battery
    /\ ScorecardRoot(card.answers) = store[g].scores

\* Issue up to the moment it reads the clock for its entry.
IssueBegins(i, g, card) ==
    LET chain == LoadAncestorChain(g)
    IN  /\ issuing[i] = None
        /\ Get(g) /\ store[g].body \in Subjects
        /\ Bound(g, card, Attestation(card))
        /\ chain # <<"failed">>
        /\ issuing' = [issuing EXCEPT ![i] =
               [step |-> "stamped", scorecard |-> card, ts |-> clock,
                index |-> 0, chain |-> [k \in DOMAIN chain |-> store[chain[k]]]]]
        /\ UNCHANGED <<clock, produced, store, log, kid, heads,
                       crashes, stepsBack, rot>>

\* The entry of a call: a genesis has no parent, a merge cites its first.
EntryFor(call) ==
    LET parents == call.chain[1].parents
    IN  [index |-> 0, prev |-> Zero, ts |-> call.ts,
         genome |-> call.scorecard.genome, battery |-> call.scorecard.battery,
         scorecard |-> ScorecardRoot(call.scorecard.answers),
         parent |-> IF parents = <<>> THEN None ELSE parents[1]]

\* Append: the log orders the issuers, and refuses one whose clock reading
\* is older than the entry before it.
IssueAppends(i) ==
    LET call == issuing[i]
        entry == Placed(EntryFor(call), log)
    IN  /\ call # None /\ call.step = "stamped"
        /\ Len(SelectSeq(log, LAMBDA e : e.scorecard # Zero)) < MaxAppends
        /\ IF log # <<>> /\ call.ts < log[Len(log)].ts
           THEN issuing' = [issuing EXCEPT ![i] = None] /\ log' = log
           ELSE /\ EntryValid(entry)
                /\ log' = Append(log, entry)
                /\ issuing' = [issuing EXCEPT ![i].step = "appended",
                                              ![i].index = Len(log)]
        /\ UNCHANGED <<clock, produced, store, kid, heads, crashes,
                       stepsBack, rot>>

Keep(h) == heads' = IF Cardinality(heads) < MaxHeads THEN heads \cup {h} ELSE heads

\* Receipt, SignWith and the final Validate.
IssueReturns(i) ==
    LET call == issuing[i]
    IN  /\ call # None /\ call.step = "appended"
        /\ ProofValid(Proof(i))
        /\ Keep(Proof(i).receipt.head)
        /\ issuing' = [issuing EXCEPT ![i] = None]
        /\ UNCHANGED <<clock, produced, store, log, kid, crashes, stepsBack, rot>>

\* The signer fails after the append: the entry stays, the proof is not made.
SignerFails(i) ==
    /\ issuing[i] # None /\ issuing[i].step = "appended"
    /\ issuing' = [issuing EXCEPT ![i] = None]
    /\ UNCHANGED <<clock, produced, store, log, kid, heads, crashes,
                   stepsBack, rot>>

\* Head, asked for by someone who keeps it.
Observe ==
    /\ Cardinality(heads) < MaxHeads
    /\ heads' = heads \cup {HeadOf(log)}
    /\ UNCHANGED <<clock, produced, store, log, kid, issuing, crashes,
                   stepsBack, rot>>

Tick ==
    /\ clock < MaxTime /\ clock' = clock + 1
    /\ UNCHANGED <<produced, store, log, kid, issuing, heads, crashes,
                   stepsBack, rot>>

\* The wall clock is set back.
StepBack ==
    /\ clock > 0 /\ Faults < MaxFaults
    /\ clock' = clock - 1 /\ stepsBack' = stepsBack + 1
    /\ UNCHANGED <<produced, store, log, kid, issuing, heads, crashes, rot>>

\* The process restarts: the log was in memory, and so was the store.
Crash(k) ==
    /\ Faults < MaxFaults /\ crashes' = crashes + 1
    /\ log' = <<>> /\ kid' = k
    /\ issuing' = [i \in Issuers |-> None]
    /\ store' = [id \in {} |-> None]
    /\ UNCHANGED <<clock, produced, heads, stepsBack, rot>>

\* The log of a process that has run for a while: n entries of one genesis.
RECURSIVE Earlier(_)
Earlier(n) ==
    IF n = 0 THEN <<>>
    ELSE LET before == Earlier(n - 1)
         IN  Append(before,
                    Placed([index |-> 0, prev |-> Zero, ts |-> 0,
                            genome |-> <<"gen", "earlier">>,
                            battery |-> BatteryRoot, scorecard |-> Zero,
                            parent |-> None], before))

Init ==
    /\ clock = 0 /\ produced = {} /\ store = [id \in {} |-> None]
    /\ \E n \in EarlierSizes : log = Earlier(n)
    /\ kid = CHOOSE k \in WitnessKeys : TRUE
    /\ issuing = [i \in Issuers |-> None]
    /\ heads = {} /\ crashes = 0 /\ stepsBack = 0 /\ rot = 0

Next ==
    \/ \E b \in Bodies, n \in 0..MaxGeneration, s \in Suites :
           ProduceDescriptor(b, n, s)
    \/ \E d \in produced : OfferAgain(d)
    \/ \E id \in DOMAIN store : Rot(id)
    \/ \E i \in Issuers, g \in DOMAIN store : \E card \in Scorecards(g) :
           IssueBegins(i, g, card)
    \/ \E i \in Issuers : IssueAppends(i)
    \/ \E i \in Issuers : IssueReturns(i)
    \/ \E i \in Issuers : SignerFails(i)
    \/ Observe
    \/ Tick
    \/ StepBack
    \/ \E k \in WitnessKeys : Crash(k)

Spec == Init /\ [][Next]_vars

-----------------------------------------------------------------------------
(* Properties.                                                              *)

\* At every moment of the log's life, what it hands out proves what it says
\* and nothing else: the audit path of entry j verifies for entry j at
\* position j only, by the log's verifier and by the component tree's alike,
\* and every earlier state of the log is shown to be one, whatever the shape
\* of the tree (buildInclusionPathInternal, subproofInternal and the
\* verifiers are four separate pieces of index arithmetic).
TreeProofs ==
    LET n == Len(log)
        leaves == LeavesOf(log)
        root == ComputeMerkleRoot(leaves)
    IN  /\ \A i, j \in 0..(n - 1) :
               LET path == InclusionPath(leaves, j)
               IN  /\ VerifyInclusion(leaves[j + 1], i, n, path, root) = (i = j)
                   /\ VerifyComponent(leaves[j + 1], i, n, path, root) = (i = j)
        /\ \A m, k \in 1..n :
               VerifyConsistency(ComputeMerkleRoot(SubSeq(leaves, 1, m)), root,
                                 k, n, ConsistencyPath(k, leaves)) = (m = k)

\* A log that was neither restarted nor had its clock set back between two
\* heads is never accused of a fork over them: DetectFork and the proof the
\* log makes for the two sizes agree that the larger grew out of the smaller,
\* in whatever order issuers and observers took them.
HonestNeverAccused ==
    \A a, b \in heads :
        a.epoch = b.epoch /\ a.size <= b.size =>
            DetectFork(a, b, ConsistencyPath(a.size, b.of)) = "none"

\* Two heads signed with one key over histories of which neither continues
\* the other are an incident whatever proof is put beside them: no path made
\* of the hashes of the two trees passes DetectFork (a log lost in a restart
\* and begun again is such a fork).
ForksAreFound ==
    \A a, b \in heads :
        a.size <= b.size /\ a.kid = b.kid /\ ~IsPrefix(a.of, b.of) =>
            \A path \in PathsOf(Subterms(a.root) \cup Subterms(b.root), MaxPath) :
                DetectFork(a, b, path) \notin {"none", "different_signers"}

\* An entry in the log is only ever without its proof because the signer
\* failed or the process stopped: once Issue has appended, the proof it
\* composes passes its own Validate and the receiver's Verify, however long
\* it waits, whatever others append meanwhile and wherever the clock is set
\* ("every validation this method can do BEFORE the append is done BEFORE
\* the append", issuer.go).
AppendedIsIssued ==
    \A i \in Issuers :
        issuing[i] # None /\ issuing[i].step = "appended" => ProofValid(Proof(i))

\* A descriptor whose parents and generation are in order and which was made
\* in the order SignWith documents passes step 4 of that order, Validate,
\* whatever the suite of the key.
ProducedValidates ==
    \A d \in produced : ProvenanceValid(d) => Validate(d)
=============================================================================
