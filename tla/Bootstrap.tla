----------------------------- MODULE Bootstrap -----------------------------
(***************************************************************************)
(* A genome released in components and reconstituted on the other side:    *)
(*   internal/vault/disclosure   the staged issuer and its sequencer;      *)
(*   internal/bootstrap          the receiving orchestrator;               *)
(*   internal/reassembly         the reassembler held to the descriptor;   *)
(*   internal/recvvalidator      the receiving validator.                  *)
(*                                                                         *)
(* Component i of the genome has the content i, at path i.  What the vault *)
(* seals as component i, the manifest the receiver was given and the map   *)
(* from components to paths come from callers and may be wrong; messages   *)
(* arrive in any order, again, altered, or from another session.  The      *)
(* caller of the receiving packages drives them as their integration tests *)
(* do, and may call any of them at any time.                               *)
(***************************************************************************)
EXTENDS Naturals, Sequences, FiniteSets, SequencesExt

CONSTANTS N,          \* the number of components
          MaxTries    \* bound on validations, and on failed decisions

ASSUME BootstrapAssumption == N \in Nat \ {0} /\ MaxTries \in Nat \ {0}

VARIABLES
    given,      \* what the callers handed in
    issuer,     \* the vault's StagedIssuer and sequencer
    vlog,       \* DISCLOSURE_AUTHORIZED events, in the vault's audit log
    env,        \* what expires or changes around the receiver
    orch,       \* the Orchestrator
    rea,        \* the AGDReassembler
    vrs,        \* the results the validator returned
    rlog        \* the receiver's audit chain

vars == <<given, issuer, vlog, env, orch, rea, vrs, rlog>>

-----------------------------------------------------------------------------
Parts == 1..N
None == "none"

\* DisclosureMessage i: its identifiers, and the content sealed in it: that of
\* a component, N + 1 for any other, 0 for a ciphertext that was altered and
\* does not open.
Message(i, b) == [id |-> i, comp |-> i, seq |-> i - 1, body |-> b, own |-> TRUE]

\* The descriptor commits to the components by their Merkle root: to the set
\* of its leaves, whatever identifiers a map gives them.
Agd == [leaves |-> {[path |-> p, hash |-> p] : p \in Parts}, count |-> N]

\* BuildTree
Leaves(map) == {[path |-> map[i], hash |-> map[i]] : i \in DOMAIN map}

\* The wire hashes the receiver commits to are those of the messages sent.
Committed(i) == Message(i, given.sealed[i])

\* What can reach the receiver.
Deliverable ==
    LET sent == {Committed(i) : i \in Parts}
    IN  IF issuer.done
        THEN sent \cup {[m EXCEPT !.body = 0] : m \in sent}
                  \cup {[m EXCEPT !.own = FALSE] : m \in sent}
        ELSE {}

-----------------------------------------------------------------------------
(* The vault: StagedSequencer.Run over a StagedIssuer.                      *)

Emitting == ~issuer.finalized /\ issuer.next <= N

\* Emit, then its event, then the message.
Emit ==
    /\ Emitting /\ issuer.session
    /\ vlog' = Append(vlog, issuer.next)
    /\ issuer' = [issuer EXCEPT !.next = @ + 1, !.finalized = issuer.next = N,
                                !.done = issuer.next = N]
    /\ UNCHANGED <<given, env, orch, rea, vrs, rlog>>

\* The session expired, or was invalidated: nothing more is emitted.
EmitRefused ==
    /\ Emitting /\ ~issuer.session
    /\ issuer' = [issuer EXCEPT !.finalized = TRUE]
    /\ UNCHANGED <<given, vlog, env, orch, rea, vrs, rlog>>

\* Mutant of AuthorizeFails: the message goes out without its event.
AuthorizeFailsAnyway ==
    /\ Emitting /\ issuer.session
    /\ issuer' = [issuer EXCEPT !.next = @ + 1, !.finalized = issuer.next = N,
                                !.done = issuer.next = N]
    /\ UNCHANGED <<given, vlog, env, orch, rea, vrs, rlog>>

\* The event is not recorded: the counter has moved, the message stays here.
AuthorizeFails ==
    /\ Emitting /\ issuer.session
    /\ issuer' = [issuer EXCEPT !.next = @ + 1, !.finalized = TRUE]
    /\ UNCHANGED <<given, vlog, env, orch, rea, vrs, rlog>>

SessionExpires ==
    /\ Emitting /\ issuer.session
    /\ issuer' = [issuer EXCEPT !.session = FALSE]
    /\ UNCHANGED <<given, vlog, env, orch, rea, vrs, rlog>>

-----------------------------------------------------------------------------
(* The orchestrator.                                                        *)

\* BootstrapManifest.Validate, of what the manifest lists.
ManifestValid(bm) ==
    /\ bm.ids # <<>> /\ Len(bm.comps) = Len(bm.ids)
    /\ IsInjective(bm.ids)

\* CheckAgreement: with the manifest the vault issued for its messages.
CheckAgreement(bm) == bm.binds /\ bm.ids = [i \in Parts |-> i]

Start ==
    LET bm == given.bm
    IN  /\ issuer.done /\ orch.state = "unstarted"
        /\ ManifestValid(bm) /\ (given.resolves => bm.signed)
        /\ CheckAgreement(bm)
        /\ orch' = [orch EXCEPT !.state = "ingress"]
        /\ UNCHANGED <<given, issuer, vlog, env, rea, vrs, rlog>>

\* latchRejection: the first reason stays.
Latched(o, reason, vr) ==
    [o EXCEPT !.state = "rejected",
              !.reason = IF @ = None THEN reason ELSE @,
              !.vr = IF o.reason = None THEN vr ELSE @]

\* The message belongs in this slot.
Fits(m, slot) ==
    /\ m.own /\ m.id = given.bm.ids[slot]
    /\ m.comp = given.bm.comps[slot] /\ m.seq = slot - 1
    /\ m = Committed(slot)

\* The event of a ReceivedDisclosure, which names it.
Received(m) == [kind |-> "received", id |-> m.id]

Accept(m) ==
    LET slot == Len(orch.received) + 1
        all == slot = Len(given.bm.ids)
    IN  /\ orch.state = "ingress" /\ Fits(m, slot)
        /\ rlog' = Append(rlog, Received(m))
        /\ orch' = [orch EXCEPT !.received = Append(@, m),
                                !.state = IF all THEN "reassemble" ELSE @]
        /\ UNCHANGED <<given, issuer, vlog, env, rea, vrs>>

AcceptRefuses(m) ==
    /\ orch.state = "ingress" /\ ~Fits(m, Len(orch.received) + 1)
    /\ orch' = Latched(orch, "reassembly_failed", 0)
    /\ UNCHANGED <<given, issuer, vlog, env, rea, vrs, rlog>>

\* The event is not recorded, or it is and the record is not signed.
AcceptFails(m, recorded) ==
    /\ orch.state = "ingress" /\ Fits(m, Len(orch.received) + 1)
    /\ rlog' = IF recorded THEN Append(rlog, Received(m)) ELSE rlog
    /\ orch' = Latched(orch, "reassembly_failed", 0)
    /\ UNCHANGED <<given, issuer, vlog, env, rea, vrs>>

\* The caller has a reassembled genome.
MarkReassembled ==
    /\ orch.state = "reassemble" /\ rea.final = "ok"
    /\ orch' = [orch EXCEPT !.state = "validate"]
    /\ UNCHANGED <<given, issuer, vlog, env, rea, vrs, rlog>>

\* An Admit or the Finalize of the caller failed.
MarkReassemblyFailed ==
    /\ orch.state = "reassemble" /\ rea.final # "ok"
    /\ orch' = Latched(orch, "reassembly_failed", 0)
    /\ UNCHANGED <<given, issuer, vlog, env, rea, vrs, rlog>>

\* The caller has a result, and passes its verdict on.
MarkValidated(v) ==
    /\ orch.state = "validate" /\ vrs[v].verdict = "pass"
    /\ orch' = [orch EXCEPT !.state = "ready", !.vr = v]
    /\ UNCHANGED <<given, issuer, vlog, env, rea, vrs, rlog>>

MarkValidationFailed(v) ==
    /\ orch.state = "validate" /\ vrs[v].verdict # "pass"
    /\ orch' = Latched(orch, "validation_failed", v)
    /\ UNCHANGED <<given, issuer, vlog, env, rea, vrs, rlog>>

\* The decision the state calls for.
Ruling ==
    IF orch.state = "ready"
    THEN [accepted |-> TRUE, reason |-> "reconstructed_ok", vr |-> orch.vr]
    ELSE [accepted |-> FALSE, reason |-> orch.reason, vr |-> orch.vr]

\* ReconstitutionDecision.Validate: what is accepted and why go together.
DecisionValid(r) ==
    /\ r.reason \in {"reconstructed_ok", "reassembly_failed", "validation_failed"}
    /\ r.accepted <=> r.reason = "reconstructed_ok"

Decided == [kind |-> "decided", ruling |-> Ruling]

\* Decide: the event, then the signature, then the decision.
Decide ==
    /\ orch.decision = None /\ orch.state \in {"ready", "rejected"}
    /\ DecisionValid(Ruling)
    /\ rlog' = Append(rlog, Decided)
    /\ orch' = [orch EXCEPT !.decision = "signed", !.ruling = Ruling,
                    !.state = IF @ = "ready" THEN "reconstituted" ELSE @]
    /\ UNCHANGED <<given, issuer, vlog, env, rea, vrs>>

\* Signing fails after the event: the caller may call Decide again.
DecideFails ==
    /\ orch.decision = None /\ orch.state \in {"ready", "rejected"}
    /\ orch.failed < MaxTries
    /\ rlog' = Append(rlog, Decided)
    /\ orch' = [orch EXCEPT !.failed = @ + 1]
    /\ UNCHANGED <<given, issuer, vlog, env, rea, vrs>>

-----------------------------------------------------------------------------
(* The reassembler.                                                         *)

\* NewAGDReassembler: the map has the leaves of the descriptor.
MapFits(map) == IsInjective(map) /\ Leaves(map) = Agd.leaves

\* Sealer.Open, with the additional data of the message's own header.
Opens(m) == m.own /\ m.body # 0

\* Mutant of Verifies: the size is held to the descriptor, not the hash.
VerifiesSize(m) == TRUE

\* Size and hash of the content are the descriptor's for this component.
Verifies(m) == m.body = given.map[m.comp]

Admit(m) ==
    /\ ~rea.finalized /\ MapFits(given.map)
    /\ m.comp \notin DOMAIN rea.admitted
    /\ Opens(m) /\ Verifies(m)
    /\ rea' = [rea EXCEPT !.admitted =
                  [i \in DOMAIN @ \cup {m.comp} |-> IF i = m.comp THEN m.body
                                                    ELSE @[i]]]
    /\ UNCHANGED <<given, issuer, vlog, env, orch, vrs, rlog>>

\* Every committed component was admitted; the result is keyed by path.
Covered == DOMAIN rea.admitted = DOMAIN given.map

Finalize ==
    /\ ~rea.finalized /\ MapFits(given.map) /\ issuer.done
    /\ rea' = [rea EXCEPT !.finalized = TRUE,
                  !.final = IF Covered THEN "ok" ELSE "failed",
                  !.result = IF Covered
                             THEN {<<given.map[i], rea.admitted[i]>> :
                                      i \in DOMAIN rea.admitted}
                             ELSE {}]
    /\ UNCHANGED <<given, issuer, vlog, env, orch, vrs, rlog>>

-----------------------------------------------------------------------------
(* The receiving validator.                                                 *)

Expires ==
    /\ env.attested /\ env' = [env EXCEPT !.attested = FALSE]
    /\ UNCHANGED <<given, issuer, vlog, orch, rea, vrs, rlog>>

EndsSession ==
    /\ env.session /\ env' = [env EXCEPT !.session = FALSE]
    /\ UNCHANGED <<given, issuer, vlog, orch, rea, vrs, rlog>>

RotatesPolicy ==
    /\ env.policy /\ env' = [env EXCEPT !.policy = FALSE]
    /\ UNCHANGED <<given, issuer, vlog, orch, rea, vrs, rlog>>

CheckRecvAttestation == env.attested
CheckRecvSessionValid == env.session
CheckRecvPolicyAlignment == env.policy

CheckRecvBootstrapManifestIntegrity == given.bm.signed

CheckRecvReassemblyCoverage ==
    LET expected == Len(given.bm.ids)
        admitted == Cardinality(DOMAIN rea.admitted)
    IN  expected # 0 /\ admitted = expected

RunOperational ==
    IF /\ CheckRecvAttestation /\ CheckRecvSessionValid
       /\ CheckRecvBootstrapManifestIntegrity /\ CheckRecvReassemblyCoverage
       /\ CheckRecvPolicyAlignment
    THEN "pass" ELSE "fail"

\* Aggregate, over the dimensions there are.
Aggregate(dims) ==
    CASE "operational" \notin DOMAIN dims -> "fail"
      [] dims["operational"] # "pass" -> "fail"
      [] \E d \in DOMAIN dims : dims[d] \notin {"pass", "conditional_fail"} -> "fail"
      [] \E d \in DOMAIN dims : dims[d] = "conditional_fail" -> "conditional_fail"
      [] OTHER -> "pass"

\* The ladder is not asked, opens a door, or opens none.
Dimensions ==
    {[operational |-> RunOperational]}
        \cup {[operational |-> RunOperational, behavioral |-> b] :
                 b \in {"pass", "fail"}}

Attempts == Cardinality({i \in DOMAIN rlog : rlog[i].kind = "started"})

\* ValidationResult.Validate, and what the result of a validation is.
Result(dims) == [verdict |-> Aggregate(dims), dims |-> dims]

Validate(dims) ==
    LET vr == Result(dims)
    IN  /\ rea.final = "ok" /\ Attempts < MaxTries
        /\ rlog' = rlog \o <<[kind |-> "started"],
                             [kind |-> "completed", vr |-> Len(vrs) + 1,
                              verdict |-> vr.verdict]>>
        /\ vrs' = Append(vrs, vr)
        /\ UNCHANGED <<given, issuer, vlog, env, orch, rea>>

\* The second event is not recorded: there is no result.
ValidateFails ==
    /\ rea.final = "ok" /\ Attempts < MaxTries
    /\ rlog' = Append(rlog, [kind |-> "started"])
    /\ UNCHANGED <<given, issuer, vlog, env, orch, rea, vrs>>

-----------------------------------------------------------------------------
Manifests ==
    [ids : {[i \in Parts |-> i], [i \in Parts |-> 1], [i \in 1..N - 1 |-> i],
            [i \in Parts |-> N + 1 - i]},
     comps : {[i \in Parts |-> i], [i \in Parts |-> N + 1 - i]},
     binds : BOOLEAN, signed : BOOLEAN]

Init ==
    /\ given \in [sealed : [Parts -> 1..N + 1], map : [Parts -> Parts],
                  bm : Manifests, resolves : BOOLEAN]
    /\ issuer = [next |-> 1, finalized |-> FALSE, session |-> TRUE,
                 done |-> FALSE]
    /\ vlog = <<>> /\ rlog = <<>> /\ vrs = <<>>
    /\ env = [attested |-> TRUE, session |-> TRUE, policy |-> TRUE]
    /\ orch = [state |-> "unstarted", received |-> <<>>, reason |-> None,
               vr |-> 0, decision |-> None, ruling |-> None, failed |-> 0]
    /\ rea = [admitted |-> <<>>, finalized |-> FALSE, final |-> None,
              result |-> {}]

Next ==
    \/ Emit \/ EmitRefused \/ AuthorizeFails \/ SessionExpires
    \/ Start
    \/ \E m \in Deliverable : Accept(m)
    \/ \E m \in Deliverable : AcceptRefuses(m)
    \/ \E m \in Deliverable, r \in BOOLEAN : AcceptFails(m, r)
    \/ \E m \in Deliverable : Admit(m)
    \/ Finalize \/ MarkReassembled \/ MarkReassemblyFailed
    \/ Expires \/ EndsSession \/ RotatesPolicy
    \/ \E d \in Dimensions : Validate(d)
    \/ ValidateFails
    \/ \E v \in DOMAIN vrs : MarkValidated(v)
    \/ \E v \in DOMAIN vrs : MarkValidationFailed(v)
    \/ Decide \/ DecideFails

Spec == Init /\ [][Next]_vars

-----------------------------------------------------------------------------
Accepted == orch.state = "reconstituted"

TypeOK ==
    /\ issuer.next \in 1..N + 1 /\ Len(vlog) <= N
    /\ orch.state \in {"unstarted", "ingress", "reassemble", "validate", "ready",
                       "reconstituted", "rejected"}
    /\ (orch.reason = None) <=> orch.state # "rejected"
    /\ (orch.vr # 0) => orch.vr \in DOMAIN vrs
    /\ Len(orch.received) <= N
    /\ rea.final \in {None, "ok", "failed"}
    /\ (rea.final # None) <=> rea.finalized

(* A reconstitution that was accepted has, at every path, the content the   *)
(* descriptor commits to, whatever the vault sealed, the caller's map says  *)
(* and the network did; its manifest was signed and the vault recorded      *)
(* every message it is made of (Accept, Admit, Finalize, RunOperational).   *)
AcceptedIsTheGenome ==
    Accepted =>
        /\ rea.result = {<<p, p>> : p \in Parts}
        /\ given.bm.signed
        /\ \A i \in DOMAIN orch.received :
              \E k \in DOMAIN vlog : vlog[k] = orch.received[i].id

(* Where the receiver's chain has the event of a received disclosure.       *)
ReceivedAt == {p \in DOMAIN rlog : rlog[p].kind = "received"}

(* No disclosure has left the vault, and none was taken here, without its   *)
(* event, in the order of the sequence: the i-th record's is the i-th event *)
(* of its kind (emitAuditEvent before the message, chain.Append before the  *)
(* record).                                                                 *)
DisclosedOnRecord ==
    /\ issuer.done => vlog = [i \in Parts |-> i]
    /\ \A i \in DOMAIN orch.received :
          \E p \in ReceivedAt :
             /\ rlog[p].id = orch.received[i].id
             /\ Cardinality({q \in ReceivedAt : q <= p}) = i

=============================================================================
