-------------------------------- MODULE Flow --------------------------------
(***************************************************************************)
(* The nine-stage flow of a request through the authority (ADR 0015) and   *)
(* the session that drives it:                                             *)
(*   internal/vault/orchestration   state.go, machine.go, flow.go;         *)
(*   internal/vault/intake, trust, session, disclosure (sequencer.go),     *)
(*   incident (handlers.go), internal/validation/service: the decisions    *)
(*   the stages take and the events each of them appends;                  *)
(*   cmd/sagvd/daemon.go            serveOne, refuseAtTrust, abortJob;     *)
(*   cmd/sagvd/http_api.go          admit and ResumeJobs: the flow of a    *)
(*   request runs again, under the same request id and on the same log,    *)
(*   after a restart (ADR 0026) or when the id is submitted again.         *)
(*                                                                         *)
(* A stage holds the flow's lock from its first check to its return, so it *)
(* is one action: the events it appends, in order, up to the one the audit *)
(* log refuses, and what it changes.  A flow is known by its request, which *)
(* has one at a time; it is driven by one session (JobQueue's HandedToOne).*)
(* Identifiers, signatures, times and payloads are left out; an event is   *)
(* its kind and the verdict it records.                                    *)
(***************************************************************************)
EXTENDS Naturals, Sequences

CONSTANTS Requests,
          Components,  \* how many components a genome's disclosure has
          MaxFlows     \* bound: flows of one request on the log

ASSUME ComponentsAssumption == Components \in Nat \ {0}

VARIABLES
    seen,       \* Intake.seen
    state,      \* Machine.state
    trust,      \* Flow.trust: the decision's outcome
    session,    \* Flow.session is set
    disclosed,  \* Flow.disclosures: how many messages
    manifest,   \* Flow.manifest is set
    validation, \* Flow.validation: OverallVerdict
    decision,   \* Flow.decision
    ended,      \* Flow.ended
    issued,     \* Issuer.sessions: the state of the session it holds
    error,      \* the category of the error a stage returned to serveOne
    dispatched, \* the JobRequest left the vault
    outcome,    \* what serveOne told the queue
    refused,    \* requests the audit log did not take at intake
    trail,      \* the events each request's present flow has on the log
    earlier,    \* those of its flows before, broken off or finished
    resuming    \* jobs of the store that a new process has still to admit

flow == <<state, trust, session, disclosed, manifest, validation, decision,
          ended>>
kept == <<refused, earlier, resuming>>
vars == <<seen, flow, issued, error, dispatched, outcome, trail, kept>>

-----------------------------------------------------------------------------
(* The transition table.                                                     *)

Stages == {"request", "trust", "session", "disclosure", "external_compute",
           "return", "validation", "release", "audit",
           "cross_cloud_handshake"}
Terminal == {"release_authorized", "incident_terminated"}
States == {"unstarted"} \cup Stages \cup Terminal

HappyPathTransitions ==
    { <<"unstarted", "request.received", "request">>,
      <<"request", "request.validated", "trust">>,
      <<"trust", "attestation.allow", "session">>,
      <<"trust", "attestation.deny", "release">>,
      <<"trust", "attestation.restrict", "release">>,
      <<"session", "session.issued", "disclosure">>,
      <<"disclosure", "manifest.dispatched", "external_compute">>,
      <<"external_compute", "candidate.received", "return">>,
      <<"return", "return.accepted", "validation">>,
      <<"validation", "validation.completed", "release">>,
      <<"release", "decision.signed", "audit">>,
      <<"release", "cross_cloud.initiated", "cross_cloud_handshake">>,
      <<"cross_cloud_handshake", "cross_cloud.token_dispatched", "audit">>,
      <<"audit", "audit.sealed.release_true", "release_authorized">>,
      <<"audit", "audit.sealed.release_false", "incident_terminated">> }

IncidentCapableStates == Stages

TransitionTable ==
    HappyPathTransitions \cup
    {<<s, "incident.detected", "incident_terminated">> :
        s \in IncidentCapableStates}

\* Machine.Advance: along the table, or not at all.
Advance(s, trigger) ==
    IF \E row \in TransitionTable : row[1] = s /\ row[2] = trigger
    THEN (CHOOSE row \in TransitionTable : row[1] = s /\ row[2] = trigger)[3]
    ELSE s

Move(r, trigger) == state' = [state EXCEPT ![r] = Advance(@, trigger)]

-----------------------------------------------------------------------------

None == "none"
Categories == {"operational", "integrity"}  \* of errors, as Abort tells them
Verdicts == {"pass", "conditional_fail", "fail"}
Kinds == {"REQUEST_RECEIVED", "TRUST_EVALUATED", "SESSION_ISSUED",
          "DISCLOSURE_AUTHORIZED", "MANIFEST_ISSUED", "CANDIDATE_RECEIVED",
          "VALIDATION_STARTED", "VALIDATION_DIMENSION_EVALUATED",
          "VALIDATION_FINDING", "VALIDATION_COMPLETED", "RELEASE_DECIDED",
          "SESSION_INVALIDATED", "INCIDENT_DETECTED", "INCIDENT_TERMINATED"}
Says == {None, "allow", "deny", "release", "refuse"} \cup Verdicts
Event(kind, says) == [kind |-> kind, says |-> says]
Plain(kind) == Event(kind, None)

TypeOK ==
    /\ seen \subseteq Requests /\ refused \subseteq Requests
    /\ state \in [Requests -> States]
    /\ trust \in [Requests -> {None, "allow", "deny"}]
    /\ session \in [Requests -> BOOLEAN]
    /\ disclosed \in [Requests -> {0, Components}]
    /\ manifest \in [Requests -> BOOLEAN]
    /\ validation \in [Requests -> {None} \cup Verdicts]
    /\ decision \in [Requests -> {None, "release", "refuse"}]
    /\ ended \in [Requests -> BOOLEAN]
    /\ issued \in [Requests -> {None, "active", "invalidated"}]
    /\ error \in [Requests -> {None} \cup Categories]
    /\ dispatched \in [Requests -> BOOLEAN]
    /\ outcome \in [Requests -> {None, "succeeded", "failed", "lost"}]
    /\ trail \in [Requests -> Seq([kind : Kinds, says : Says])]
    /\ earlier \in [Requests -> Seq([kind : Kinds, says : Says])]
    /\ resuming \subseteq Requests

Init ==
    /\ seen = {} /\ refused = {}
    /\ state = [r \in Requests |-> "unstarted"]
    /\ trust = [r \in Requests |-> None]
    /\ session = [r \in Requests |-> FALSE]
    /\ disclosed = [r \in Requests |-> 0]
    /\ manifest = [r \in Requests |-> FALSE]
    /\ validation = [r \in Requests |-> None]
    /\ decision = [r \in Requests |-> None]
    /\ ended = [r \in Requests |-> FALSE]
    /\ issued = [r \in Requests |-> None]
    /\ error = [r \in Requests |-> None]
    /\ dispatched = [r \in Requests |-> FALSE]
    /\ outcome = [r \in Requests |-> None]
    /\ trail = [r \in Requests |-> <<>>]
    /\ earlier = [r \in Requests |-> <<>>] /\ resuming = {}

\* emit, once per event: all of them are on the record.
Record(r, events) == trail' = [trail EXCEPT ![r] = @ \o events]

\* A stage fails with some of these events on the record: the log refused the
\* next one, or the stage went no further.  The error is serveOne's.
Stops(r, events) ==
    /\ \E k \in 0..Len(events) : Record(r, SubSeq(events, 1, k))
    /\ error' = [error EXCEPT ![r] = "operational"]

\* A stage fails before its first event, for a reason of any category.
Refuses(r, category) ==
    /\ error' = [error EXCEPT ![r] = category]
    /\ UNCHANGED trail

\* mustBe, and serveOne is not about to abort.
At(r, s) == state[r] = s /\ ~ended[r] /\ error[r] = None

-----------------------------------------------------------------------------
(* Stage 1, from POST /v1/jobs or, at start, from ResumeJobs.               *)

IntakeEvents == <<Plain("REQUEST_RECEIVED")>>

\* The request_id is remembered by Intake.Admit before the log is asked.
Intake(r) ==
    /\ state[r] = "unstarted" /\ outcome[r] = None /\ r \notin seen
    /\ seen' = seen \cup {r}
    /\ Record(r, IntakeEvents)
    /\ state' = [state EXCEPT ![r] = Advance(Advance(@, "request.received"),
                                             "request.validated")]
    /\ refused' = refused \ {r} /\ resuming' = resuming \ {r}
    /\ UNCHANGED <<trust, session, disclosed, manifest, validation, decision,
                   ended, issued, error, dispatched, outcome, earlier>>

IntakeRefused(r) ==
    /\ state[r] = "unstarted" /\ outcome[r] = None /\ r \notin seen
    /\ r \notin resuming
    /\ seen' = seen \cup {r}
    /\ refused' = refused \cup {r}
    /\ UNCHANGED <<flow, issued, error, dispatched, outcome, trail, earlier,
                   resuming>>

\* Intake.forget, or the capacity reached: the id is no longer remembered.
IntakeForgets(r) ==
    /\ r \in seen
    /\ seen' = seen \ {r}
    /\ UNCHANGED <<flow, issued, error, dispatched, outcome, trail, kept>>

-----------------------------------------------------------------------------
(* Stages 2 to 5.                                                           *)

TrustEvents(verdict) == <<Event("TRUST_EVALUATED", verdict)>>

Admit(r, verdict) ==
    /\ At(r, "trust")
    /\ Record(r, TrustEvents(verdict))
    /\ Move(r, IF verdict = "allow" THEN "attestation.allow"
                                    ELSE "attestation.deny")
    /\ trust' = [trust EXCEPT ![r] = verdict]
    /\ UNCHANGED <<seen, session, disclosed, manifest, validation, decision,
                   ended, issued, error, dispatched, outcome, kept>>

SessionEvents == <<Plain("SESSION_ISSUED")>>

IssueSession(r) ==
    /\ At(r, "session")
    /\ issued' = [issued EXCEPT ![r] = "active"]
    /\ Record(r, SessionEvents)
    /\ Move(r, "session.issued")
    /\ session' = [session EXCEPT ![r] = TRUE]
    /\ UNCHANGED <<seen, trust, disclosed, manifest, validation, decision,
                   ended, error, dispatched, outcome, kept>>

\* Issuer.Issue has stored the session when the log refuses its record; the
\* flow does not have it.
SessionUnrecorded(r) ==
    /\ At(r, "session")
    /\ issued' = [issued EXCEPT ![r] = "active"]
    /\ error' = [error EXCEPT ![r] = "operational"]
    /\ UNCHANGED <<seen, flow, dispatched, outcome, trail, kept>>

\* StagedSequencer.Run: one event before each message is kept; the messages
\* are surfaced all together or not at all.
DisclosureEvents == [i \in 1..Components |-> Plain("DISCLOSURE_AUTHORIZED")]

\* Mutant of Disclose: the last component goes out without its event.
DiscloseLastUnrecorded(r) ==
    /\ At(r, "disclosure") /\ disclosed[r] = 0
    /\ Record(r, SubSeq(DisclosureEvents, 1, Components - 1))
    /\ disclosed' = [disclosed EXCEPT ![r] = Components]
    /\ UNCHANGED <<seen, state, trust, session, manifest, validation, decision,
                   ended, issued, error, dispatched, outcome, kept>>

Disclose(r) ==
    /\ At(r, "disclosure") /\ disclosed[r] = 0
    /\ Record(r, DisclosureEvents)
    /\ disclosed' = [disclosed EXCEPT ![r] = Components]
    /\ UNCHANGED <<seen, state, trust, session, manifest, validation, decision,
                   ended, issued, error, dispatched, outcome, kept>>

ManifestEvents == <<Plain("MANIFEST_ISSUED")>>

IssueManifest(r) ==
    /\ At(r, "disclosure") /\ disclosed[r] > 0
    /\ Record(r, ManifestEvents)
    /\ Move(r, "manifest.dispatched")
    /\ manifest' = [manifest EXCEPT ![r] = TRUE]
    /\ UNCHANGED <<seen, trust, session, disclosed, validation, decision,
                   ended, issued, error, dispatched, outcome, kept>>

-----------------------------------------------------------------------------
(* The worker, and stages 6 to 9.                                           *)

\* ServeOneJobVerified writes the JobRequest: the disclosures and manifest.
Dispatch(r) ==
    /\ At(r, "external_compute") /\ ~dispatched[r]
    /\ dispatched' = [dispatched EXCEPT ![r] = TRUE]
    /\ UNCHANGED <<seen, flow, issued, error, outcome, trail, kept>>

\* The worker or the wire fails: time, tamper, a bad signature or answer; a
\* candidate that is not an answer to the job is judged so after stage 6.
ServeFails(r, category) ==
    /\ \/ At(r, "external_compute") /\ dispatched[r]
       \/ At(r, "validation")
    /\ error' = [error EXCEPT ![r] = category]
    /\ UNCHANGED <<seen, flow, issued, dispatched, outcome, trail, kept>>

CandidateEvents == <<Plain("CANDIDATE_RECEIVED")>>

CandidateReceived(r) ==
    /\ At(r, "external_compute") /\ dispatched[r]
    /\ Record(r, CandidateEvents)
    /\ state' = [state EXCEPT ![r] = Advance(Advance(@, "candidate.received"),
                                             "return.accepted")]
    /\ UNCHANGED <<seen, trust, session, disclosed, manifest, validation,
                   decision, ended, issued, error, dispatched, outcome,
                   kept>>

\* Mutant of Aggregate: the semantic dimension is not looked at.
AggregateWithoutSemantic(op, sem, beh) ==
    IF op # "pass" THEN "fail" ELSE beh

\* service.Aggregate: the operational dimension vetoes, the semantic one has
\* no conditional band.
Aggregate(op, sem, beh) ==
    IF op # "pass" \/ sem # "pass" THEN "fail" ELSE beh

\* ValidationService.Validate: with the operational dimension failed the
\* others are not evaluated; one finding stands for a dimension's findings.
ValidationEvents(op, sem, beh) ==
    LET dimension(verdict) == Event("VALIDATION_DIMENSION_EVALUATED", verdict)
        findings(verdict) ==
            IF verdict = "pass" THEN <<>>
                                ELSE <<Event("VALIDATION_FINDING", verdict)>>
    IN  <<Plain("VALIDATION_STARTED")>>
        \o (IF op = "pass"
            THEN <<dimension(op), dimension(sem), dimension(beh)>>
                 \o findings(sem) \o findings(beh)
            ELSE <<dimension(op)>> \o findings(op))
        \o <<Event("VALIDATION_COMPLETED", Aggregate(op, sem, beh))>>

\* operational.Run and judge's top-1 agreement answer pass or fail, the
\* equivalence ladder any verdict.
Validate(r, op, sem, beh) ==
    /\ At(r, "validation")
    /\ Record(r, ValidationEvents(op, sem, beh))
    /\ Move(r, "validation.completed")
    /\ validation' = [validation EXCEPT ![r] = Aggregate(op, sem, beh)]
    /\ UNCHANGED <<seen, trust, session, disclosed, manifest, decision, ended,
                   issued, error, dispatched, outcome, kept>>

\* Decide's switch: what the decision is, for each ground it may have.
Release(r) ==
    CASE trust[r] = "deny" -> "refuse"
      [] trust[r] # "deny" /\ validation[r] = "pass" -> "release"
      [] OTHER -> "refuse"

DecisionEvents(r) == <<Event("RELEASE_DECIDED", Release(r))>>

\* RELEASE_DECIDED first, then the signed decision.
Decide(r) ==
    /\ At(r, "release")
    /\ trust[r] = "deny" \/ validation[r] # None
    /\ Record(r, DecisionEvents(r))
    /\ Move(r, "decision.signed")
    /\ decision' = [decision EXCEPT ![r] = Release(r)]
    /\ UNCHANGED <<seen, trust, session, disclosed, manifest, validation,
                   ended, issued, error, dispatched, outcome, kept>>

Finish(r) == ended' = [ended EXCEPT ![r] = TRUE]

\* Seal without an incident: a release, or a refusal at trust.
Seal(r) ==
    /\ At(r, "audit")
    /\ decision[r] = "release" \/ ~(session[r] /\ validation[r] # None)
    /\ Move(r, IF decision[r] = "release" THEN "audit.sealed.release_true"
                                          ELSE "audit.sealed.release_false")
    /\ Finish(r)
    /\ UNCHANGED <<seen, trust, session, disclosed, manifest, validation,
                   decision, issued, error, dispatched, outcome, trail, kept>>

\* Seal of a refusal after validation: runMVP appends INCIDENT_DETECTED,
\* invalidates the session (whose own record may be refused without stopping
\* it) and appends INCIDENT_TERMINATED; refused there, Seal fails with the
\* session already invalidated.
Invalidation == {<<Plain("SESSION_INVALIDATED")>>, <<>>}

SealIncident(r) ==
    /\ At(r, "audit")
    /\ decision[r] # "release" /\ session[r] /\ validation[r] # None
    /\ issued' = [issued EXCEPT ![r] = "invalidated"]
    /\ \E invalidation \in Invalidation :
        LET upTo == <<Plain("INCIDENT_DETECTED")>> \o invalidation IN
        \/ /\ Record(r, Append(upTo, Plain("INCIDENT_TERMINATED")))
           /\ Move(r, "audit.sealed.release_false")
           /\ Finish(r)
           /\ UNCHANGED error
        \/ /\ Record(r, upTo)
           /\ error' = [error EXCEPT ![r] = "operational"]
           /\ UNCHANGED <<state, ended>>
    /\ UNCHANGED <<seen, trust, session, disclosed, manifest, validation,
                   decision, dispatched, outcome, kept>>

-----------------------------------------------------------------------------
(* What serveOne does when a stage fails, and at the end.                    *)

\* The stage the flow is at fails: the log refuses one of its events, or it
\* cannot be carried out (no key, a bundle that does not open, an expired
\* session).
StageFails(r) ==
    /\ \/ /\ \E s \in {"trust", "session", "disclosure", "external_compute"} :
                At(r, s)
          /\ \E category \in Categories : Refuses(r, category)
       \/ At(r, "disclosure") /\ disclosed[r] = 0
            /\ Stops(r, SubSeq(DisclosureEvents, 1, Components - 1))
       \/ At(r, "validation") /\ \E op, sem \in {"pass", "fail"} :
            \E beh \in Verdicts :
                LET events == ValidationEvents(op, sem, beh)
                IN  Stops(r, SubSeq(events, 1, Len(events) - 1))
       \/ At(r, "release") /\ Stops(r, DecisionEvents(r))
       \/ At(r, "audit") /\ decision[r] # "release" /\ session[r]
            /\ validation[r] # None /\ Stops(r, <<>>)
    /\ UNCHANGED <<seen, flow, issued, dispatched, outcome, kept>>

\* Mutant of Abort: a flow without a session is not aborted.
AbortNeedsSession(r) ==
    /\ error[r] # None /\ ~ended[r] /\ session[r]
    /\ Record(r, <<Plain("SESSION_INVALIDATED")>>)
    /\ issued' = [issued EXCEPT ![r] = "invalidated"]
    /\ Finish(r)
    /\ Move(r, "incident.detected")
    /\ UNCHANGED <<seen, trust, session, disclosed, manifest, validation,
                   decision, error, dispatched, outcome, kept>>

\* abortJob: Flow.Abort is not refused, whatever of it the log takes.
Abort(r) ==
    /\ error[r] # None /\ ~ended[r]
    /\ \E detection \in IF error[r] = "integrity"
                        THEN {<<Plain("INCIDENT_DETECTED")>>, <<>>} ELSE {<<>>} :
       \E invalidation \in IF session[r] THEN Invalidation ELSE {<<>>} :
            Record(r, detection \o invalidation)
    /\ issued' = IF session[r] THEN [issued EXCEPT ![r] = "invalidated"]
                               ELSE issued
    /\ Finish(r)
    /\ Move(r, "incident.detected")
    /\ UNCHANGED <<seen, trust, session, disclosed, manifest, validation,
                   decision, error, dispatched, outcome, kept>>

\* CompleteGated or CompleteFailure.
Complete(r) ==
    /\ ended[r] /\ outcome[r] = None
    /\ outcome' = [outcome EXCEPT ![r] =
            IF error[r] = None /\ decision[r] = "release" THEN "succeeded"
                                                          ELSE "failed"]
    /\ UNCHANGED <<seen, flow, issued, error, dispatched, trail, kept>>

-----------------------------------------------------------------------------
(* The end of a process, and of a flow's place in memory.                    *)

Log(r) == earlier[r] \o trail[r]

\* Bound: flows of one request on the log.
Admissions(r) ==
    Len(SelectSeq(Log(r), LAMBDA e : e.kind = "REQUEST_RECEIVED"))

Without(f, rs, none) == [r \in Requests |-> IF r \in rs THEN none ELSE f[r]]

\* Nothing of these flows is in memory any more; what they put on the log is.
FlowsGone(rs) ==
    /\ state' = Without(state, rs, "unstarted")
    /\ trust' = Without(trust, rs, None)
    /\ session' = Without(session, rs, FALSE)
    /\ disclosed' = Without(disclosed, rs, 0)
    /\ manifest' = Without(manifest, rs, FALSE)
    /\ validation' = Without(validation, rs, None)
    /\ decision' = Without(decision, rs, None)
    /\ ended' = Without(ended, rs, FALSE)
    /\ issued' = Without(issued, rs, None)
    /\ error' = Without(error, rs, None)
    /\ dispatched' = Without(dispatched, rs, FALSE)
    /\ trail' = Without(trail, rs, <<>>)
    /\ earlier' = [r \in Requests |-> IF r \in rs THEN Log(r) ELSE earlier[r]]

\* A finished job leaves memory (JobQueue.forget); its request id may be
\* submitted again once intake has forgotten it too.
JobLeaves(r) ==
    /\ outcome[r] # None /\ Admissions(r) < MaxFlows
    /\ FlowsGone({r})
    /\ outcome' = [outcome EXCEPT ![r] = None]
    /\ UNCHANGED <<seen, refused, resuming>>

\* The process dies.  Jobs it had admitted are resumed by the next one: those
\* without an outcome, and those whose outcome had not reached the store; a
\* job that had not reached the store at all is lost.
Crash ==
    /\ \A r \in Requests : Admissions(r) < MaxFlows
    /\ \E unstored \in SUBSET {r \in Requests : /\ outcome[r] # None
                                                /\ state[r] # "unstarted"} :
       \E lost \in SUBSET {r \in Requests : /\ outcome[r] = None
                                            /\ state[r] # "unstarted"} :
         LET unfinished == {r \in Requests : outcome[r] = None} \cup unstored
         IN  /\ FlowsGone(unfinished)
             /\ outcome' = [r \in Requests |->
                    IF r \in lost THEN "lost"
                    ELSE IF r \in unstored THEN None ELSE outcome[r]]
             /\ resuming' = resuming \cup
                    {r \in unfinished \ lost : state[r] # "unstarted"}
    /\ seen' = {}
    /\ UNCHANGED refused

\* Resume, failOnRecord: too many attempts, or the admission refuses the
\* request, the log not taking it (which Intake.Admit remembers) or its
\* bundle gone.
FailOnRecord(r) ==
    /\ r \in resuming
    /\ resuming' = resuming \ {r}
    /\ outcome' = [outcome EXCEPT ![r] = "failed"]
    /\ \/ UNCHANGED <<seen, refused>>
       \/ seen' = seen \cup {r} /\ refused' = refused \cup {r}
    /\ UNCHANGED <<flow, issued, error, dispatched, trail, earlier>>

-----------------------------------------------------------------------------

ServeOne(r) ==
    \/ \E verdict \in {"allow", "deny"} : Admit(r, verdict)
    \/ IssueSession(r) \/ SessionUnrecorded(r)
    \/ Disclose(r) \/ IssueManifest(r) \/ Dispatch(r)
    \/ \E category \in Categories : ServeFails(r, category)
    \/ CandidateReceived(r)
    \/ \E op, sem \in {"pass", "fail"}, beh \in Verdicts :
            Validate(r, op, sem, beh)
    \/ Decide(r) \/ Seal(r) \/ SealIncident(r)
    \/ StageFails(r) \/ Abort(r) \/ Complete(r)

Submit(r) == Intake(r) \/ IntakeRefused(r) \/ IntakeForgets(r)

\* What ResumeJobs does with one job of the store.
Resume(r) == r \in resuming /\ (Intake(r) \/ FailOnRecord(r))

Next ==
    \/ \E r \in Requests :
          ServeOne(r) \/ Submit(r) \/ FailOnRecord(r) \/ JobLeaves(r)
    \/ Crash

Spec == Init /\ [][Next]_vars

\* A session that runs takes its next step; workers answer or time out; a
\* daemon that died is started again and goes through its store.
Fairness ==
    \A r \in Requests : WF_vars(ServeOne(r)) /\ WF_vars(Resume(r))

FairSpec == Spec /\ Fairness

-----------------------------------------------------------------------------
(* Correctness.                                                             *)

\* The record of a flow that ended in a release, from the request on.
ReleaseRecord ==
    IntakeEvents \o TrustEvents("allow") \o SessionEvents
    \o DisclosureEvents \o ManifestEvents \o CandidateEvents
    \o ValidationEvents("pass", "pass", "pass")
    \o <<Event("RELEASE_DECIDED", "release")>>

\* A worker's answer is released only on a complete record of a passing flow:
\* from the request's last admission on, the log holds of this request trust
\* allowed, a session, every component authorised, a manifest, a candidate,
\* three passing dimensions and the decision, each once, in the order of the
\* stages, and nothing else; so nothing a flow broken off by a restart or an
\* earlier submission left on the log before counts for the release (Flow,
\* ADR 0015; ResumeJobs, ADR 0026).
ReleaseOnRecord ==
    \A r \in Requests :
        state[r] = "release_authorized" \/ outcome[r] = "succeeded" =>
            \E i \in 1..Len(Log(r)) :
                /\ Log(r)[i].kind = "REQUEST_RECEIVED"
                /\ \A n \in (i + 1)..Len(Log(r)) :
                      Log(r)[n].kind # "REQUEST_RECEIVED"
                /\ SubSeq(Log(r), i, Len(Log(r))) = ReleaseRecord

OnTrail(r, kind) == {i \in 1..Len(trail[r]) : trail[r][i].kind = kind}

\* "every decision appended to the audit chain BEFORE it takes effect": what
\* the flow holds and what has left the vault is on the record of this same
\* flow, whatever stages failed on the way and whatever flows of the request
\* were broken off before; the disclosures to the last component.
RecordBeforeEffect ==
    \A r \in Requests :
        /\ session[r] => OnTrail(r, "SESSION_ISSUED") # {}
        /\ manifest[r] => OnTrail(r, "MANIFEST_ISSUED") # {}
        /\ dispatched[r] =>
            /\ manifest[r]
            /\ \A i \in 1..Components :
                 trail[r][3 + i].kind = "DISCLOSURE_AUTHORIZED"
        /\ validation[r] # None =>
            /\ OnTrail(r, "CANDIDATE_RECEIVED") # {}
            /\ \E i \in OnTrail(r, "VALIDATION_COMPLETED") :
                 trail[r][i].says = validation[r]
        /\ decision[r] # None =>
            \E i \in OnTrail(r, "RELEASE_DECIDED") :
                trail[r][i].says = decision[r]

\* Every request that is admitted reaches an outcome, through restarts, unless
\* the process dies before the job is on its store: no stage, no refusal of
\* the log and no resumption leaves a flow without a next step.
EveryFlowEnds ==
    \A r \in Requests : state[r] # "unstarted" ~> outcome[r] # None

-----------------------------------------------------------------------------
(* What the repository says and the code does not keep.                      *)

\* "A refused request leaves nothing behind" (Intake, flow.go): a request the
\* log did not take can be submitted again.
RefusedLeavesNothing == \A r \in refused : r \notin seen

\* "A log that cannot take a record stops the stage: the caller gets the
\* error and nothing has changed" (flow.go): a session is held by the issuer
\* only if its issuance is on the record.
StoppedStageChangesNothing ==
    \A r \in Requests :
        issued[r] = "active" => OnTrail(r, "SESSION_ISSUED") # {}
=============================================================================
