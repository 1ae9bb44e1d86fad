----------------------------- MODULE FlowProofs -----------------------------
(***************************************************************************)
(* What the nine-stage flow promises, proved for any set of requests and   *)
(* any number of components: every effect of a stage has its event on the  *)
(* record, and a worker's answer is released only on the whole record of a *)
(* passing flow.                                                           *)
(*                                                                         *)
(* The invariants speak of one request at a time, and of its present flow. *)
(* While no stage of a flow has failed its trail is exactly the record of  *)
(* the stages behind it (Course); after a failure only what is already     *)
(* there counts, and the trail only grows (Effects).  A flow that leaves   *)
(* memory hands its trail to the request's earlier events, and the next    *)
(* one starts from nothing.                                                *)
(***************************************************************************)
EXTENDS Flow, Integers, TLAPS

-----------------------------------------------------------------------------
(* The transition table.                                                    *)

\* Machine.Advance follows the one row for a state and a trigger.
LEMMA AdvanceAlong ==
    ASSUME NEW s, NEW t, NEW u, <<s, t, u>> \in TransitionTable,
           \A row \in TransitionTable :
               row[1] = s /\ row[2] = t => row[3] = u
    PROVE  Advance(s, t) = u
BY DEF Advance

\* The rows the flow's stages take.
LEMMA Rows ==
    /\ Advance("unstarted", "request.received") = "request"
    /\ Advance("request", "request.validated") = "trust"
    /\ Advance("trust", "attestation.allow") = "session"
    /\ Advance("trust", "attestation.deny") = "release"
    /\ Advance("session", "session.issued") = "disclosure"
    /\ Advance("disclosure", "manifest.dispatched") = "external_compute"
    /\ Advance("external_compute", "candidate.received") = "return"
    /\ Advance("return", "return.accepted") = "validation"
    /\ Advance("validation", "validation.completed") = "release"
    /\ Advance("release", "decision.signed") = "audit"
    /\ Advance("audit", "audit.sealed.release_true") = "release_authorized"
    /\ Advance("audit", "audit.sealed.release_false") = "incident_terminated"
<1> USE DEF TransitionTable, HappyPathTransitions, IncidentCapableStates,
            Stages
<1>1. Advance("unstarted", "request.received") = "request"
  BY AdvanceAlong
<1>2. Advance("request", "request.validated") = "trust"
  BY AdvanceAlong
<1>3. Advance("trust", "attestation.allow") = "session"
  BY AdvanceAlong
<1>4. Advance("trust", "attestation.deny") = "release"
  BY AdvanceAlong
<1>5. Advance("session", "session.issued") = "disclosure"
  BY AdvanceAlong
<1>6. Advance("disclosure", "manifest.dispatched") = "external_compute"
  BY AdvanceAlong
<1>7. Advance("external_compute", "candidate.received") = "return"
  BY AdvanceAlong
<1>8. Advance("return", "return.accepted") = "validation"
  BY AdvanceAlong
<1>9. Advance("validation", "validation.completed") = "release"
  BY AdvanceAlong
<1>10. Advance("release", "decision.signed") = "audit"
  BY AdvanceAlong
<1>11. Advance("audit", "audit.sealed.release_true") = "release_authorized"
  BY AdvanceAlong
<1>12. Advance("audit", "audit.sealed.release_false") = "incident_terminated"
  BY AdvanceAlong
<1> HIDE DEF TransitionTable, HappyPathTransitions, IncidentCapableStates,
             Stages
<1>13. QED
  BY <1>1, <1>2, <1>3, <1>4, <1>5, <1>6, <1>7, <1>8, <1>9, <1>10, <1>11,
     <1>12

\* An incident ends the flow from any stage.
LEMMA IncidentRow ==
    ASSUME NEW s \in Stages
    PROVE  Advance(s, "incident.detected") = "incident_terminated"
BY AdvanceAlong DEF TransitionTable, HappyPathTransitions,
                    IncidentCapableStates, Stages

-----------------------------------------------------------------------------
(* Events.                                                                  *)

EventRec == [kind : Kinds, says : Says]

LEMMA Concat ==
    ASSUME NEW a \in Seq(EventRec), NEW b \in Seq(EventRec)
    PROVE  /\ a \o b \in Seq(EventRec)
           /\ Len(a) \in Nat /\ Len(b) \in Nat
           /\ Len(a \o b) = Len(a) + Len(b)
           /\ \A i \in 1..Len(a) : (a \o b)[i] = a[i]
           /\ \A i \in 1..Len(b) : (a \o b)[Len(a) + i] = b[i]
OBVIOUS

LEMMA EventTyped ==
    ASSUME NEW k \in Kinds, NEW s \in Says
    PROVE  Event(k, s) \in EventRec /\ Event(k, s).kind = k
           /\ Event(k, s).says = s
BY DEF Event, EventRec

LEMMA PlainTyped ==
    ASSUME NEW k \in Kinds
    PROVE  Plain(k) \in EventRec /\ Plain(k).kind = k
BY EventTyped DEF Plain, Says

LEMMA AggregateTyped ==
    ASSUME NEW op, NEW sem, NEW beh \in Verdicts
    PROVE  Aggregate(op, sem, beh) \in Verdicts
BY DEF Aggregate, Verdicts

\* An answer passes on three passing dimensions only.
LEMMA PassIsThreePasses ==
    ASSUME NEW op, NEW sem, NEW beh, Aggregate(op, sem, beh) = "pass"
    PROVE  op = "pass" /\ sem = "pass" /\ beh = "pass"
BY DEF Aggregate

\* What ValidationService.Validate appends ends with the overall verdict.
LEMMA ValidationEventsEnd ==
    ASSUME NEW op \in Verdicts, NEW sem \in Verdicts, NEW beh \in Verdicts
    PROVE  \E before \in Seq(EventRec) :
               ValidationEvents(op, sem, beh) =
                   before \o <<Event("VALIDATION_COMPLETED",
                                     Aggregate(op, sem, beh))>>
<1> DEFINE dimension(v) == Event("VALIDATION_DIMENSION_EVALUATED", v)
           findings(v) == IF v = "pass" THEN <<>>
                          ELSE <<Event("VALIDATION_FINDING", v)>>
           middle == IF op = "pass"
                     THEN <<dimension(op), dimension(sem), dimension(beh)>>
                          \o findings(sem) \o findings(beh)
                     ELSE <<dimension(op)>> \o findings(op)
           before == <<Plain("VALIDATION_STARTED")>> \o middle
<1>1. \A v \in Verdicts : dimension(v) \in EventRec
                          /\ findings(v) \in Seq(EventRec)
  BY EventTyped DEF Kinds, Says
<1>2. Plain("VALIDATION_STARTED") \in EventRec
  BY PlainTyped DEF Kinds
<1> HIDE DEF dimension, findings
<1>3. middle \in Seq(EventRec)
  <2>1. dimension(op) \in EventRec /\ dimension(sem) \in EventRec
        /\ dimension(beh) \in EventRec /\ findings(op) \in Seq(EventRec)
        /\ findings(sem) \in Seq(EventRec) /\ findings(beh) \in Seq(EventRec)
    BY <1>1
  <2>2. /\ <<dimension(op), dimension(sem), dimension(beh)>> \in Seq(EventRec)
        /\ <<dimension(op)>> \in Seq(EventRec)
    BY <2>1
  <2>3. QED
    BY <2>1, <2>2
<1>4. before \in Seq(EventRec)
  BY <1>2, <1>3
<1>5. ValidationEvents(op, sem, beh) =
          before \o <<Event("VALIDATION_COMPLETED", Aggregate(op, sem, beh))>>
  BY DEF ValidationEvents, dimension, findings
<1>6. QED
  BY <1>4, <1>5

LEMMA ValidationEventsTyped ==
    ASSUME NEW op \in Verdicts, NEW sem \in Verdicts, NEW beh \in Verdicts
    PROVE  /\ ValidationEvents(op, sem, beh) \in Seq(EventRec)
           /\ LET es == ValidationEvents(op, sem, beh)
              IN  /\ Len(es) \in Nat \ {0}
                  /\ es[Len(es)].kind = "VALIDATION_COMPLETED"
                  /\ es[Len(es)].says = Aggregate(op, sem, beh)
<1> DEFINE last == Event("VALIDATION_COMPLETED", Aggregate(op, sem, beh))
<1>1. last \in EventRec /\ last.kind = "VALIDATION_COMPLETED"
      /\ last.says = Aggregate(op, sem, beh)
  BY EventTyped, AggregateTyped DEF Kinds, Says
<1>2. PICK before \in Seq(EventRec) :
          ValidationEvents(op, sem, beh) = before \o <<last>>
  BY ValidationEventsEnd
<1> HIDE DEF last
<1>3. QED
  BY <1>1, <1>2

\* The record of a flow on its course, stage by stage.
AfterTrust == IntakeEvents \o TrustEvents("allow")
AfterSession == AfterTrust \o SessionEvents
AfterDisclosure == AfterSession \o DisclosureEvents
AfterManifest == AfterDisclosure \o ManifestEvents
AfterCandidate == AfterManifest \o CandidateEvents
AfterPass == AfterCandidate \o ValidationEvents("pass", "pass", "pass")

LEMMA ReleaseRecordIs ==
    ReleaseRecord = AfterPass \o <<Event("RELEASE_DECIDED", "release")>>
BY DEF ReleaseRecord, AfterPass, AfterCandidate, AfterManifest,
       AfterDisclosure, AfterSession, AfterTrust

LEMMA StageEventsTyped ==
    /\ IntakeEvents \in Seq(EventRec)
    /\ \A v \in {"allow", "deny"} : TrustEvents(v) \in Seq(EventRec)
    /\ SessionEvents \in Seq(EventRec)
    /\ DisclosureEvents \in Seq(EventRec)
    /\ ManifestEvents \in Seq(EventRec)
    /\ CandidateEvents \in Seq(EventRec)
    /\ \A r : DecisionEvents(r) \in Seq(EventRec)
    /\ \A es \in Invalidation : es \in Seq(EventRec)
<1>1. IntakeEvents \in Seq(EventRec)
  BY PlainTyped DEF IntakeEvents, Kinds
<1>2. \A v \in {"allow", "deny"} : TrustEvents(v) \in Seq(EventRec)
  BY EventTyped DEF TrustEvents, Kinds, Says
<1>3. SessionEvents \in Seq(EventRec)
  BY PlainTyped DEF SessionEvents, Kinds
<1>4. DisclosureEvents \in Seq(EventRec)
  <2>1. Plain("DISCLOSURE_AUTHORIZED") \in EventRec
    BY PlainTyped DEF Kinds
  <2>2. QED
    BY <2>1, ComponentsAssumption DEF DisclosureEvents
<1>5. ManifestEvents \in Seq(EventRec)
  BY PlainTyped DEF ManifestEvents, Kinds
<1>6. CandidateEvents \in Seq(EventRec)
  BY PlainTyped DEF CandidateEvents, Kinds
<1>7. \A r : DecisionEvents(r) \in Seq(EventRec)
  <2>1. \A r : Release(r) \in Says /\ "RELEASE_DECIDED" \in Kinds
    BY DEF Release, Says, Kinds
  <2>2. \A r : Event("RELEASE_DECIDED", Release(r)) \in EventRec
    BY <2>1, EventTyped
  <2>3. QED
    BY <2>2 DEF DecisionEvents
<1>8. \A es \in Invalidation : es \in Seq(EventRec)
  <2>1. Plain("SESSION_INVALIDATED") \in EventRec
    BY PlainTyped DEF Kinds
  <2>2. <<Plain("SESSION_INVALIDATED")>> \in Seq(EventRec)
        /\ <<>> \in Seq(EventRec)
    BY <2>1
  <2>3. QED
    BY <2>2, Zenon DEF Invalidation
<1>9. QED
  BY <1>1, <1>2, <1>3, <1>4, <1>5, <1>6, <1>7, <1>8

\* Where the disclosures are on the record.
LEMMA RecordedDisclosures ==
    /\ AfterSession \in Seq(EventRec) /\ Len(AfterSession) = 3
    /\ AfterDisclosure \in Seq(EventRec)
    /\ Len(AfterDisclosure) = 3 + Components
    /\ \A i \in 1..Components :
          AfterDisclosure[3 + i].kind = "DISCLOSURE_AUTHORIZED"
<1>1. AfterSession \in Seq(EventRec) /\ Len(AfterSession) = 3
  <2>1. Len(IntakeEvents) = 1 /\ Len(TrustEvents("allow")) = 1
        /\ Len(SessionEvents) = 1
    BY DEF IntakeEvents, TrustEvents, SessionEvents
  <2>2. TrustEvents("allow") \in Seq(EventRec)
    BY StageEventsTyped
  <2>3. IntakeEvents \in Seq(EventRec) /\ SessionEvents \in Seq(EventRec)
    BY StageEventsTyped
  <2>4. AfterTrust \in Seq(EventRec)
        /\ Len(AfterTrust) = Len(IntakeEvents) + Len(TrustEvents("allow"))
    BY <2>2, <2>3, Concat, Zenon DEF AfterTrust
  <2>5. AfterSession \in Seq(EventRec)
        /\ Len(AfterSession) = Len(AfterTrust) + Len(SessionEvents)
    BY <2>3, <2>4, Concat, Zenon DEF AfterSession
  <2>6. Len(AfterTrust) = 1 + 1
    BY <2>1, <2>4, Zenon
  <2>7. Len(AfterSession) = 1 + 1 + 1
    BY <2>1, <2>5, <2>6, Zenon
  <2>8. Len(AfterSession) = 3
    BY <2>7
  <2>9. QED
    BY <2>5, <2>8, Zenon
<1>2. DisclosureEvents \in Seq(EventRec) /\ Len(DisclosureEvents) = Components
      /\ \A i \in 1..Components :
            DisclosureEvents[i] = Plain("DISCLOSURE_AUTHORIZED")
  BY StageEventsTyped, ComponentsAssumption DEF DisclosureEvents
<1>3. Plain("DISCLOSURE_AUTHORIZED").kind = "DISCLOSURE_AUTHORIZED"
  BY PlainTyped DEF Kinds
<1>4. /\ AfterDisclosure \in Seq(EventRec)
      /\ Len(AfterDisclosure) = Len(AfterSession) + Len(DisclosureEvents)
      /\ \A i \in 1..Len(DisclosureEvents) :
            AfterDisclosure[Len(AfterSession) + i] = DisclosureEvents[i]
  BY <1>1, <1>2, Concat, Zenon DEF AfterDisclosure
<1>5. QED
  BY <1>1, <1>2, <1>3, <1>4

-----------------------------------------------------------------------------
(* The trail.                                                               *)

\* A step adds to the trail of a request and changes nothing on it.
Grows(r) ==
    /\ trail'[r] \in Seq(EventRec)
    /\ Len(trail[r]) <= Len(trail'[r])
    /\ \A i \in 1..Len(trail[r]) : trail'[r][i] = trail[r][i]

LEMMA RecordGrows ==
    ASSUME TypeOK, NEW r \in Requests, NEW events \in Seq(EventRec),
           Record(r, events)
    PROVE  /\ trail' \in [Requests -> Seq(EventRec)]
           /\ trail'[r] = trail[r] \o events
           /\ \A q \in Requests \ {r} : trail'[q] = trail[q]
           /\ \A q \in Requests : Grows(q)
<1>1. trail \in [Requests -> Seq(EventRec)]
  BY DEF TypeOK, EventRec
<1>2. trail[r] \in Seq(EventRec)
  BY <1>1
<1>3. trail[r] \o events \in Seq(EventRec)
  BY <1>2, Concat, Zenon
<1>4. trail' = [trail EXCEPT ![r] = trail[r] \o events]
  BY DEF Record
<1>5. trail' \in [Requests -> Seq(EventRec)]
  BY <1>1, <1>3, <1>4
<1>6. trail'[r] = trail[r] \o events
  BY <1>1, <1>4
<1>7. \A q \in Requests \ {r} : trail'[q] = trail[q]
  BY <1>1, <1>4
<1>8. Grows(r)
  <2>1. /\ Len(trail[r]) \in Nat /\ Len(events) \in Nat
        /\ Len(trail[r] \o events) = Len(trail[r]) + Len(events)
        /\ \A i \in 1..Len(trail[r]) : (trail[r] \o events)[i] = trail[r][i]
    BY <1>2, Concat, Zenon
  <2>2. Len(trail[r]) <= Len(trail[r]) + Len(events)
    BY <2>1
  <2>3. Len(trail[r]) <= Len(trail'[r])
    BY <1>6, <2>1, <2>2, Zenon
  <2>4. \A i \in 1..Len(trail[r]) : trail'[r][i] = trail[r][i]
    BY <1>6, <2>1, Zenon
  <2>5. QED
    BY <1>3, <1>6, <2>3, <2>4, Zenon DEF Grows
<1>9. \A q \in Requests \ {r} : Grows(q)
  <2>1. TAKE q \in Requests \ {r}
  <2>2. trail'[q] = trail[q] /\ trail[q] \in Seq(EventRec)
    BY <1>1, <1>7
  <2>3. Len(trail[q]) \in Nat
    BY <2>2
  <2>4. Len(trail[q]) <= Len(trail[q])
    BY <2>3
  <2>5. QED
    BY <2>2, <2>4, Zenon DEF Grows
<1>10. QED
  BY <1>5, <1>6, <1>7, <1>8, <1>9

LEMMA KeptGrows ==
    ASSUME TypeOK, NEW r \in Requests, trail'[r] = trail[r]
    PROVE  Grows(r)
<1>1. trail[r] \in Seq(EventRec)
  BY DEF TypeOK, EventRec
<1>2. Len(trail[r]) \in Nat
  BY <1>1
<1>3. Len(trail[r]) <= Len(trail[r])
  BY <1>2
<1>4. QED
  BY <1>1, <1>3, Zenon DEF Grows

LEMMA SubSeqTyped ==
    ASSUME NEW s \in Seq(EventRec), NEW n \in Int, n <= Len(s)
    PROVE  SubSeq(s, 1, n) \in Seq(EventRec)
OBVIOUS

\* A stage that stops has recorded some of its events.
LEMMA StopsRecords ==
    ASSUME NEW r, NEW events \in Seq(EventRec), Stops(r, events)
    PROVE  /\ \E es \in Seq(EventRec) : Record(r, es)
           /\ error' = [error EXCEPT ![r] = "operational"]
<1>1. PICK k \in 0..Len(events) : Record(r, SubSeq(events, 1, k))
  BY DEF Stops
<1>2. Len(events) \in Nat /\ k \in Int /\ k <= Len(events)
  BY <1>1
<1>3. SubSeq(events, 1, k) \in Seq(EventRec)
  BY <1>2, SubSeqTyped
<1>4. QED
  BY <1>1, <1>3, Zenon DEF Stops

\* StageFails: an error, and some events of the stage on the record.
LEMMA StageFailsRecords ==
    ASSUME TypeOK, NEW r \in Requests, StageFails(r)
    PROVE  /\ \/ \E es \in Seq(EventRec) : Record(r, es)
              \/ trail' = trail
           /\ \E c \in Categories : error' = [error EXCEPT ![r] = c]
           /\ ~ended[r] /\ state[r] \in Stages /\ error[r] = None
           /\ UNCHANGED <<seen, flow, issued, dispatched, outcome, kept>>
<1>1. UNCHANGED <<seen, flow, issued, dispatched, outcome, kept>>
  BY DEF StageFails
<1>2. CASE /\ \E s \in {"trust", "session", "disclosure",
                        "external_compute"} : At(r, s)
           /\ \E category \in Categories : Refuses(r, category)
  BY <1>1, <1>2 DEF At, Refuses, Stages
<1>3. CASE /\ At(r, "disclosure")
           /\ Stops(r, SubSeq(DisclosureEvents, 1, Components - 1))
  <2>1. DisclosureEvents \in Seq(EventRec) /\ Components - 1 \in Int
        /\ Components - 1 <= Len(DisclosureEvents)
    <3>1. Len(DisclosureEvents) = Components
      BY ComponentsAssumption DEF DisclosureEvents
    <3>2. QED
      BY <3>1, StageEventsTyped, ComponentsAssumption
  <2>2. SubSeq(DisclosureEvents, 1, Components - 1) \in Seq(EventRec)
    BY <2>1, SubSeqTyped
  <2>3. QED
    BY <1>1, <1>3, <2>2, StopsRecords DEF At, Stages, Categories
<1>4. CASE /\ At(r, "validation")
           /\ \E op, sem \in {"pass", "fail"} : \E beh \in Verdicts :
                LET events == ValidationEvents(op, sem, beh)
                IN  Stops(r, SubSeq(events, 1, Len(events) - 1))
  <2>1. PICK op \in {"pass", "fail"}, sem \in {"pass", "fail"},
             beh \in Verdicts :
                Stops(r, SubSeq(ValidationEvents(op, sem, beh), 1,
                                Len(ValidationEvents(op, sem, beh)) - 1))
    BY <1>4
  <2>2. op \in Verdicts /\ sem \in Verdicts
    BY DEF Verdicts
  <2>3. ValidationEvents(op, sem, beh) \in Seq(EventRec)
        /\ Len(ValidationEvents(op, sem, beh)) \in Nat
    BY <2>2, ValidationEventsTyped
  <2>4. SubSeq(ValidationEvents(op, sem, beh), 1,
               Len(ValidationEvents(op, sem, beh)) - 1) \in Seq(EventRec)
    BY <2>3, SubSeqTyped
  <2>5. QED
    BY <1>1, <1>4, <2>1, <2>4, StopsRecords DEF At, Stages, Categories
<1>5. CASE At(r, "release") /\ Stops(r, DecisionEvents(r))
  BY <1>1, <1>5, StageEventsTyped, StopsRecords DEF At, Stages, Categories
<1>6. CASE At(r, "audit") /\ Stops(r, <<>>)
  <2>1. <<>> \in Seq(EventRec)
    OBVIOUS
  <2>2. QED
    BY <1>1, <1>6, <2>1, StopsRecords DEF At, Stages, Categories
<1>7. QED
  BY <1>2, <1>3, <1>4, <1>5, <1>6 DEF StageFails

-----------------------------------------------------------------------------
(* The invariant, for one request.                                          *)

\* Where the flow stands.  A flow is over in a terminal state only; one that
\* was not started has not failed; a release came of no failure, and is all
\* that Complete calls a success.
Standing(r) ==
    /\ ended[r] => state[r] \in Terminal
    /\ state[r] \in Terminal => ended[r]
    /\ state[r] = "unstarted" => error[r] = None
    /\ state[r] = "release_authorized" =>
          error[r] = None /\ decision[r] = "release"
    /\ state[r] = "incident_terminated" /\ error[r] = None =>
          decision[r] # "release"
    /\ outcome[r] = "succeeded" => state[r] = "release_authorized"

\* A flow no stage of which has failed has on the record the events of the
\* stages behind it, and no others.
Course(r) ==
    error[r] = None =>
        /\ state[r] \in {"unstarted", "trust", "session"} =>
              disclosed[r] = 0 /\ validation[r] = None
        /\ state[r] = "unstarted" => trail[r] = <<>>
        /\ state[r] = "trust" => trail[r] = IntakeEvents
        /\ state[r] = "session" => trail[r] = AfterTrust
        /\ state[r] = "disclosure" /\ disclosed[r] = 0 =>
              trail[r] = AfterSession
        /\ state[r] = "disclosure" /\ disclosed[r] # 0 =>
              trail[r] = AfterDisclosure
        /\ state[r] = "external_compute" =>
              trail[r] = AfterManifest /\ manifest[r]
        /\ state[r] = "validation" => trail[r] = AfterCandidate
        /\ state[r] = "release" /\ validation[r] = "pass" =>
              trail[r] = AfterPass
        /\ state[r] = "audit" /\ decision[r] = "release" =>
              trail[r] = ReleaseRecord
        /\ state[r] = "release_authorized" => trail[r] = ReleaseRecord

\* What the flow holds is on the record, failed or not.
SessionOnRecord(r) == session[r] => OnTrail(r, "SESSION_ISSUED") # {}

ManifestOnRecord(r) ==
    manifest[r] =>
        /\ OnTrail(r, "MANIFEST_ISSUED") # {}
        /\ 3 + Components <= Len(trail[r])
        /\ \A i \in 1..Components :
              trail[r][3 + i].kind = "DISCLOSURE_AUTHORIZED"

ValidationOnRecord(r) ==
    validation[r] # None =>
        /\ OnTrail(r, "CANDIDATE_RECEIVED") # {}
        /\ \E i \in OnTrail(r, "VALIDATION_COMPLETED") :
              trail[r][i].says = validation[r]

DecisionOnRecord(r) ==
    decision[r] # None =>
        \E i \in OnTrail(r, "RELEASE_DECIDED") :
            trail[r][i].says = decision[r]

Effects(r) ==
    /\ SessionOnRecord(r) /\ ManifestOnRecord(r)
    /\ ValidationOnRecord(r) /\ DecisionOnRecord(r)
    /\ dispatched[r] => manifest[r]

FlowInv == TypeOK /\ \A r \in Requests : Standing(r) /\ Course(r) /\ Effects(r)

\* A request the step is not about.
Same(q) ==
    /\ state'[q] = state[q] /\ trust'[q] = trust[q]
    /\ session'[q] = session[q] /\ disclosed'[q] = disclosed[q]
    /\ manifest'[q] = manifest[q] /\ validation'[q] = validation[q]
    /\ decision'[q] = decision[q] /\ ended'[q] = ended[q]
    /\ error'[q] = error[q] /\ dispatched'[q] = dispatched[q]
    /\ outcome'[q] = outcome[q] /\ trail'[q] = trail[q]

LEMMA SameKept ==
    ASSUME NEW q, Same(q), Standing(q), Course(q), Effects(q)
    PROVE  Standing(q)' /\ Course(q)' /\ Effects(q)'
<1>1. Standing(q)'
  BY DEF Same, Standing
<1>2. Course(q)'
  BY DEF Same, Course
<1>3. Effects(q)'
  BY DEF Same, Effects, SessionOnRecord, ManifestOnRecord,
         ValidationOnRecord, DecisionOnRecord, OnTrail
<1>4. QED
  BY <1>1, <1>2, <1>3

\* The event of some kind that is on the record stays there.
LEMMA OnTrailKept ==
    ASSUME NEW r, trail[r] \in Seq(EventRec), Grows(r), NEW k
    PROVE  /\ \A i \in OnTrail(r, k) : i \in OnTrail(r, k)'
                                       /\ trail'[r][i] = trail[r][i]
           /\ OnTrail(r, k) # {} => OnTrail(r, k)' # {}
<1>1. Len(trail[r]) \in Nat /\ Len(trail'[r]) \in Nat
      /\ Len(trail[r]) <= Len(trail'[r])
  BY DEF Grows
<1>2. ASSUME NEW i \in OnTrail(r, k)
      PROVE  i \in OnTrail(r, k)' /\ trail'[r][i] = trail[r][i]
  <2>1. i \in 1..Len(trail[r]) /\ trail[r][i].kind = k
    BY <1>2 DEF OnTrail
  <2>2. trail'[r][i] = trail[r][i]
    BY <2>1 DEF Grows
  <2>3. i \in 1..Len(trail'[r])
    BY <1>1, <2>1
  <2>4. QED
    BY <2>1, <2>2, <2>3 DEF OnTrail
<1>3. QED
  BY <1>2

\* An effect on the record stays there.
LEMMA SessionKept ==
    ASSUME NEW r, trail[r] \in Seq(EventRec), Grows(r), SessionOnRecord(r),
           session'[r] = session[r]
    PROVE  SessionOnRecord(r)'
BY OnTrailKept DEF SessionOnRecord

LEMMA ManifestKept ==
    ASSUME NEW r, trail[r] \in Seq(EventRec), Grows(r), ManifestOnRecord(r),
           manifest'[r] = manifest[r]
    PROVE  ManifestOnRecord(r)'
<1>1. SUFFICES ASSUME manifest[r]
               PROVE  /\ OnTrail(r, "MANIFEST_ISSUED")' # {}
                      /\ 3 + Components <= Len(trail'[r])
                      /\ \A i \in 1..Components :
                            trail'[r][3 + i].kind = "DISCLOSURE_AUTHORIZED"
  BY DEF ManifestOnRecord
<1>2. OnTrail(r, "MANIFEST_ISSUED") # {}
      /\ 3 + Components <= Len(trail[r])
      /\ \A i \in 1..Components :
            trail[r][3 + i].kind = "DISCLOSURE_AUTHORIZED"
  BY <1>1 DEF ManifestOnRecord
<1>3. OnTrail(r, "MANIFEST_ISSUED")' # {}
  BY <1>2, OnTrailKept
<1>4. Len(trail[r]) \in Nat /\ Len(trail'[r]) \in Nat
      /\ Len(trail[r]) <= Len(trail'[r])
  BY DEF Grows
<1>5. 3 + Components <= Len(trail'[r])
  BY <1>2, <1>4, ComponentsAssumption
<1>6. \A i \in 1..Components : 3 + i \in 1..Len(trail[r])
  BY <1>2, <1>4, ComponentsAssumption
<1>7. \A i \in 1..Components : trail'[r][3 + i] = trail[r][3 + i]
  BY <1>6 DEF Grows
<1>8. QED
  BY <1>2, <1>3, <1>5, <1>7

LEMMA ValidationKept ==
    ASSUME NEW r, trail[r] \in Seq(EventRec), Grows(r), ValidationOnRecord(r),
           validation'[r] = validation[r]
    PROVE  ValidationOnRecord(r)'
<1>1. SUFFICES ASSUME validation[r] # None
               PROVE  /\ OnTrail(r, "CANDIDATE_RECEIVED")' # {}
                      /\ \E i \in OnTrail(r, "VALIDATION_COMPLETED")' :
                            trail'[r][i].says = validation[r]
  BY DEF ValidationOnRecord
<1>2. OnTrail(r, "CANDIDATE_RECEIVED")' # {}
  BY <1>1, OnTrailKept DEF ValidationOnRecord
<1>3. PICK i \in OnTrail(r, "VALIDATION_COMPLETED") :
          trail[r][i].says = validation[r]
  BY <1>1 DEF ValidationOnRecord
<1>4. i \in OnTrail(r, "VALIDATION_COMPLETED")'
      /\ trail'[r][i] = trail[r][i]
  BY <1>3, OnTrailKept
<1>5. QED
  BY <1>2, <1>3, <1>4

LEMMA DecisionKept ==
    ASSUME NEW r, trail[r] \in Seq(EventRec), Grows(r), DecisionOnRecord(r),
           decision'[r] = decision[r]
    PROVE  DecisionOnRecord(r)'
<1>1. SUFFICES ASSUME decision[r] # None
               PROVE  \E i \in OnTrail(r, "RELEASE_DECIDED")' :
                          trail'[r][i].says = decision[r]
  BY DEF DecisionOnRecord
<1>2. PICK i \in OnTrail(r, "RELEASE_DECIDED") :
          trail[r][i].says = decision[r]
  BY <1>1 DEF DecisionOnRecord
<1>3. i \in OnTrail(r, "RELEASE_DECIDED")' /\ trail'[r][i] = trail[r][i]
  BY <1>2, OnTrailKept
<1>4. QED
  BY <1>2, <1>3

\* Effects survive a step that adds to the record and has no effect.
LEMMA EffectsKept ==
    ASSUME NEW r, trail[r] \in Seq(EventRec), Grows(r), Effects(r),
           session'[r] = session[r], manifest'[r] = manifest[r],
           dispatched'[r] => manifest[r], validation'[r] = validation[r],
           decision'[r] = decision[r]
    PROVE  Effects(r)'
<1>1. SessionOnRecord(r)' /\ ManifestOnRecord(r)'
  BY SessionKept, ManifestKept DEF Effects
<1>2. ValidationOnRecord(r)' /\ DecisionOnRecord(r)'
  BY ValidationKept, DecisionKept DEF Effects
<1>3. QED
  BY <1>1, <1>2 DEF Effects

-----------------------------------------------------------------------------
(* One action at a time.                                                    *)

\* A step about r keeps the invariant of r and leaves the others alone.
Keeps(r) ==
    /\ TypeOK'
    /\ Standing(r)' /\ Course(r)' /\ Effects(r)'
    /\ \A q \in Requests \ {r} : Same(q)

\* An event just recorded is on the trail, after what was there.
LEMMA NewOnTrail ==
    ASSUME NEW r, trail[r] \in Seq(EventRec), NEW events \in Seq(EventRec),
           trail'[r] = trail[r] \o events, NEW j \in 1..Len(events)
    PROVE  /\ Len(trail[r]) + j \in OnTrail(r, events[j].kind)'
           /\ trail'[r][Len(trail[r]) + j] = events[j]
<1>1. /\ Len(trail[r]) \in Nat /\ Len(events) \in Nat
      /\ Len(trail[r] \o events) = Len(trail[r]) + Len(events)
      /\ (trail[r] \o events)[Len(trail[r]) + j] = events[j]
  BY Concat
<1>2. Len(trail[r]) + j \in 1..(Len(trail[r]) + Len(events))
  BY <1>1
<1>3. Len(trail[r]) + j \in 1..Len(trail'[r])
  BY <1>1, <1>2, Zenon
<1>4. trail'[r][Len(trail[r]) + j] = events[j]
  BY <1>1, Zenon
<1>5. QED
  BY <1>3, <1>4, Zenon DEF OnTrail

LEMMA EmptyFirst ==
    ASSUME NEW events \in Seq(EventRec)
    PROVE  <<>> \o events = events
OBVIOUS

\* Stage 1.
LEMMA IntakeKeeps ==
    ASSUME FlowInv, NEW r \in Requests,
           Intake(r)
    PROVE  Keeps(r)
<1>1. TypeOK /\ Standing(r) /\ Course(r) /\ Effects(r)
  BY DEF FlowInv
<1>2. trail[r] \in Seq(EventRec)
  BY <1>1 DEF TypeOK, EventRec
<1>3. IntakeEvents \in Seq(EventRec)
  BY StageEventsTyped
<1>4. /\ trail' \in [Requests -> Seq(EventRec)]
      /\ trail'[r] = trail[r] \o IntakeEvents
      /\ \A q \in Requests \ {r} : trail'[q] = trail[q]
      /\ Grows(r)
  <2>1. Record(r, IntakeEvents)
    BY DEF Intake
  <2>2. QED
    BY <1>1, <1>3, <2>1, RecordGrows, Zenon
<1>5. /\ state'[r] = "trust" /\ state[r] = "unstarted"
      /\ disclosed'[r] = disclosed[r] /\ validation'[r] = validation[r]
      /\ error'[r] = error[r] /\ ended'[r] = ended[r]
      /\ decision'[r] = decision[r] /\ outcome'[r] = outcome[r]
      /\ session'[r] = session[r] /\ manifest'[r] = manifest[r]
      /\ dispatched'[r] = dispatched[r]
      /\ state' = [state EXCEPT ![r] = "trust"]
  <2>1. state[r] = "unstarted"
    BY DEF Intake
  <2>2. Advance(Advance(state[r], "request.received"), "request.validated")
          = "trust"
    BY <2>1, Rows
  <2>3. state' = [state EXCEPT ![r] = "trust"]
    BY <2>2, Zenon DEF Intake
  <2>4. QED
    BY <1>1, <2>1, <2>3 DEF TypeOK, Intake
<1>6. TypeOK'
  <2>1. state' \in [Requests -> States]
    BY <1>1, <1>5 DEF TypeOK, States, Stages, Terminal
  <2>2. QED
    BY <1>1, <1>4, <2>1 DEF TypeOK, EventRec, Intake
<1>7. Standing(r)'
  BY <1>1, <1>5 DEF Standing, Terminal, At, None, Intake
<1>8. Course(r)'
  <2>1. SUFFICES ASSUME error[r] = None
                 PROVE  /\ disclosed[r] = 0 /\ validation[r] = None
                        /\ trail'[r] = IntakeEvents
    BY <1>5 DEF Course
  <2>2. disclosed[r] = 0 /\ validation[r] = None /\ trail[r] = <<>>
    BY <1>1, <1>5, <2>1 DEF Course
  <2>3. QED
    BY <1>3, <1>4, <2>2, EmptyFirst, Zenon
<1>9. Effects(r)'
  BY <1>1, <1>2, <1>4, <1>5, EffectsKept DEF Effects
<1>10. \A q \in Requests \ {r} : Same(q)
  BY <1>1, <1>4 DEF TypeOK, Same, Intake
<1>11. QED
  BY <1>6, <1>7, <1>8, <1>9, <1>10, Zenon DEF Keeps

\* Stage 2.
LEMMA AdmitKeeps ==
    ASSUME FlowInv, NEW r \in Requests, NEW verdict \in {"allow", "deny"},
           Admit(r, verdict)
    PROVE  Keeps(r)
<1>1. TypeOK /\ Standing(r) /\ Course(r) /\ Effects(r)
  BY DEF FlowInv
<1>2. trail[r] \in Seq(EventRec)
  BY <1>1 DEF TypeOK, EventRec
<1>3. TrustEvents(verdict) \in Seq(EventRec)
  BY StageEventsTyped
<1>4. /\ trail' \in [Requests -> Seq(EventRec)]
      /\ trail'[r] = trail[r] \o TrustEvents(verdict)
      /\ \A q \in Requests \ {r} : trail'[q] = trail[q]
      /\ Grows(r)
  <2>1. Record(r, TrustEvents(verdict))
    BY DEF Admit
  <2>2. QED
    BY <1>1, <1>3, <2>1, RecordGrows, Zenon
<1>5. /\ state[r] = "trust" /\ error[r] = None /\ ~ended[r]
      /\ state' = [state EXCEPT ![r] = IF verdict = "allow" THEN "session"
                                                   ELSE "release"]
      /\ state'[r] = IF verdict = "allow" THEN "session" ELSE "release"
      /\ disclosed'[r] = disclosed[r] /\ validation'[r] = validation[r]
      /\ error'[r] = error[r] /\ ended'[r] = ended[r]
      /\ decision'[r] = decision[r] /\ outcome'[r] = outcome[r]
      /\ session'[r] = session[r] /\ manifest'[r] = manifest[r]
      /\ dispatched'[r] = dispatched[r]
  BY <1>1, Rows DEF TypeOK, Admit, Move, At
<1>6. TypeOK'
  <2>1. state' \in [Requests -> States]
    BY <1>1, <1>5 DEF TypeOK, States, Stages, Terminal
  <2>2. trust' \in [Requests -> {None, "allow", "deny"}]
    BY <1>1 DEF TypeOK, Admit
  <2>3. QED
    BY <1>1, <1>4, <2>1, <2>2 DEF TypeOK, EventRec, kept, Admit
<1>7. Standing(r)'
  BY <1>1, <1>5 DEF Standing, Terminal, At, None, Admit
<1>8. Course(r)'
  <2>1. disclosed[r] = 0 /\ validation[r] = None
        /\ trail[r] = IntakeEvents
    BY <1>1, <1>5 DEF Course
  <2>2. verdict = "allow" => trail'[r] = AfterTrust
    BY <1>4, <2>1, Zenon DEF AfterTrust
  <2>3. QED
    BY <1>5, <2>1, <2>2 DEF Course, None
<1>9. Effects(r)'
  BY <1>1, <1>2, <1>4, <1>5, EffectsKept DEF Effects
<1>10. \A q \in Requests \ {r} : Same(q)
  BY <1>1, <1>4 DEF TypeOK, Same, Admit, Move, At
<1>11. QED
  BY <1>6, <1>7, <1>8, <1>9, <1>10, Zenon DEF Keeps

\* Stage 3.
LEMMA IssueSessionKeeps ==
    ASSUME FlowInv, NEW r \in Requests,
           IssueSession(r)
    PROVE  Keeps(r)
<1>1. TypeOK /\ Standing(r) /\ Course(r) /\ Effects(r)
  BY DEF FlowInv
<1>2. trail[r] \in Seq(EventRec)
  BY <1>1 DEF TypeOK, EventRec
<1>3. SessionEvents \in Seq(EventRec)
  BY StageEventsTyped
<1>4. /\ trail' \in [Requests -> Seq(EventRec)]
      /\ trail'[r] = trail[r] \o SessionEvents
      /\ \A q \in Requests \ {r} : trail'[q] = trail[q]
      /\ Grows(r)
  <2>1. Record(r, SessionEvents)
    BY DEF IssueSession
  <2>2. QED
    BY <1>1, <1>3, <2>1, RecordGrows, Zenon
<1>5. /\ state[r] = "session" /\ error[r] = None /\ ~ended[r]
      /\ state' = [state EXCEPT ![r] = "disclosure"]
      /\ state'[r] = "disclosure"
      /\ disclosed'[r] = disclosed[r] /\ validation'[r] = validation[r]
      /\ error'[r] = error[r] /\ ended'[r] = ended[r]
      /\ decision'[r] = decision[r] /\ outcome'[r] = outcome[r]
      /\ manifest'[r] = manifest[r]
      /\ dispatched'[r] = dispatched[r]
  BY <1>1, Rows DEF TypeOK, IssueSession, Move, At
<1>6. TypeOK'
  <2>1. state' \in [Requests -> States]
    BY <1>1, <1>5 DEF TypeOK, States, Stages, Terminal
  <2>2. session' \in [Requests -> BOOLEAN]
    BY <1>1 DEF TypeOK, IssueSession
  <2>3. issued' \in [Requests -> {None, "active", "invalidated"}]
    BY <1>1 DEF TypeOK, IssueSession
  <2>4. QED
    BY <1>1, <1>4, <2>1, <2>2, <2>3 DEF TypeOK, EventRec, kept, IssueSession
<1>7. Standing(r)'
  BY <1>1, <1>5 DEF Standing, Terminal, At, None, IssueSession
<1>8. Course(r)'
  <2>1. disclosed[r] = 0 /\ trail[r] = AfterTrust
    BY <1>1, <1>5 DEF Course
  <2>2. trail'[r] = AfterSession
    BY <1>4, <2>1, Zenon DEF AfterSession
  <2>3. QED
    BY <1>5, <2>1, <2>2 DEF Course
<1>9. Effects(r)'
  <2>1. OnTrail(r, "SESSION_ISSUED")' # {}
    <3>1. 1 \in 1..Len(SessionEvents)
          /\ SessionEvents[1].kind = "SESSION_ISSUED"
      BY PlainTyped DEF SessionEvents, Kinds
    <3>2. Len(trail[r]) + 1 \in OnTrail(r, SessionEvents[1].kind)'
      BY <1>2, <1>3, <1>4, <3>1, NewOnTrail, Zenon
    <3>3. QED
      BY <3>1, <3>2, Zenon
  <2>2. ManifestOnRecord(r)' /\ ValidationOnRecord(r)'
        /\ DecisionOnRecord(r)'
    BY <1>1, <1>2, <1>4, <1>5, ManifestKept, ValidationKept, DecisionKept
       DEF Effects
  <2>3. QED
    BY <1>1, <1>5, <2>1, <2>2 DEF Effects, SessionOnRecord
<1>10. \A q \in Requests \ {r} : Same(q)
  BY <1>1, <1>4 DEF TypeOK, Same, IssueSession, Move, At
<1>11. QED
  BY <1>6, <1>7, <1>8, <1>9, <1>10, Zenon DEF Keeps

\* Stage 3, not recorded.
LEMMA SessionUnrecordedKeeps ==
    ASSUME FlowInv, NEW r \in Requests,
           SessionUnrecorded(r)
    PROVE  Keeps(r)
<1>1. TypeOK /\ Standing(r) /\ Course(r) /\ Effects(r)
  BY DEF FlowInv
<1>2. trail[r] \in Seq(EventRec)
  BY <1>1 DEF TypeOK, EventRec
<1>3. trail' = trail
  BY DEF SessionUnrecorded, flow
<1>4. /\ trail' \in [Requests -> Seq(EventRec)]
      /\ \A q \in Requests : trail'[q] = trail[q]
      /\ Grows(r)
  BY <1>1, <1>3, KeptGrows DEF TypeOK, EventRec
<1>5. /\ state[r] = "session" /\ error[r] = None /\ ~ended[r]
      /\ error'[r] = "operational"
      /\ state'[r] = state[r]
      /\ session'[r] = session[r]
      /\ disclosed'[r] = disclosed[r]
      /\ manifest'[r] = manifest[r]
      /\ validation'[r] = validation[r]
      /\ decision'[r] = decision[r]
      /\ ended'[r] = ended[r]
      /\ dispatched'[r] = dispatched[r]
      /\ outcome'[r] = outcome[r]
  BY <1>1 DEF TypeOK, SessionUnrecorded, At, flow
<1>6. TypeOK'
  <2>1. error' \in [Requests -> {None} \cup Categories]
    BY <1>1 DEF TypeOK, SessionUnrecorded, Categories
  <2>2. issued' \in [Requests -> {None, "active", "invalidated"}]
    BY <1>1 DEF TypeOK, SessionUnrecorded
  <2>3. QED
    BY <1>1, <1>4, <2>1, <2>2 DEF TypeOK, EventRec, kept, SessionUnrecorded, flow
<1>7. Standing(r)'
  BY <1>1, <1>5 DEF Standing, Terminal, At, None, SessionUnrecorded
<1>8. Course(r)'
  BY <1>5 DEF Course, None
<1>9. Effects(r)'
  BY <1>1, <1>2, <1>4, <1>5, EffectsKept DEF Effects
<1>10. \A q \in Requests \ {r} : Same(q)
  BY <1>1, <1>4 DEF TypeOK, Same, SessionUnrecorded, At, flow
<1>11. QED
  BY <1>6, <1>7, <1>8, <1>9, <1>10, Zenon DEF Keeps

\* Stage 4, the disclosures.
LEMMA DiscloseKeeps ==
    ASSUME FlowInv, NEW r \in Requests,
           Disclose(r)
    PROVE  Keeps(r)
<1>1. TypeOK /\ Standing(r) /\ Course(r) /\ Effects(r)
  BY DEF FlowInv
<1>2. trail[r] \in Seq(EventRec)
  BY <1>1 DEF TypeOK, EventRec
<1>3. DisclosureEvents \in Seq(EventRec)
  BY StageEventsTyped
<1>4. /\ trail' \in [Requests -> Seq(EventRec)]
      /\ trail'[r] = trail[r] \o DisclosureEvents
      /\ \A q \in Requests \ {r} : trail'[q] = trail[q]
      /\ Grows(r)
  <2>1. Record(r, DisclosureEvents)
    BY DEF Disclose
  <2>2. QED
    BY <1>1, <1>3, <2>1, RecordGrows, Zenon
<1>5. /\ state[r] = "disclosure" /\ error[r] = None /\ ~ended[r]
      /\ disclosed[r] = 0 /\ disclosed'[r] = Components
      /\ state'[r] = state[r]
      /\ session'[r] = session[r]
      /\ manifest'[r] = manifest[r]
      /\ validation'[r] = validation[r]
      /\ decision'[r] = decision[r]
      /\ error'[r] = error[r]
      /\ ended'[r] = ended[r]
      /\ dispatched'[r] = dispatched[r]
      /\ outcome'[r] = outcome[r]
  BY <1>1 DEF TypeOK, Disclose, At
<1>6. TypeOK'
  <2>1. disclosed' \in [Requests -> {0, Components}]
    BY <1>1 DEF TypeOK, Disclose
  <2>2. QED
    BY <1>1, <1>4, <2>1 DEF TypeOK, EventRec, kept, Disclose
<1>7. Standing(r)'
  BY <1>1, <1>5 DEF Standing, Terminal, At, None, Disclose
<1>8. Course(r)'
  <2>1. trail[r] = AfterSession
    BY <1>1, <1>5 DEF Course
  <2>2. trail'[r] = AfterDisclosure
    BY <1>4, <2>1, Zenon DEF AfterDisclosure
  <2>3. Components # 0
    BY ComponentsAssumption
  <2>4. QED
    BY <1>5, <2>2, <2>3 DEF Course
<1>9. Effects(r)'
  BY <1>1, <1>2, <1>4, <1>5, EffectsKept DEF Effects
<1>10. \A q \in Requests \ {r} : Same(q)
  BY <1>1, <1>4 DEF TypeOK, Same, Disclose, At
<1>11. QED
  BY <1>6, <1>7, <1>8, <1>9, <1>10, Zenon DEF Keeps

\* Stage 4, the manifest.
LEMMA IssueManifestKeeps ==
    ASSUME FlowInv, NEW r \in Requests,
           IssueManifest(r)
    PROVE  Keeps(r)
<1>1. TypeOK /\ Standing(r) /\ Course(r) /\ Effects(r)
  BY DEF FlowInv
<1>2. trail[r] \in Seq(EventRec)
  BY <1>1 DEF TypeOK, EventRec
<1>3. ManifestEvents \in Seq(EventRec)
  BY StageEventsTyped
<1>4. /\ trail' \in [Requests -> Seq(EventRec)]
      /\ trail'[r] = trail[r] \o ManifestEvents
      /\ \A q \in Requests \ {r} : trail'[q] = trail[q]
      /\ Grows(r)
  <2>1. Record(r, ManifestEvents)
    BY DEF IssueManifest
  <2>2. QED
    BY <1>1, <1>3, <2>1, RecordGrows, Zenon
<1>5. /\ state[r] = "disclosure" /\ error[r] = None /\ ~ended[r]
      /\ disclosed[r] > 0
      /\ manifest'[r] = TRUE
      /\ state' = [state EXCEPT ![r] = "external_compute"]
      /\ state'[r] = "external_compute"
      /\ session'[r] = session[r]
      /\ disclosed'[r] = disclosed[r]
      /\ validation'[r] = validation[r]
      /\ decision'[r] = decision[r]
      /\ error'[r] = error[r]
      /\ ended'[r] = ended[r]
      /\ dispatched'[r] = dispatched[r]
      /\ outcome'[r] = outcome[r]
  BY <1>1, Rows DEF TypeOK, IssueManifest, Move, At
<1>6. TypeOK'
  <2>1. state' \in [Requests -> States]
    BY <1>1, <1>5 DEF TypeOK, States, Stages, Terminal
  <2>2. manifest' \in [Requests -> BOOLEAN]
    BY <1>1 DEF TypeOK, IssueManifest
  <2>3. QED
    BY <1>1, <1>4, <2>1, <2>2 DEF TypeOK, EventRec, kept, IssueManifest
<1>7. Standing(r)'
  BY <1>1, <1>5 DEF Standing, Terminal, At, None, IssueManifest
<1>8. Course(r)'
  <2>1. trail[r] = AfterDisclosure
    <3>1. disclosed[r] # 0
      BY <1>1, <1>5, ComponentsAssumption DEF TypeOK
    <3>2. QED
      BY <1>1, <1>5, <3>1 DEF Course
  <2>2. trail'[r] = AfterManifest
    BY <1>4, <2>1, Zenon DEF AfterManifest
  <2>3. QED
    BY <1>5, <2>2 DEF Course
<1>9. Effects(r)'
  <2>1. trail[r] = AfterDisclosure
    <3>1. disclosed[r] # 0
      BY <1>1, <1>5, ComponentsAssumption DEF TypeOK
    <3>2. QED
      BY <1>1, <1>5, <3>1 DEF Course
  <2>2. Len(trail[r]) = 3 + Components
        /\ \A i \in 1..Components :
              trail[r][3 + i].kind = "DISCLOSURE_AUTHORIZED"
    BY <2>1, RecordedDisclosures, Zenon
  <2>3. 3 + Components <= Len(trail'[r])
        /\ \A i \in 1..Components : 3 + i \in 1..Len(trail[r])
    <3>1. Len(trail'[r]) \in Nat /\ Len(trail[r]) <= Len(trail'[r])
      BY <1>4 DEF Grows
    <3>2. QED
      BY <2>2, <3>1, ComponentsAssumption
  <2>4. \A i \in 1..Components : trail'[r][3 + i] = trail[r][3 + i]
    BY <1>4, <2>3, Zenon DEF Grows
  <2>5. OnTrail(r, "MANIFEST_ISSUED")' # {}
    <3>1. 1 \in 1..Len(ManifestEvents)
          /\ ManifestEvents[1].kind = "MANIFEST_ISSUED"
      BY PlainTyped DEF ManifestEvents, Kinds
    <3>2. Len(trail[r]) + 1 \in OnTrail(r, ManifestEvents[1].kind)'
      BY <1>2, <1>3, <1>4, <3>1, NewOnTrail, Zenon
    <3>3. QED
      BY <3>1, <3>2, Zenon
  <2>6. ManifestOnRecord(r)'
    BY <2>2, <2>3, <2>4, <2>5 DEF ManifestOnRecord
  <2>7. SessionOnRecord(r)' /\ ValidationOnRecord(r)'
        /\ DecisionOnRecord(r)'
    BY <1>1, <1>2, <1>4, <1>5, SessionKept, ValidationKept, DecisionKept
       DEF Effects
  <2>8. QED
    BY <1>5, <2>6, <2>7 DEF Effects
<1>10. \A q \in Requests \ {r} : Same(q)
  BY <1>1, <1>4 DEF TypeOK, Same, IssueManifest, Move, At
<1>11. QED
  BY <1>6, <1>7, <1>8, <1>9, <1>10, Zenon DEF Keeps

\* The JobRequest leaves.
LEMMA DispatchKeeps ==
    ASSUME FlowInv, NEW r \in Requests,
           Dispatch(r)
    PROVE  Keeps(r)
<1>1. TypeOK /\ Standing(r) /\ Course(r) /\ Effects(r)
  BY DEF FlowInv
<1>2. trail[r] \in Seq(EventRec)
  BY <1>1 DEF TypeOK, EventRec
<1>3. trail' = trail
  BY DEF Dispatch, flow
<1>4. /\ trail' \in [Requests -> Seq(EventRec)]
      /\ \A q \in Requests : trail'[q] = trail[q]
      /\ Grows(r)
  BY <1>1, <1>3, KeptGrows DEF TypeOK, EventRec
<1>5. /\ state[r] = "external_compute" /\ error[r] = None /\ ~ended[r]
      /\ state'[r] = state[r]
      /\ session'[r] = session[r]
      /\ disclosed'[r] = disclosed[r]
      /\ manifest'[r] = manifest[r]
      /\ validation'[r] = validation[r]
      /\ decision'[r] = decision[r]
      /\ error'[r] = error[r]
      /\ ended'[r] = ended[r]
      /\ outcome'[r] = outcome[r]
  BY <1>1 DEF TypeOK, Dispatch, At, flow
<1>6. TypeOK'
  <2>1. dispatched' \in [Requests -> BOOLEAN]
    BY <1>1 DEF TypeOK, Dispatch
  <2>2. QED
    BY <1>1, <1>4, <2>1 DEF TypeOK, EventRec, kept, Dispatch, flow
<1>7. Standing(r)'
  BY <1>1, <1>5 DEF Standing, Terminal, At, None, Dispatch
<1>8. Course(r)'
  BY <1>1, <1>4, <1>5 DEF Course
<1>9. Effects(r)'
  <2>1. manifest[r]
    BY <1>1, <1>5 DEF Course
  <2>2. QED
    BY <1>1, <1>2, <1>4, <1>5, <2>1, EffectsKept
<1>10. \A q \in Requests \ {r} : Same(q)
  BY <1>1, <1>4 DEF TypeOK, Same, Dispatch, At, flow
<1>11. QED
  BY <1>6, <1>7, <1>8, <1>9, <1>10, Zenon DEF Keeps

\* The worker or the wire fails.
LEMMA ServeFailsKeeps ==
    ASSUME FlowInv, NEW r \in Requests, NEW category \in Categories,
           ServeFails(r, category)
    PROVE  Keeps(r)
<1>1. TypeOK /\ Standing(r) /\ Course(r) /\ Effects(r)
  BY DEF FlowInv
<1>2. trail[r] \in Seq(EventRec)
  BY <1>1 DEF TypeOK, EventRec
<1>3. trail' = trail
  BY DEF ServeFails, flow
<1>4. /\ trail' \in [Requests -> Seq(EventRec)]
      /\ \A q \in Requests : trail'[q] = trail[q]
      /\ Grows(r)
  BY <1>1, <1>3, KeptGrows DEF TypeOK, EventRec
<1>5. /\ error'[r] = category /\ category # None /\ error[r] = None
      /\ state[r] \in {"external_compute", "validation"}
      /\ state'[r] = state[r]
      /\ session'[r] = session[r]
      /\ disclosed'[r] = disclosed[r]
      /\ manifest'[r] = manifest[r]
      /\ validation'[r] = validation[r]
      /\ decision'[r] = decision[r]
      /\ ended'[r] = ended[r]
      /\ dispatched'[r] = dispatched[r]
      /\ outcome'[r] = outcome[r]
  BY <1>1 DEF TypeOK, ServeFails, At, flow, Categories, None
<1>6. TypeOK'
  <2>1. error' \in [Requests -> {None} \cup Categories]
    BY <1>1 DEF TypeOK, ServeFails
  <2>2. QED
    BY <1>1, <1>4, <2>1 DEF TypeOK, EventRec, kept, ServeFails, flow
<1>7. Standing(r)'
  BY <1>1, <1>5 DEF Standing, Terminal, At, None, ServeFails
<1>8. Course(r)'
  BY <1>5 DEF Course
<1>9. Effects(r)'
  BY <1>1, <1>2, <1>4, <1>5, EffectsKept DEF Effects
<1>10. \A q \in Requests \ {r} : Same(q)
  BY <1>1, <1>4 DEF TypeOK, Same, ServeFails, At, flow, Categories, None
<1>11. QED
  BY <1>6, <1>7, <1>8, <1>9, <1>10, Zenon DEF Keeps

\* Stages 6 and 7.
LEMMA CandidateReceivedKeeps ==
    ASSUME FlowInv, NEW r \in Requests,
           CandidateReceived(r)
    PROVE  Keeps(r)
<1>1. TypeOK /\ Standing(r) /\ Course(r) /\ Effects(r)
  BY DEF FlowInv
<1>2. trail[r] \in Seq(EventRec)
  BY <1>1 DEF TypeOK, EventRec
<1>3. CandidateEvents \in Seq(EventRec)
  BY StageEventsTyped
<1>4. /\ trail' \in [Requests -> Seq(EventRec)]
      /\ trail'[r] = trail[r] \o CandidateEvents
      /\ \A q \in Requests \ {r} : trail'[q] = trail[q]
      /\ Grows(r)
  <2>1. Record(r, CandidateEvents)
    BY DEF CandidateReceived
  <2>2. QED
    BY <1>1, <1>3, <2>1, RecordGrows, Zenon
<1>5. /\ state[r] = "external_compute" /\ error[r] = None /\ ~ended[r]
      /\ state' = [state EXCEPT ![r] = "validation"]
      /\ state'[r] = "validation"
      /\ session'[r] = session[r]
      /\ disclosed'[r] = disclosed[r]
      /\ manifest'[r] = manifest[r]
      /\ validation'[r] = validation[r]
      /\ decision'[r] = decision[r]
      /\ error'[r] = error[r]
      /\ ended'[r] = ended[r]
      /\ dispatched'[r] = dispatched[r]
      /\ outcome'[r] = outcome[r]
  BY <1>1, Rows DEF TypeOK, CandidateReceived, At
<1>6. TypeOK'
  <2>1. state' \in [Requests -> States]
    BY <1>1, <1>5 DEF TypeOK, States, Stages, Terminal
  <2>2. QED
    BY <1>1, <1>4, <2>1 DEF TypeOK, EventRec, kept, CandidateReceived
<1>7. Standing(r)'
  BY <1>1, <1>5 DEF Standing, Terminal, At, None, CandidateReceived
<1>8. Course(r)'
  <2>1. trail[r] = AfterManifest
    BY <1>1, <1>5 DEF Course
  <2>2. trail'[r] = AfterCandidate
    BY <1>4, <2>1, Zenon DEF AfterCandidate
  <2>3. QED
    BY <1>5, <2>2 DEF Course
<1>9. Effects(r)'
  BY <1>1, <1>2, <1>4, <1>5, EffectsKept DEF Effects
<1>10. \A q \in Requests \ {r} : Same(q)
  BY <1>1, <1>4 DEF TypeOK, Same, CandidateReceived, At
<1>11. QED
  BY <1>6, <1>7, <1>8, <1>9, <1>10, Zenon DEF Keeps

\* A candidate on the record.
LEMMA CandidateOnRecord ==
    \E i \in 1..Len(AfterCandidate) :
        AfterCandidate[i].kind = "CANDIDATE_RECEIVED"
<1>1. AfterManifest \in Seq(EventRec)
  <2>1. AfterDisclosure \in Seq(EventRec) /\ ManifestEvents \in Seq(EventRec)
    BY RecordedDisclosures, StageEventsTyped, Zenon
  <2>2. QED
    BY <2>1, Concat, Zenon DEF AfterManifest
<1>2. CandidateEvents \in Seq(EventRec) /\ Len(CandidateEvents) = 1
      /\ CandidateEvents[1].kind = "CANDIDATE_RECEIVED"
  BY PlainTyped DEF CandidateEvents, Kinds
<1> DEFINE a == AfterManifest
           b == CandidateEvents
<1>3. AfterCandidate = a \o b
  BY DEF AfterCandidate
<1> HIDE DEF a, b
<1>4. /\ Len(a) \in Nat /\ Len(a \o b) = Len(a) + Len(b)
      /\ \A i \in 1..Len(b) : (a \o b)[Len(a) + i] = b[i]
  <2>1. a \in Seq(EventRec) /\ b \in Seq(EventRec)
    BY <1>1, <1>2 DEF a, b
  <2>2. QED
    BY <2>1, Concat, Zenon
<1>5. Len(b) = 1 /\ b[1].kind = "CANDIDATE_RECEIVED"
  BY <1>2 DEF b
<1>6. Len(a) + 1 \in 1..Len(a \o b) /\ 1 \in 1..Len(b)
  BY <1>4, <1>5
<1>7. (a \o b)[Len(a) + 1] = b[1]
  BY <1>4, <1>6, Zenon
<1>8. QED
  BY <1>3, <1>5, <1>6, <1>7, Zenon

\* Stage 7, the verdict.
LEMMA ValidateKeeps ==
    ASSUME FlowInv, NEW r \in Requests, NEW op \in {"pass", "fail"},
           NEW sem \in {"pass", "fail"}, NEW beh \in Verdicts,
           Validate(r, op, sem, beh)
    PROVE  Keeps(r)
<1>0. op \in Verdicts /\ sem \in Verdicts
  BY DEF Verdicts
<1>1. TypeOK /\ Standing(r) /\ Course(r) /\ Effects(r)
  BY DEF FlowInv
<1>2. trail[r] \in Seq(EventRec)
  BY <1>1 DEF TypeOK, EventRec
<1>3. ValidationEvents(op, sem, beh) \in Seq(EventRec)
  BY <1>0, ValidationEventsTyped
<1>4. /\ trail' \in [Requests -> Seq(EventRec)]
      /\ trail'[r] = trail[r] \o ValidationEvents(op, sem, beh)
      /\ \A q \in Requests \ {r} : trail'[q] = trail[q]
      /\ Grows(r)
  <2>1. Record(r, ValidationEvents(op, sem, beh))
    BY DEF Validate
  <2>2. QED
    BY <1>1, <1>3, <2>1, RecordGrows, Zenon
<1>5. /\ state[r] = "validation" /\ error[r] = None /\ ~ended[r]
      /\ validation'[r] = Aggregate(op, sem, beh)
      /\ state' = [state EXCEPT ![r] = "release"]
      /\ state'[r] = "release"
      /\ session'[r] = session[r]
      /\ disclosed'[r] = disclosed[r]
      /\ manifest'[r] = manifest[r]
      /\ decision'[r] = decision[r]
      /\ error'[r] = error[r]
      /\ ended'[r] = ended[r]
      /\ dispatched'[r] = dispatched[r]
      /\ outcome'[r] = outcome[r]
  BY <1>1, Rows DEF TypeOK, Validate, Move, At
<1>6. TypeOK'
  <2>1. state' \in [Requests -> States]
    BY <1>1, <1>5 DEF TypeOK, States, Stages, Terminal
  <2>2. validation' \in [Requests -> {None} \cup Verdicts]
    BY <1>0, <1>1, AggregateTyped DEF TypeOK, Validate
  <2>3. QED
    BY <1>1, <1>4, <2>1, <2>2 DEF TypeOK, EventRec, kept, Validate
<1>7. Standing(r)'
  BY <1>1, <1>5 DEF Standing, Terminal, At, None, Validate
<1>8. Course(r)'
  <2>1. trail[r] = AfterCandidate
    BY <1>1, <1>5 DEF Course
  <2>2. ASSUME Aggregate(op, sem, beh) = "pass"
        PROVE  trail'[r] = AfterPass
    <3>1. op = "pass" /\ sem = "pass" /\ beh = "pass"
      BY <2>2, PassIsThreePasses
    <3>2. QED
      BY <1>4, <2>1, <3>1, Zenon DEF AfterPass
  <2>3. QED
    BY <1>5, <2>2 DEF Course
<1>9. Effects(r)'
  <2>1. trail[r] = AfterCandidate
    BY <1>1, <1>5 DEF Course
  <2>2. OnTrail(r, "CANDIDATE_RECEIVED") # {}
    BY <2>1, CandidateOnRecord DEF OnTrail
  <2>3. OnTrail(r, "CANDIDATE_RECEIVED")' # {}
    BY <1>2, <1>4, <2>2, OnTrailKept
  <2>4. \E i \in OnTrail(r, "VALIDATION_COMPLETED")' :
            trail'[r][i].says = Aggregate(op, sem, beh)
    <3> DEFINE es == ValidationEvents(op, sem, beh)
               j == Len(es)
    <3>1. /\ es \in Seq(EventRec) /\ j \in Nat \ {0}
          /\ es[j].kind = "VALIDATION_COMPLETED"
          /\ es[j].says = Aggregate(op, sem, beh)
      BY <1>0, ValidationEventsTyped
    <3>2. trail'[r] = trail[r] \o es
      BY <1>4
    <3> HIDE DEF es
    <3>3. j \in 1..Len(es)
      BY <3>1
    <3>4. Len(trail[r]) + j \in OnTrail(r, es[j].kind)'
          /\ trail'[r][Len(trail[r]) + j] = es[j]
      BY <1>2, <3>1, <3>2, <3>3, NewOnTrail, Zenon
    <3>5. QED
      BY <3>1, <3>4, Zenon
  <2>5. ValidationOnRecord(r)'
    BY <1>5, <2>3, <2>4, Zenon DEF ValidationOnRecord
  <2>6. SessionOnRecord(r)' /\ ManifestOnRecord(r)' /\ DecisionOnRecord(r)'
    BY <1>1, <1>2, <1>4, <1>5, SessionKept, ManifestKept, DecisionKept
       DEF Effects
  <2>7. QED
    BY <1>1, <1>5, <2>5, <2>6 DEF Effects
<1>10. \A q \in Requests \ {r} : Same(q)
  BY <1>1, <1>4 DEF TypeOK, Same, Validate, Move, At
<1>11. QED
  BY <1>6, <1>7, <1>8, <1>9, <1>10, Zenon DEF Keeps

\* Stage 8.
LEMMA DecideKeeps ==
    ASSUME FlowInv, NEW r \in Requests,
           Decide(r)
    PROVE  Keeps(r)
<1>1. TypeOK /\ Standing(r) /\ Course(r) /\ Effects(r)
  BY DEF FlowInv
<1>2. trail[r] \in Seq(EventRec)
  BY <1>1 DEF TypeOK, EventRec
<1>3. DecisionEvents(r) \in Seq(EventRec)
  BY StageEventsTyped
<1>4. /\ trail' \in [Requests -> Seq(EventRec)]
      /\ trail'[r] = trail[r] \o DecisionEvents(r)
      /\ \A q \in Requests \ {r} : trail'[q] = trail[q]
      /\ Grows(r)
  <2>1. Record(r, DecisionEvents(r))
    BY DEF Decide
  <2>2. QED
    BY <1>1, <1>3, <2>1, RecordGrows, Zenon
<1>5. /\ state[r] = "release" /\ error[r] = None /\ ~ended[r]
      /\ decision'[r] = Release(r)
      /\ state' = [state EXCEPT ![r] = "audit"]
      /\ state'[r] = "audit"
      /\ session'[r] = session[r]
      /\ disclosed'[r] = disclosed[r]
      /\ manifest'[r] = manifest[r]
      /\ validation'[r] = validation[r]
      /\ error'[r] = error[r]
      /\ ended'[r] = ended[r]
      /\ dispatched'[r] = dispatched[r]
      /\ outcome'[r] = outcome[r]
  BY <1>1, Rows DEF TypeOK, Decide, Move, At
<1>6. TypeOK'
  <2>1. state' \in [Requests -> States]
    BY <1>1, <1>5 DEF TypeOK, States, Stages, Terminal
  <2>2. decision' \in [Requests -> {None, "release", "refuse"}]
    BY <1>1 DEF TypeOK, Decide, Release
  <2>3. QED
    BY <1>1, <1>4, <2>1, <2>2 DEF TypeOK, EventRec, kept, Decide
<1>7. Standing(r)'
  BY <1>1, <1>5 DEF Standing, Terminal, At, None, Decide
<1>8. Course(r)'
  <2>1. ASSUME Release(r) = "release"
        PROVE  trail'[r] = ReleaseRecord
    <3>1. validation[r] = "pass"
      BY <2>1 DEF Release
    <3>2. trail[r] = AfterPass
      BY <1>1, <1>5, <3>1 DEF Course
    <3>3. trail'[r] = AfterPass \o <<Event("RELEASE_DECIDED", "release")>>
      BY <1>4, <2>1, <3>2, Zenon DEF DecisionEvents
    <3>4. QED
      BY <3>3, ReleaseRecordIs, Zenon
  <2>2. QED
    BY <1>5, <2>1 DEF Course
<1>9. Effects(r)'
  <2>1. \E i \in OnTrail(r, "RELEASE_DECIDED")' :
            trail'[r][i].says = Release(r)
    <3>1. Release(r) \in Says /\ "RELEASE_DECIDED" \in Kinds
      BY DEF Release, Says, Kinds
    <3>2. PICK e \in EventRec : e = Event("RELEASE_DECIDED", Release(r))
      BY <3>1, EventTyped
    <3>3. e.kind = "RELEASE_DECIDED" /\ e.says = Release(r)
      BY <3>1, <3>2, EventTyped
    <3>4. <<e>> \in Seq(EventRec) /\ 1 \in 1..Len(<<e>>) /\ <<e>>[1] = e
      OBVIOUS
    <3>5. trail'[r] = trail[r] \o <<e>>
      BY <1>4, <3>2, Zenon DEF DecisionEvents
    <3>6. Len(trail[r]) + 1 \in OnTrail(r, <<e>>[1].kind)'
          /\ trail'[r][Len(trail[r]) + 1] = <<e>>[1]
      BY <1>2, <3>4, <3>5, NewOnTrail, Zenon
    <3>7. QED
      BY <3>3, <3>4, <3>6, Zenon
  <2>2. DecisionOnRecord(r)'
    BY <1>5, <2>1, Zenon DEF DecisionOnRecord
  <2>3. SessionOnRecord(r)' /\ ManifestOnRecord(r)' /\ ValidationOnRecord(r)'
    BY <1>1, <1>2, <1>4, <1>5, SessionKept, ManifestKept, ValidationKept
       DEF Effects
  <2>4. QED
    BY <1>1, <1>5, <2>2, <2>3 DEF Effects
<1>10. \A q \in Requests \ {r} : Same(q)
  BY <1>1, <1>4 DEF TypeOK, Same, Decide, Move, At
<1>11. QED
  BY <1>6, <1>7, <1>8, <1>9, <1>10, Zenon DEF Keeps

\* Stage 9, without an incident.
LEMMA SealKeeps ==
    ASSUME FlowInv, NEW r \in Requests,
           Seal(r)
    PROVE  Keeps(r)
<1>1. TypeOK /\ Standing(r) /\ Course(r) /\ Effects(r)
  BY DEF FlowInv
<1>2. trail[r] \in Seq(EventRec)
  BY <1>1 DEF TypeOK, EventRec
<1>3. trail' = trail
  BY DEF Seal, flow
<1>4. /\ trail' \in [Requests -> Seq(EventRec)]
      /\ \A q \in Requests : trail'[q] = trail[q]
      /\ Grows(r)
  BY <1>1, <1>3, KeptGrows DEF TypeOK, EventRec
<1>5. /\ state[r] = "audit" /\ error[r] = None /\ ~ended[r]
      /\ ended'[r] = TRUE
      /\ state'[r] = IF decision[r] = "release" THEN "release_authorized"
                                          ELSE "incident_terminated"
      /\ state' = [state EXCEPT ![r] =
            IF decision[r] = "release" THEN "release_authorized"
                                       ELSE "incident_terminated"]
      /\ session'[r] = session[r]
      /\ disclosed'[r] = disclosed[r]
      /\ manifest'[r] = manifest[r]
      /\ validation'[r] = validation[r]
      /\ decision'[r] = decision[r]
      /\ error'[r] = error[r]
      /\ dispatched'[r] = dispatched[r]
      /\ outcome'[r] = outcome[r]
  BY <1>1, Rows DEF TypeOK, Seal, Move, At, Finish
<1>6. TypeOK'
  <2>1. state' \in [Requests -> States]
    BY <1>1, <1>5 DEF TypeOK, States, Stages, Terminal
  <2>2. ended' \in [Requests -> BOOLEAN]
    BY <1>1 DEF TypeOK, Seal, Finish
  <2>3. QED
    BY <1>1, <1>4, <2>1, <2>2 DEF TypeOK, EventRec, kept, Seal
<1>7. Standing(r)'
  BY <1>1, <1>5 DEF Standing, Terminal, At, None, Seal
<1>8. Course(r)'
  BY <1>1, <1>4, <1>5 DEF Course
<1>9. Effects(r)'
  BY <1>1, <1>2, <1>4, <1>5, EffectsKept DEF Effects
<1>10. \A q \in Requests \ {r} : Same(q)
  BY <1>1, <1>4 DEF TypeOK, Same, Seal, Move, At, Finish
<1>11. QED
  BY <1>6, <1>7, <1>8, <1>9, <1>10, Zenon DEF Keeps

\* What the queue is told.
LEMMA CompleteKeeps ==
    ASSUME FlowInv, NEW r \in Requests,
           Complete(r)
    PROVE  Keeps(r)
<1>1. TypeOK /\ Standing(r) /\ Course(r) /\ Effects(r)
  BY DEF FlowInv
<1>2. trail[r] \in Seq(EventRec)
  BY <1>1 DEF TypeOK, EventRec
<1>3. trail' = trail
  BY DEF Complete, flow
<1>4. /\ trail' \in [Requests -> Seq(EventRec)]
      /\ \A q \in Requests : trail'[q] = trail[q]
      /\ Grows(r)
  BY <1>1, <1>3, KeptGrows DEF TypeOK, EventRec
<1>5. /\ ended[r] /\ outcome[r] = None
      /\ outcome'[r] = "succeeded" =>
          error[r] = None /\ decision[r] = "release"
      /\ state'[r] = state[r]
      /\ session'[r] = session[r]
      /\ disclosed'[r] = disclosed[r]
      /\ manifest'[r] = manifest[r]
      /\ validation'[r] = validation[r]
      /\ decision'[r] = decision[r]
      /\ error'[r] = error[r]
      /\ ended'[r] = ended[r]
      /\ dispatched'[r] = dispatched[r]
  BY <1>1 DEF TypeOK, Complete, flow
<1>6. TypeOK'
  <2>1. outcome' \in [Requests -> {None, "succeeded", "failed", "lost"}]
    BY <1>1 DEF TypeOK, Complete
  <2>2. QED
    BY <1>1, <1>4, <2>1 DEF TypeOK, EventRec, kept, Complete, flow
<1>7. Standing(r)'
  BY <1>1, <1>5 DEF Standing, Terminal, At, None, Complete
<1>8. Course(r)'
  BY <1>1, <1>4, <1>5 DEF Course
<1>9. Effects(r)'
  BY <1>1, <1>2, <1>4, <1>5, EffectsKept DEF Effects
<1>10. \A q \in Requests \ {r} : Same(q)
  BY <1>1, <1>4 DEF TypeOK, Same, Complete, flow
<1>11. QED
  BY <1>6, <1>7, <1>8, <1>9, <1>10, Zenon DEF Keeps

\* A step that ends or fails a flow, whatever it adds to the record.
LEMMA FailedKeeps ==
    ASSUME FlowInv, NEW r \in Requests,
           \/ \E es \in Seq(EventRec) : Record(r, es)
           \/ trail' = trail,
           seen' = seen, kept' = kept, trust' = trust,
           session' = session, disclosed' = disclosed, manifest' = manifest,
           validation' = validation, decision' = decision,
           dispatched' = dispatched, outcome' = outcome,
           state' \in [Requests -> States], ended' \in [Requests -> BOOLEAN],
           issued' \in [Requests -> {None, "active", "invalidated"}],
           error' \in [Requests -> {None} \cup Categories],
           \A q \in Requests \ {r} :
               state'[q] = state[q] /\ ended'[q] = ended[q]
               /\ error'[q] = error[q],
           ~ended[r], state[r] \in Stages,
           \/ /\ state'[r] = "incident_terminated" /\ ended'[r]
              /\ error'[r] # None \/ decision[r] # "release"
           \/ state'[r] = state[r] /\ ~ended'[r] /\ error'[r] # None
    PROVE  Keeps(r)
<1>1. TypeOK /\ Standing(r) /\ Course(r) /\ Effects(r)
  BY DEF FlowInv
<1>2. trail[r] \in Seq(EventRec)
  BY <1>1 DEF TypeOK, EventRec
<1>3. /\ trail' \in [Requests -> Seq(EventRec)]
      /\ \A q \in Requests \ {r} : trail'[q] = trail[q]
      /\ Grows(r)
  <2>1. CASE \E es \in Seq(EventRec) : Record(r, es)
    BY <1>1, <2>1, RecordGrows, Zenon
  <2>2. CASE trail' = trail
    BY <1>1, <2>2, KeptGrows DEF TypeOK, EventRec
  <2>3. QED
    BY <2>1, <2>2
<1>4. TypeOK'
  BY <1>1, <1>3 DEF TypeOK, EventRec, kept
<1>5. Standing(r)'
  <2>1. outcome[r] # "succeeded"
    BY <1>1 DEF Standing, Terminal, Stages
  <2>2. QED
    BY <1>1, <2>1 DEF Standing, Terminal, Stages
<1>6. Course(r)'
  BY DEF Course
<1>7. Effects(r)'
  BY <1>1, <1>2, <1>3, EffectsKept DEF Effects
<1>8. \A q \in Requests \ {r} : Same(q)
  BY <1>3 DEF Same
<1>9. QED
  BY <1>4, <1>5, <1>6, <1>7, <1>8, Zenon DEF Keeps

LEMMA StageFailsKeeps ==
    ASSUME FlowInv, NEW r \in Requests, StageFails(r)
    PROVE  Keeps(r)
<1>1. TypeOK
  BY DEF FlowInv
<1>2. /\ \/ \E es \in Seq(EventRec) : Record(r, es)
         \/ trail' = trail
      /\ ~ended[r] /\ state[r] \in Stages /\ error[r] = None
      /\ UNCHANGED <<seen, flow, issued, dispatched, outcome, kept>>
  BY <1>1, StageFailsRecords
<1>3. PICK c \in Categories : error' = [error EXCEPT ![r] = c]
  BY <1>1, StageFailsRecords
<1>4. c # None
  BY DEF Categories, None
<1>5. /\ error' \in [Requests -> {None} \cup Categories]
      /\ error'[r] = c
      /\ \A q \in Requests \ {r} : error'[q] = error[q]
  BY <1>1, <1>3 DEF TypeOK
<1>6. /\ state' \in [Requests -> States] /\ ended' \in [Requests -> BOOLEAN]
      /\ issued' \in [Requests -> {None, "active", "invalidated"}]
      /\ state' = state /\ ended' = ended
      /\ seen' = seen /\ kept' = kept /\ trust' = trust
      /\ session' = session /\ disclosed' = disclosed
      /\ manifest' = manifest /\ validation' = validation
      /\ decision' = decision /\ dispatched' = dispatched
      /\ outcome' = outcome
  BY <1>1, <1>2 DEF TypeOK, flow
<1>7. QED
  BY <1>2, <1>4, <1>5, <1>6, FailedKeeps

\* Stage 9, with an incident.
LEMMA SealIncidentKeeps ==
    ASSUME FlowInv, NEW r \in Requests, SealIncident(r)
    PROVE  Keeps(r)
<1>1. TypeOK
  BY DEF FlowInv
<1>2. /\ state[r] = "audit" /\ ~ended[r] /\ decision[r] # "release"
      /\ issued' \in [Requests -> {None, "active", "invalidated"}]
      /\ seen' = seen /\ kept' = kept /\ trust' = trust
      /\ session' = session /\ disclosed' = disclosed
      /\ manifest' = manifest /\ validation' = validation
      /\ decision' = decision /\ dispatched' = dispatched
      /\ outcome' = outcome
  BY <1>1 DEF TypeOK, SealIncident, At
<1>3. PICK invalidation \in Invalidation :
        LET upTo == <<Plain("INCIDENT_DETECTED")>> \o invalidation IN
        \/ /\ Record(r, Append(upTo, Plain("INCIDENT_TERMINATED")))
           /\ Move(r, "audit.sealed.release_false")
           /\ Finish(r)
           /\ UNCHANGED error
        \/ /\ Record(r, upTo)
           /\ error' = [error EXCEPT ![r] = "operational"]
           /\ UNCHANGED <<state, ended>>
  BY DEF SealIncident
<1> DEFINE upTo == <<Plain("INCIDENT_DETECTED")>> \o invalidation
           whole == Append(upTo, Plain("INCIDENT_TERMINATED"))
<1>4. upTo \in Seq(EventRec) /\ whole \in Seq(EventRec)
  <2>1. Plain("INCIDENT_DETECTED") \in EventRec
        /\ Plain("INCIDENT_TERMINATED") \in EventRec
    BY PlainTyped DEF Kinds
  <2>2. invalidation \in Seq(EventRec)
    BY <1>3, StageEventsTyped, Zenon
  <2>3. <<Plain("INCIDENT_DETECTED")>> \in Seq(EventRec)
    BY <2>1
  <2>4. upTo \in Seq(EventRec)
    BY <2>2, <2>3, Concat, Zenon
  <2> HIDE DEF upTo
  <2>5. whole \in Seq(EventRec)
    BY <2>1, <2>4
  <2>6. QED
    BY <2>4, <2>5
<1>5. \E es \in Seq(EventRec) : Record(r, es)
  BY <1>3, <1>4, Zenon
<1>6. /\ state' \in [Requests -> States] /\ ended' \in [Requests -> BOOLEAN]
      /\ error' \in [Requests -> {None} \cup Categories]
      /\ \A q \in Requests \ {r} :
            state'[q] = state[q] /\ ended'[q] = ended[q]
            /\ error'[q] = error[q]
      /\ \/ state'[r] = "incident_terminated" /\ ended'[r]
         \/ state'[r] = state[r] /\ ~ended'[r] /\ error'[r] # None
  <2>1. CASE /\ Move(r, "audit.sealed.release_false")
             /\ Finish(r) /\ UNCHANGED error
    <3>1. state' = [state EXCEPT ![r] = "incident_terminated"]
      BY <1>1, <1>2, <2>1, Rows DEF Move, TypeOK
    <3>2. QED
      BY <1>1, <2>1, <3>1 DEF TypeOK, States, Terminal, Finish
  <2>2. CASE /\ error' = [error EXCEPT ![r] = "operational"]
             /\ UNCHANGED <<state, ended>>
    BY <1>1, <1>2, <2>2 DEF TypeOK, Categories, None
  <2>3. QED
    BY <1>3, <2>1, <2>2
<1>7. state[r] \in Stages
  BY <1>2 DEF Stages
<1>8. QED
  BY <1>2, <1>5, <1>6, <1>7, FailedKeeps

LEMMA AbortKeeps ==
    ASSUME FlowInv, NEW r \in Requests, Abort(r)
    PROVE  Keeps(r)
<1>1. TypeOK /\ Standing(r)
  BY DEF FlowInv
<1>2. /\ error[r] # None /\ ~ended[r]
      /\ seen' = seen /\ kept' = kept /\ trust' = trust
      /\ session' = session /\ disclosed' = disclosed
      /\ manifest' = manifest /\ validation' = validation
      /\ decision' = decision /\ dispatched' = dispatched
      /\ outcome' = outcome /\ error' = error
  BY DEF Abort
<1>3. state[r] \in Stages
  BY <1>1, <1>2 DEF TypeOK, States, Standing
<1>4. \E es \in Seq(EventRec) : Record(r, es)
  <2>1. PICK detection \in IF error[r] = "integrity"
                  THEN {<<Plain("INCIDENT_DETECTED")>>, <<>>} ELSE {<<>>} :
        \E invalidation \in IF session[r] THEN Invalidation ELSE {<<>>} :
            Record(r, detection \o invalidation)
    BY DEF Abort
  <2>2. PICK invalidation \in IF session[r] THEN Invalidation ELSE {<<>>} :
            Record(r, detection \o invalidation)
    BY <2>1
  <2>3. <<>> \in Seq(EventRec)
        /\ <<Plain("INCIDENT_DETECTED")>> \in Seq(EventRec)
    BY PlainTyped DEF Kinds
  <2>4. detection \in Seq(EventRec)
    BY <2>1, <2>3, Zenon
  <2>5. invalidation \in Seq(EventRec)
    BY <2>2, <2>3, StageEventsTyped, Zenon
  <2>6. detection \o invalidation \in Seq(EventRec)
    BY <2>4, <2>5, Concat, Zenon
  <2>7. QED
    BY <2>2, <2>6, Zenon
<1>5. state' = [state EXCEPT ![r] = "incident_terminated"]
  BY <1>1, <1>3, IncidentRow DEF Abort, Move, TypeOK
<1>6. /\ state' \in [Requests -> States] /\ state'[r] = "incident_terminated"
      /\ \A q \in Requests \ {r} : state'[q] = state[q]
  BY <1>1, <1>5 DEF TypeOK, States, Terminal
<1>7. /\ ended' \in [Requests -> BOOLEAN] /\ ended'[r]
      /\ \A q \in Requests \ {r} : ended'[q] = ended[q]
  BY <1>1 DEF TypeOK, Abort, Finish
<1>8. /\ issued' \in [Requests -> {None, "active", "invalidated"}]
      /\ error' \in [Requests -> {None} \cup Categories]
  BY <1>1, <1>2 DEF TypeOK, Abort
<1>9. QED
  BY <1>2, <1>3, <1>4, <1>6, <1>7, <1>8, FailedKeeps

-----------------------------------------------------------------------------
(* The end of a process, and of a flow's place in memory.                    *)

\* A flow that is gone has nothing in memory and nothing on its own trail.
LEMMA FreshKept ==
    ASSUME NEW q, state'[q] = "unstarted", session'[q] = FALSE,
           disclosed'[q] = 0, manifest'[q] = FALSE, validation'[q] = None,
           decision'[q] = None, ended'[q] = FALSE, error'[q] = None,
           dispatched'[q] = FALSE, trail'[q] = <<>>,
           outcome'[q] # "succeeded"
    PROVE  Standing(q)' /\ Course(q)' /\ Effects(q)'
<1>1. Standing(q)'
  BY DEF Standing, Terminal
<1>2. Course(q)'
  BY DEF Course
<1>3. Effects(q)'
  BY DEF Effects, SessionOnRecord, ManifestOnRecord, ValidationOnRecord,
         DecisionOnRecord
<1>4. QED
  BY <1>1, <1>2, <1>3

LEMMA LogTyped ==
    ASSUME TypeOK, NEW r \in Requests
    PROVE  Log(r) \in Seq(EventRec)
<1>1. earlier[r] \in Seq(EventRec) /\ trail[r] \in Seq(EventRec)
  BY DEF TypeOK, EventRec
<1>2. QED
  BY <1>1, Concat, Zenon DEF Log

\* A step that takes flows out of memory and leaves the others alone.
LEMMA GoneKeeps ==
    ASSUME FlowInv, NEW rs, FlowsGone(rs),
           outcome' \in [Requests -> {None, "succeeded", "failed", "lost"}],
           \A q \in Requests :
               IF q \in rs THEN outcome'[q] # "succeeded"
                          ELSE outcome'[q] = outcome[q],
           seen' \subseteq Requests, refused' \subseteq Requests,
           resuming' \subseteq Requests
    PROVE  FlowInv'
<1>1. TypeOK
  BY DEF FlowInv
<1>2. /\ state' \in [Requests -> States]
      /\ \A q \in Requests :
            state'[q] = IF q \in rs THEN "unstarted" ELSE state[q]
  <2>1. state \in [Requests -> States] /\ "unstarted" \in States
    BY <1>1 DEF TypeOK, States
  <2>2. state' = Without(state, rs, "unstarted")
    BY DEF FlowsGone
  <2>3. QED
    BY <2>1, <2>2 DEF Without
<1>3. /\ trust' \in [Requests -> {None, "allow", "deny"}]
      /\ \A q \in Requests :
            trust'[q] = IF q \in rs THEN None ELSE trust[q]
  <2>1. trust \in [Requests -> {None, "allow", "deny"}] /\ None \in {None, "allow", "deny"}
    BY <1>1 DEF TypeOK
  <2>2. trust' = Without(trust, rs, None)
    BY DEF FlowsGone
  <2>3. QED
    BY <2>1, <2>2 DEF Without
<1>4. /\ session' \in [Requests -> BOOLEAN]
      /\ \A q \in Requests :
            session'[q] = IF q \in rs THEN FALSE ELSE session[q]
  <2>1. session \in [Requests -> BOOLEAN] /\ FALSE \in BOOLEAN
    BY <1>1 DEF TypeOK
  <2>2. session' = Without(session, rs, FALSE)
    BY DEF FlowsGone
  <2>3. QED
    BY <2>1, <2>2 DEF Without
<1>5. /\ disclosed' \in [Requests -> {0, Components}]
      /\ \A q \in Requests :
            disclosed'[q] = IF q \in rs THEN 0 ELSE disclosed[q]
  <2>1. disclosed \in [Requests -> {0, Components}] /\ 0 \in {0, Components}
    BY <1>1 DEF TypeOK
  <2>2. disclosed' = Without(disclosed, rs, 0)
    BY DEF FlowsGone
  <2>3. QED
    BY <2>1, <2>2 DEF Without
<1>6. /\ manifest' \in [Requests -> BOOLEAN]
      /\ \A q \in Requests :
            manifest'[q] = IF q \in rs THEN FALSE ELSE manifest[q]
  <2>1. manifest \in [Requests -> BOOLEAN] /\ FALSE \in BOOLEAN
    BY <1>1 DEF TypeOK
  <2>2. manifest' = Without(manifest, rs, FALSE)
    BY DEF FlowsGone
  <2>3. QED
    BY <2>1, <2>2 DEF Without
<1>7. /\ validation' \in [Requests -> {None} \cup Verdicts]
      /\ \A q \in Requests :
            validation'[q] = IF q \in rs THEN None ELSE validation[q]
  <2>1. validation \in [Requests -> {None} \cup Verdicts] /\ None \in {None} \cup Verdicts
    BY <1>1 DEF TypeOK
  <2>2. validation' = Without(validation, rs, None)
    BY DEF FlowsGone
  <2>3. QED
    BY <2>1, <2>2 DEF Without
<1>8. /\ decision' \in [Requests -> {None, "release", "refuse"}]
      /\ \A q \in Requests :
            decision'[q] = IF q \in rs THEN None ELSE decision[q]
  <2>1. decision \in [Requests -> {None, "release", "refuse"}] /\ None \in {None, "release", "refuse"}
    BY <1>1 DEF TypeOK
  <2>2. decision' = Without(decision, rs, None)
    BY DEF FlowsGone
  <2>3. QED
    BY <2>1, <2>2 DEF Without
<1>9. /\ ended' \in [Requests -> BOOLEAN]
      /\ \A q \in Requests :
            ended'[q] = IF q \in rs THEN FALSE ELSE ended[q]
  <2>1. ended \in [Requests -> BOOLEAN] /\ FALSE \in BOOLEAN
    BY <1>1 DEF TypeOK
  <2>2. ended' = Without(ended, rs, FALSE)
    BY DEF FlowsGone
  <2>3. QED
    BY <2>1, <2>2 DEF Without
<1>10. /\ issued' \in [Requests -> {None, "active", "invalidated"}]
       /\ \A q \in Requests :
             issued'[q] = IF q \in rs THEN None ELSE issued[q]
  <2>1. issued \in [Requests -> {None, "active", "invalidated"}] /\ None \in {None, "active", "invalidated"}
    BY <1>1 DEF TypeOK
  <2>2. issued' = Without(issued, rs, None)
    BY DEF FlowsGone
  <2>3. QED
    BY <2>1, <2>2 DEF Without
<1>11. /\ error' \in [Requests -> {None} \cup Categories]
       /\ \A q \in Requests :
             error'[q] = IF q \in rs THEN None ELSE error[q]
  <2>1. error \in [Requests -> {None} \cup Categories] /\ None \in {None} \cup Categories
    BY <1>1 DEF TypeOK
  <2>2. error' = Without(error, rs, None)
    BY DEF FlowsGone
  <2>3. QED
    BY <2>1, <2>2 DEF Without
<1>12. /\ dispatched' \in [Requests -> BOOLEAN]
       /\ \A q \in Requests :
             dispatched'[q] = IF q \in rs THEN FALSE ELSE dispatched[q]
  <2>1. dispatched \in [Requests -> BOOLEAN] /\ FALSE \in BOOLEAN
    BY <1>1 DEF TypeOK
  <2>2. dispatched' = Without(dispatched, rs, FALSE)
    BY DEF FlowsGone
  <2>3. QED
    BY <2>1, <2>2 DEF Without
<1>13. /\ trail' \in [Requests -> Seq(EventRec)]
       /\ \A q \in Requests :
             trail'[q] = IF q \in rs THEN <<>> ELSE trail[q]
  <2>1. trail \in [Requests -> Seq(EventRec)] /\ <<>> \in Seq(EventRec)
    <3>1. <<>> \in Seq(EventRec)
      OBVIOUS
    <3>2. QED
      BY <1>1, <3>1 DEF TypeOK, EventRec
  <2>2. trail' = Without(trail, rs, <<>>)
    BY DEF FlowsGone
  <2>3. QED
    BY <2>1, <2>2 DEF Without
<1>14. earlier' \in [Requests -> Seq(EventRec)]
  <2>1. \A r \in Requests : Log(r) \in Seq(EventRec)
    BY <1>1, LogTyped
  <2>2. earlier \in [Requests -> Seq(EventRec)]
    BY <1>1 DEF TypeOK, EventRec
  <2>3. earlier' = [r \in Requests |-> IF r \in rs THEN Log(r)
                                                ELSE earlier[r]]
    BY DEF FlowsGone
  <2>4. QED
    BY <2>1, <2>2, <2>3
<1>15. TypeOK'
  BY <1>2, <1>3, <1>4, <1>5, <1>6, <1>7, <1>8, <1>9, <1>10, <1>11, <1>12,
     <1>13, <1>14 DEF TypeOK, EventRec
<1>16. ASSUME NEW q \in Requests
       PROVE  Standing(q)' /\ Course(q)' /\ Effects(q)'
  <2>1. CASE q \in rs
    BY <1>2, <1>4, <1>5, <1>6, <1>7, <1>8, <1>9, <1>11, <1>12, <1>13, <2>1,
       FreshKept, Zenon
  <2>2. CASE q \notin rs
    <3>1. Same(q)
      BY <1>2, <1>3, <1>4, <1>5, <1>6, <1>7, <1>8, <1>9, <1>11, <1>12,
         <1>13, <2>2, Zenon DEF Same
    <3>2. QED
      BY <3>1, SameKept DEF FlowInv
  <2>3. QED
    BY <2>1, <2>2
<1>17. QED
  BY <1>15, <1>16 DEF FlowInv

LEMMA JobLeavesKeeps ==
    ASSUME FlowInv, NEW r \in Requests, JobLeaves(r)
    PROVE  FlowInv'
<1>1. TypeOK
  BY DEF FlowInv
<1>2. /\ FlowsGone({r})
      /\ seen' = seen /\ refused' = refused /\ resuming' = resuming
      /\ outcome' = [outcome EXCEPT ![r] = None]
  BY DEF JobLeaves
<1>3. /\ outcome' \in [Requests -> {None, "succeeded", "failed", "lost"}]
      /\ outcome'[r] = None
      /\ \A q \in Requests \ {r} : outcome'[q] = outcome[q]
      /\ seen' \subseteq Requests /\ refused' \subseteq Requests
      /\ resuming' \subseteq Requests
  BY <1>1, <1>2 DEF TypeOK
<1>4. None # "succeeded"
  BY DEF None
<1>5. \A q \in Requests : IF q \in {r} THEN outcome'[q] # "succeeded"
                                     ELSE outcome'[q] = outcome[q]
  BY <1>3, <1>4
<1>6. QED
  BY <1>2, <1>3, <1>5, GoneKeeps

LEMMA CrashKeeps ==
    ASSUME FlowInv, Crash
    PROVE  FlowInv'
<1>1. TypeOK
  BY DEF FlowInv
<1>2. PICK unstored \in SUBSET {r \in Requests : outcome[r] # None
                                              /\ state[r] # "unstarted"},
           lost \in SUBSET {r \in Requests : outcome[r] = None
                                          /\ state[r] # "unstarted"} :
         LET unfinished == {r \in Requests : outcome[r] = None} \cup unstored
         IN  /\ FlowsGone(unfinished)
             /\ outcome' = [r \in Requests |->
                    IF r \in lost THEN "lost"
                    ELSE IF r \in unstored THEN None ELSE outcome[r]]
             /\ resuming' = resuming \cup
                    {r \in unfinished \ lost : state[r] # "unstarted"}
  BY DEF Crash
<1>3. PICK gone : gone = {r \in Requests : outcome[r] = None} \cup unstored
  OBVIOUS
<1>4. /\ FlowsGone(gone)
      /\ outcome' = [r \in Requests |->
             IF r \in lost THEN "lost"
             ELSE IF r \in unstored THEN None ELSE outcome[r]]
      /\ resuming' = resuming \cup {r \in gone \ lost :
                                      state[r] # "unstarted"}
      /\ seen' = {} /\ refused' = refused
  BY <1>2, <1>3 DEF Crash
<1>5. /\ outcome' \in [Requests -> {None, "succeeded", "failed", "lost"}]
      /\ \A q \in Requests : IF q \in gone THEN outcome'[q] # "succeeded"
                                          ELSE outcome'[q] = outcome[q]
  BY <1>1, <1>3, <1>4 DEF TypeOK, None
<1>6. /\ seen' \subseteq Requests /\ refused' \subseteq Requests
      /\ resuming' \subseteq Requests
  BY <1>1, <1>3, <1>4 DEF TypeOK
<1>7. QED
  BY <1>4, <1>5, <1>6, GoneKeeps

LEMMA FailOnRecordKeeps ==
    ASSUME FlowInv, NEW r \in Requests, FailOnRecord(r)
    PROVE  FlowInv'
<1>1. TypeOK
  BY DEF FlowInv
<1>2. /\ outcome' = [outcome EXCEPT ![r] = "failed"]
      /\ seen' \subseteq Requests /\ refused' \subseteq Requests
      /\ resuming' = resuming \ {r} /\ earlier' = earlier
      /\ UNCHANGED <<flow, issued, error, dispatched, trail>>
  BY <1>1 DEF FailOnRecord, TypeOK
<1>3. /\ outcome' \in [Requests -> {None, "succeeded", "failed", "lost"}]
      /\ outcome'[r] = "failed"
      /\ \A q \in Requests \ {r} : outcome'[q] = outcome[q]
  BY <1>1, <1>2 DEF TypeOK
<1>4. TypeOK'
  BY <1>1, <1>2, <1>3 DEF TypeOK, flow
<1>5. ASSUME NEW q \in Requests
      PROVE  Standing(q)' /\ Course(q)' /\ Effects(q)'
  <2>1. Standing(q) /\ Course(q) /\ Effects(q)
    BY DEF FlowInv
  <2>2. CASE q = r
    <3>1. Standing(q)'
      BY <1>2, <1>3, <2>1, <2>2 DEF Standing, flow
    <3>2. Course(q)'
      BY <1>2, <2>1 DEF Course, flow
    <3>3. Effects(q)'
      BY <1>2, <2>1 DEF flow, Effects, SessionOnRecord, ManifestOnRecord,
                        ValidationOnRecord, DecisionOnRecord, OnTrail
    <3>4. QED
      BY <3>1, <3>2, <3>3
  <2>3. CASE q # r
    <3>1. Same(q)
      BY <1>2, <1>3, <2>3 DEF Same, flow
    <3>2. QED
      BY <2>1, <3>1, SameKept
  <2>4. QED
    BY <2>2, <2>3
<1>6. QED
  BY <1>4, <1>5 DEF FlowInv

-----------------------------------------------------------------------------
(* The theorems.                                                            *)

LEMMA FlowInit == Init => FlowInv
<1> SUFFICES ASSUME Init PROVE FlowInv
  OBVIOUS
<1>1. TypeOK
  BY DEF Init, TypeOK, States
<1>2. ASSUME NEW r \in Requests
      PROVE  Standing(r) /\ Course(r) /\ Effects(r)
  <2>1. Standing(r)
    BY DEF Init, Standing, Terminal, None
  <2>2. Course(r)
    BY DEF Init, Course
  <2>3. Effects(r)
    BY DEF Init, Effects, SessionOnRecord, ManifestOnRecord,
           ValidationOnRecord, DecisionOnRecord
  <2>4. QED
    BY <2>1, <2>2, <2>3
<1>3. QED
  BY <1>1, <1>2 DEF FlowInv

LEMMA StepKeeps ==
    ASSUME FlowInv, NEW r \in Requests, ServeOne(r) \/ Submit(r)
    PROVE  FlowInv'
<1>1. CASE Keeps(r)
  <2>1. \A q \in Requests \ {r} : Standing(q)' /\ Course(q)' /\ Effects(q)'
    BY <1>1, SameKept DEF Keeps, FlowInv
  <2>2. QED
    BY <1>1, <2>1 DEF Keeps, FlowInv
<1>2. CASE IntakeRefused(r) \/ IntakeForgets(r)
  <2>1. TypeOK'
    BY <1>2 DEF FlowInv, TypeOK, IntakeRefused, IntakeForgets, flow,
                  kept
  <2>2. \A q \in Requests : Same(q)
    BY <1>2 DEF Same, IntakeRefused, IntakeForgets, flow
  <2>3. QED
    BY <2>1, <2>2, SameKept DEF FlowInv
<1>3. CASE Intake(r)
  BY <1>1, <1>3, IntakeKeeps
<1>4. CASE \E verdict \in {"allow", "deny"} : Admit(r, verdict)
  BY <1>1, <1>4, AdmitKeeps
<1>5. CASE IssueSession(r) \/ SessionUnrecorded(r)
  BY <1>1, <1>5, IssueSessionKeeps, SessionUnrecordedKeeps
<1>6. CASE Disclose(r) \/ IssueManifest(r) \/ Dispatch(r)
  BY <1>1, <1>6, DiscloseKeeps, IssueManifestKeeps, DispatchKeeps
<1>7. CASE \E category \in Categories : ServeFails(r, category)
  BY <1>1, <1>7, ServeFailsKeeps
<1>8. CASE CandidateReceived(r)
  BY <1>1, <1>8, CandidateReceivedKeeps
<1>9. CASE \E op, sem \in {"pass", "fail"}, beh \in Verdicts :
              Validate(r, op, sem, beh)
  BY <1>1, <1>9, ValidateKeeps
<1>10. CASE Decide(r) \/ Seal(r) \/ SealIncident(r)
  BY <1>1, <1>10, DecideKeeps, SealKeeps, SealIncidentKeeps
<1>11. CASE StageFails(r) \/ Abort(r) \/ Complete(r)
  BY <1>1, <1>11, StageFailsKeeps, AbortKeeps, CompleteKeeps
<1>12. QED
  BY <1>2, <1>3, <1>4, <1>5, <1>6, <1>7, <1>8, <1>9, <1>10, <1>11
     DEF ServeOne, Submit

LEMMA FlowStep == FlowInv /\ [Next]_vars => FlowInv'
<1> SUFFICES ASSUME FlowInv, [Next]_vars PROVE FlowInv'
  OBVIOUS
<1>1. CASE \E r \in Requests :
               ServeOne(r) \/ Submit(r) \/ FailOnRecord(r) \/ JobLeaves(r)
  BY <1>1, StepKeeps, FailOnRecordKeeps, JobLeavesKeeps
<1>2. CASE UNCHANGED vars
  <2>1. TypeOK'
    BY <1>2 DEF FlowInv, TypeOK, vars, flow, kept
  <2>2. \A q \in Requests : Same(q)
    BY <1>2 DEF Same, vars, flow
  <2>3. QED
    BY <2>1, <2>2, SameKept DEF FlowInv
<1>3. CASE Crash
  BY <1>3, CrashKeeps
<1>4. QED
  BY <1>1, <1>2, <1>3 DEF Next

\* The inductive invariant holds, type correctness with it.
THEOREM FlowInvariant == Spec => []FlowInv
<1>1. QED
  BY FlowInit, FlowStep, PTL DEF Spec

\* What a flow holds and what has left the vault is on the record before it
\* takes effect, whatever stages and whatever appends failed on the way
\* (Flow's emit before each assignment, StagedSequencer.Run, abortJob).
THEOREM EffectsAreRecorded == Spec => []RecordBeforeEffect
<1>1. FlowInv => RecordBeforeEffect
  BY DEF FlowInv, RecordBeforeEffect, Effects, SessionOnRecord,
         ManifestOnRecord, ValidationOnRecord, DecisionOnRecord
<1>2. QED
  BY <1>1, FlowInvariant, PTL

-----------------------------------------------------------------------------
(* The record of a release starts with its admission and holds no other.    *)

Admitting(e) == e.kind = "REQUEST_RECEIVED"

Later(s) == s \in Seq(EventRec) /\ \A n \in 1..Len(s) : ~Admitting(s[n])

Started(s) ==
    /\ s \in Seq(EventRec) /\ 1 <= Len(s) /\ Admitting(s[1])
    /\ \A n \in 2..Len(s) : ~Admitting(s[n])

LEMMA LaterJoins ==
    ASSUME NEW a, NEW b, Later(a), Later(b)
    PROVE  Later(a \o b)
<1>1. a \in Seq(EventRec) /\ b \in Seq(EventRec)
  BY DEF Later
<1>2. /\ a \o b \in Seq(EventRec)
      /\ Len(a) \in Nat /\ Len(b) \in Nat
      /\ Len(a \o b) = Len(a) + Len(b)
      /\ \A i \in 1..Len(a) : (a \o b)[i] = a[i]
      /\ \A i \in 1..Len(b) : (a \o b)[Len(a) + i] = b[i]
  BY <1>1, Concat
<1>3. PICK ab : ab = a \o b
  OBVIOUS
<1>4. ASSUME NEW n \in 1..Len(ab)
      PROVE  ~Admitting(ab[n])
  <2>1. CASE n \in 1..Len(a)
    BY <1>2, <1>3, <2>1 DEF Later
  <2>2. CASE n \notin 1..Len(a)
    <3>1. n - Len(a) \in 1..Len(b) /\ n = Len(a) + (n - Len(a))
      BY <1>2, <1>3, <2>2
    <3>2. PICK i \in 1..Len(b) : n = Len(a) + i
      BY <3>1
    <3>3. ab[n] = b[i]
      BY <1>2, <1>3, <3>2, Zenon
    <3>4. QED
      BY <3>2, <3>3 DEF Later
  <2>3. QED
    BY <2>1, <2>2
<1>5. QED
  BY <1>2, <1>3, <1>4 DEF Later

LEMMA StartedJoins ==
    ASSUME NEW a, NEW b, Started(a), Later(b)
    PROVE  Started(a \o b)
<1>1. a \in Seq(EventRec) /\ b \in Seq(EventRec)
  BY DEF Started, Later
<1>2. /\ a \o b \in Seq(EventRec)
      /\ Len(a) \in Nat /\ Len(b) \in Nat
      /\ Len(a \o b) = Len(a) + Len(b)
      /\ \A i \in 1..Len(a) : (a \o b)[i] = a[i]
      /\ \A i \in 1..Len(b) : (a \o b)[Len(a) + i] = b[i]
  BY <1>1, Concat
<1>3. PICK ab : ab = a \o b
  OBVIOUS
<1>4. ASSUME NEW n \in 2..Len(ab)
      PROVE  ~Admitting(ab[n])
  <2>1. CASE n \in 1..Len(a)
    <3>1. n \in 2..Len(a) /\ ab[n] = a[n]
      BY <1>2, <1>3, <2>1
    <3>2. QED
      BY <3>1 DEF Started
  <2>2. CASE n \notin 1..Len(a)
    <3>1. n - Len(a) \in 1..Len(b) /\ n = Len(a) + (n - Len(a))
      BY <1>2, <1>3, <2>2
    <3>2. PICK i \in 1..Len(b) : n = Len(a) + i
      BY <3>1
    <3>3. ab[n] = b[i]
      BY <1>2, <1>3, <3>2, Zenon
    <3>4. QED
      BY <3>2, <3>3 DEF Later
  <2>3. QED
    BY <2>1, <2>2
<1>5. 1 <= Len(a) /\ Admitting(a[1])
  BY DEF Started
<1>6. 1 <= Len(ab) /\ ab[1] = a[1]
  BY <1>2, <1>3, <1>5
<1>7. QED
  BY <1>2, <1>3, <1>4, <1>5, <1>6 DEF Started

LEMMA LaterOne ==
    ASSUME NEW k \in Kinds, NEW v \in Says, k # "REQUEST_RECEIVED"
    PROVE  Later(<<Event(k, v)>>)
<1>1. PICK e \in EventRec : e = Event(k, v)
  BY EventTyped
<1>2. ~Admitting(e)
  BY <1>1, EventTyped DEF Admitting
<1>3. Later(<<e>>)
  BY <1>2 DEF Later
<1>4. QED
  BY <1>1, <1>3, Zenon

\* The events of three passing dimensions.
LEMMA PassEventsLater == Later(ValidationEvents("pass", "pass", "pass"))
<1>1. PICK started : started = Plain("VALIDATION_STARTED")
  OBVIOUS
<1>2. PICK d : d = Event("VALIDATION_DIMENSION_EVALUATED", "pass")
  OBVIOUS
<1>3. PICK done : done = Event("VALIDATION_COMPLETED", "pass")
  OBVIOUS
<1>4. Later(<<started>>)
  BY <1>1, LaterOne DEF Plain, Kinds, Says
<1>5. Later(<<d>>)
  BY <1>2, LaterOne DEF Kinds, Says, Verdicts
<1>6. Later(<<done>>)
  BY <1>3, LaterOne DEF Kinds, Says, Verdicts
<1>7. Later(<<d, d, d>>)
  BY <1>5 DEF Later
<1>8. <<d, d, d>> \o <<>> \o <<>> = <<d, d, d>>
  <2>1. <<d, d, d>> \in Seq(EventRec)
    BY <1>7 DEF Later
  <2>2. QED
    BY <2>1
<1>9. ValidationEvents("pass", "pass", "pass") =
          <<started>> \o (<<d, d, d>> \o <<>> \o <<>>) \o <<done>>
  BY <1>1, <1>2, <1>3, Zenon DEF ValidationEvents, Aggregate
<1>10. Later(<<started>> \o <<d, d, d>>)
  BY <1>4, <1>7, LaterJoins
<1>11. Later(<<started>> \o <<d, d, d>> \o <<done>>)
  BY <1>6, <1>10, LaterJoins
<1>12. QED
  BY <1>8, <1>9, <1>11, Zenon

LEMMA ReleaseRecordStarted == Started(ReleaseRecord)
<1>1. Started(IntakeEvents)
  <2>1. PICK e \in EventRec : e = Plain("REQUEST_RECEIVED")
    BY PlainTyped DEF Kinds
  <2>2. Admitting(e)
    BY <2>1, PlainTyped DEF Kinds, Admitting
  <2>3. Started(<<e>>)
    BY <2>2 DEF Started
  <2>4. QED
    BY <2>1, <2>3, Zenon DEF IntakeEvents
<1>2. Later(TrustEvents("allow"))
  BY LaterOne DEF TrustEvents, Kinds, Says
<1>3. Later(SessionEvents) /\ Later(ManifestEvents) /\ Later(CandidateEvents)
  BY LaterOne DEF SessionEvents, ManifestEvents, CandidateEvents, Plain,
                  Kinds, Says
<1>4. Later(DisclosureEvents)
  <2>1. /\ DisclosureEvents \in Seq(EventRec)
        /\ Len(DisclosureEvents) = Components
        /\ \A i \in 1..Components :
              DisclosureEvents[i] = Plain("DISCLOSURE_AUTHORIZED")
    BY StageEventsTyped, ComponentsAssumption DEF DisclosureEvents
  <2>2. ~Admitting(Plain("DISCLOSURE_AUTHORIZED"))
    BY PlainTyped DEF Kinds, Admitting
  <2>3. QED
    BY <2>1, <2>2 DEF Later
<1>5. Later(<<Event("RELEASE_DECIDED", "release")>>)
  BY LaterOne DEF Kinds, Says
<1>6. Started(AfterTrust)
  BY <1>1, <1>2, StartedJoins DEF AfterTrust
<1>7. Started(AfterSession)
  BY <1>3, <1>6, StartedJoins DEF AfterSession
<1>8. Started(AfterDisclosure)
  BY <1>4, <1>7, StartedJoins DEF AfterDisclosure
<1>9. Started(AfterManifest)
  BY <1>3, <1>8, StartedJoins DEF AfterManifest
<1>10. Started(AfterCandidate)
  BY <1>3, <1>9, StartedJoins DEF AfterCandidate
<1>11. Started(AfterPass)
  BY <1>10, PassEventsLater, StartedJoins DEF AfterPass
<1>12. QED
  BY <1>5, <1>11, StartedJoins, ReleaseRecordIs, Zenon

\* A sequence that ends in a started one: where the last admission is, and
\* what follows from there.
LEMMA LastAdmission ==
    ASSUME NEW a \in Seq(EventRec), NEW b, Started(b), NEW s, s = a \o b
    PROVE  \E i \in 1..Len(s) :
               /\ s[i].kind = "REQUEST_RECEIVED"
               /\ \A n \in (i + 1)..Len(s) : s[n].kind # "REQUEST_RECEIVED"
               /\ SubSeq(s, i, Len(s)) = b
<1>1. b \in Seq(EventRec) /\ 1 <= Len(b) /\ b[1].kind = "REQUEST_RECEIVED"
      /\ \A n \in 2..Len(b) : b[n].kind # "REQUEST_RECEIVED"
  BY DEF Started, Admitting
<1>2. /\ s \in Seq(EventRec)
      /\ Len(a) \in Nat /\ Len(b) \in Nat
      /\ Len(s) = Len(a) + Len(b)
      /\ \A i \in 1..Len(b) : s[Len(a) + i] = b[i]
  BY <1>1, Concat
<1>3. PICK i \in 1..Len(s) : i = Len(a) + 1
  BY <1>1, <1>2
<1>4. s[i].kind = "REQUEST_RECEIVED"
  BY <1>1, <1>2, <1>3
<1>5. ASSUME NEW n \in (i + 1)..Len(s)
      PROVE  s[n].kind # "REQUEST_RECEIVED"
  <2>1. n - Len(a) \in 2..Len(b) /\ n = Len(a) + (n - Len(a))
    BY <1>2, <1>3
  <2>2. PICK m \in 2..Len(b) : n = Len(a) + m
    BY <2>1
  <2>3. s[n] = b[m]
    BY <1>2, <2>2
  <2>4. QED
    BY <1>1, <2>2, <2>3
<1>6. SubSeq(s, i, Len(s)) = b
  <2>1. PICK t : t = SubSeq(s, i, Len(s))
    OBVIOUS
  <2>2. /\ t \in Seq(EventRec) /\ Len(t) = Len(b)
        /\ \A n \in 1..Len(b) : t[n] = s[Len(a) + n]
    BY <1>1, <1>2, <1>3, <2>1
  <2>3. \A n \in 1..Len(b) : t[n] = b[n]
    BY <1>2, <2>2
  <2>4. t = b
    <3>1. /\ t \in [1..Len(t) -> EventRec]
          /\ b \in [1..Len(b) -> EventRec]
      BY <1>1, <2>2
    <3>2. QED
      BY <2>2, <2>3, <3>1
  <2>5. QED
    BY <2>1, <2>4
<1>7. QED
  BY <1>3, <1>4, <1>5, <1>6

\* A flow ends in a release, and serveOne completes its job as succeeded, only
\* on the whole record of a passing flow: from the request's last admission on
\* the log holds exactly that record, whatever flows of the same request were
\* broken off, failed or finished before, in this process or in one that died
\* (Flow.Decide, Flow.Seal, CompleteGated, ResumeJobs).
THEOREM ReleasesAreRecorded == Spec => []ReleaseOnRecord
<1>1. ASSUME FlowInv, NEW r \in Requests,
             state[r] = "release_authorized" \/ outcome[r] = "succeeded"
      PROVE  \E i \in 1..Len(Log(r)) :
                /\ Log(r)[i].kind = "REQUEST_RECEIVED"
                /\ \A n \in (i + 1)..Len(Log(r)) :
                      Log(r)[n].kind # "REQUEST_RECEIVED"
                /\ SubSeq(Log(r), i, Len(Log(r))) = ReleaseRecord
  <2>1. trail[r] = ReleaseRecord
    BY <1>1 DEF FlowInv, Standing, Course
  <2>2. earlier[r] \in Seq(EventRec)
    BY <1>1 DEF FlowInv, TypeOK, EventRec
  <2>3. PICK s : s = Log(r)
    OBVIOUS
  <2>4. s = earlier[r] \o ReleaseRecord
    BY <2>1, <2>3, Zenon DEF Log
  <2>5. \E i \in 1..Len(s) :
            /\ s[i].kind = "REQUEST_RECEIVED"
            /\ \A n \in (i + 1)..Len(s) : s[n].kind # "REQUEST_RECEIVED"
            /\ SubSeq(s, i, Len(s)) = ReleaseRecord
    BY <2>2, <2>4, ReleaseRecordStarted, LastAdmission, Zenon
  <2>6. QED
    BY <2>3, <2>5, Zenon
<1>2. FlowInv => ReleaseOnRecord
  BY <1>1, Zenon DEF ReleaseOnRecord
<1>3. QED
  BY <1>2, FlowInvariant, PTL

=============================================================================
