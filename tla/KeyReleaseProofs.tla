-------------------------- MODULE KeyReleaseProofs --------------------------
(***************************************************************************)
(* What TLAPS proves of the cross-cloud key release, for any keys, images, *)
(* stop lists, suites and bounds: a key a destination holds was released   *)
(* to it on the record, under a stop list no older than any decided on     *)
(* before, and a restore that is confirmed is that of a recorded release.  *)
(*                                                                         *)
(* The invariant follows a key from the command to the keystore: the       *)
(* command that is running decides under the newest list (SourceInv), what *)
(* is decided is sound and ordered (AuditInv), a token in the network has  *)
(* its release on the record (NetInv), and so has a key that is held       *)
(* (KeyInv).  DestInv is the type of what the destination keeps.           *)
(***************************************************************************)
EXTENDS KeyRelease, WellFoundedInduction, TLAPS

CmdRec == [pc : {"handshake", "verified", "sent"}, run : Runs,
           decision : Decisions, keys : KeyMaterial, serial : 1..Len(Lists),
           key : Nat, image : Images \cup {None}]

SourceInv ==
    /\ list \in 1..Len(Lists) /\ runs \in 0..MaxRuns
    /\ cmd \in CmdRec \cup {Idle}
    /\ cmd # Idle => cmd.run = runs
    /\ cmd.pc \in {"handshake", "verified"} =>
          \A f \in Decided : f.serial <= cmd.serial
    /\ cmd.pc = "verified" => cmd.image \in Known

AuditInv ==
    /\ \A e \in Decided : e.run \in 1..runs /\ e.serial \in 1..Len(Lists)
    /\ \A e \in Releases : e.image \in Known \cap Allowed
                           /\ e.image \notin Lists[e.serial]
    /\ \A e, f \in Decided : f.run < e.run => f.serial <= e.serial

\* The release a token is sent under.
OnRecord(m) ==
    \E e \in Releases : e.keys = DOMAIN m.wrapped /\ e.image = m.image

NetInv ==
    \A m \in net :
        /\ m.type = "answer" => m.key \in Nat /\ m.image \in Images
        /\ m.type = "token" => m.run \in Runs /\ m.wrapped \in KeyMaterial
                               /\ OnRecord(m)

KeyInv ==
    \A k \in Keys : keystore[k] # 0 =>
        \E e \in Releases : k \in e.keys /\ e.image = image

ReleaseInv == SourceInv /\ AuditInv /\ NetInv

Entry == [state : {None, "waiting", "restoring", "gating", "restored",
                   "gate_failed", "failed"},
          run : 0..MaxRuns, signed : {NoReceipt} \cup Receipt]
WorkRec == [step : {"open", "gate", "sign", "mark", "keep", "erase"},
            kid : Keys, gate : Verdicts, signed : {NoReceipt} \cup Receipt]

ReceiverType ==
    /\ image \in Images /\ restarts \in 0..MaxRestarts
    /\ handshakes \in 0..MaxHandshakes
    /\ pending \in [Runs -> 0..MaxHandshakes]
    /\ delivered \in [Keys -> {0} \cup Materials]
    /\ keystore \in [Keys -> {0} \cup Materials]

\* An entry that is one knows its run, and so the receipt can name it.
RestorerType ==
    /\ entries \in [Keys -> Entry]
    /\ \A k \in Keys : entries[k].state # None => entries[k].run \in Runs
    /\ work \in WorkRec \cup {NoWork}
    /\ work # NoWork => entries[work.kid].state # None
    /\ receipts \in [Keys -> {NoReceipt} \cup Receipt]
    /\ bundles \subseteq GenomeKeys

DestInv == ReceiverType /\ RestorerType

-----------------------------------------------------------------------------
(* Greatest elements.                                                       *)

LEMMA GreatestExists ==
    ASSUME NEW n \in Nat, NEW S \in SUBSET (0..n), S # {}
    PROVE  \E x \in S : \A y \in S : y <= x
<1> DEFINE R == OpToRel(<, Nat)
           T == {x \in 0..n : n - x \in S}
<1>1. IsWellFoundedOn(R, Nat)
  BY NatLessThanWellFounded
<1>2. T \subseteq Nat /\ T # {}
  <2>1. PICK x \in S : TRUE
    OBVIOUS
  <2>2. n - x \in T
    BY <2>1
  <2>3. T \subseteq Nat
    OBVIOUS
  <2> HIDE DEF T
  <2>4. QED
    BY <2>2, <2>3
<1> HIDE DEF R, T
<1>3. PICK m \in T : \A y \in T : <<y, m>> \notin R
  BY <1>1, <1>2, WFMin
<1>4. \A y \in T : ~(y < m)
  BY <1>2, <1>3 DEF R, OpToRel
<1>5. n - m \in S
  BY <1>3 DEF T
<1>6. ASSUME NEW y \in S
      PROVE  y <= n - m
  <2>1. y \in 0..n /\ n - (n - y) = y
    OBVIOUS
  <2>2. n - y \in T
    BY <2>1 DEF T
  <2>3. ~(n - y < m) /\ m \in 0..n
    BY <1>4, <2>2 DEF T
  <2>4. QED
    BY <2>1, <2>3
<1>7. QED
  BY <1>5, <1>6

LEMMA MaxIsGreatest ==
    ASSUME NEW n \in Nat, NEW S \in SUBSET (0..n), S # {}
    PROVE  Max(S) \in S /\ \A y \in S : y <= Max(S)
<1>1. PICK x \in S : \A y \in S : y <= x
  BY GreatestExists
<1>2. \A y \in S : x >= y
  BY <1>1
<1>3. Max(S) \in S /\ \A y \in S : Max(S) >= y
  BY <1>2 DEF Max
<1>4. QED
  BY <1>3

LEMMA ListsCounted == Len(Lists) \in Nat
BY ListsAssumption

\* revocation.HighestSerial is no less than any serial decided on.
LEMMA HighestIsHighest ==
    ASSUME AuditInv
    PROVE  /\ HighestSerial \in Nat
           /\ \A f \in Decided : f.serial <= HighestSerial
<1> DEFINE S == {e.serial : e \in Decided} \cup {0}
<1>1. S \in SUBSET (0..Len(Lists)) /\ S # {}
  <2>1. \A e \in Decided : e.serial \in 0..Len(Lists)
    BY ListsCounted DEF AuditInv
  <2>2. 0 \in 0..Len(Lists)
    BY ListsCounted
  <2>3. QED
    BY <2>1, <2>2, Zenon
<1>2. \A f \in Decided : f.serial \in S
  OBVIOUS
<1>3. HighestSerial = Max(S)
  BY DEF HighestSerial
<1> HIDE DEF S
<1>4. Max(S) \in S /\ \A y \in S : y <= Max(S)
  BY <1>1, ListsCounted, MaxIsGreatest
<1>5. Max(S) \in Nat
  <2>1. \A y \in 0..Len(Lists) : y \in Nat
    BY ListsCounted
  <2>2. QED
    BY <1>1, <1>4, <2>1, Zenon
<1>6. QED
  BY <1>2, <1>3, <1>4, <1>5, Zenon

\* FindAuthorizedRelease answers with a release of the decision.
LEMMA LatestIsRelease ==
    ASSUME AuditInv, runs \in Nat, NEW d, \E e \in Releases : e.decision = d
    PROVE  LatestRelease(d) \in Releases /\ LatestRelease(d).decision = d
<1> DEFINE S == {e.run : e \in {f \in Releases : f.decision = d}}
<1>1. \A e \in Releases : e \in Decided /\ e.run \in 0..runs
  <2>1. \A e \in Releases : e \in Decided
    BY DEF Releases, Decided
  <2>2. QED
    BY <2>1 DEF AuditInv
<1>2. S \in SUBSET (0..runs) /\ S # {}
  BY <1>1, Zenon
<1>3. PICK n \in S : \A y \in S : y <= n
  <2> HIDE DEF S
  <2>1. QED
    BY <1>2, GreatestExists
<1>4. PICK e \in Releases : e.decision = d /\ e.run = n
  BY <1>3
<1>5. \A f \in Releases : f.decision = d => f.run <= e.run
  BY <1>3, <1>4
<1>6. QED
  BY <1>4, <1>5, Zenon DEF LatestRelease

-----------------------------------------------------------------------------
(* ReleaseInv.                                                              *)

Deciding == {"KEY_RELEASE_AUTHORIZED", "KEY_RELEASE_DENIED"}

\* The log takes an event that decides nothing.
LEMMA OtherEvent ==
    ASSUME NEW x, x.kind \notin Deciding, audit' = audit \cup {x}
    PROVE  Decided' = Decided /\ Releases' = Releases
BY DEF Decided, Releases, Deciding

LEMMA SameAudit ==
    ASSUME audit' = audit
    PROVE  Decided' = Decided /\ Releases' = Releases
BY DEF Decided, Releases

\* The record only grows.
LEMMA ReleasesStay ==
    ASSUME audit \subseteq audit'
    PROVE  Releases \subseteq Releases'
BY DEF Releases

LEMMA OnRecordStays ==
    ASSUME Releases \subseteq Releases', NEW m, OnRecord(m)
    PROVE  OnRecord(m)'
BY DEF OnRecord

\* With nothing decided on, what is on the record stays sound.
LEMMA AuditKept ==
    ASSUME AuditInv, Decided' = Decided, Releases' = Releases,
           runs \in Nat, runs' \in Nat, runs <= runs'
    PROVE  AuditInv'
BY DEF AuditInv

LEMMA NetKept ==
    ASSUME NetInv, net' = net, audit \subseteq audit'
    PROVE  NetInv'
BY ReleasesStay, OnRecordStays DEF NetInv

LEMMA NetGrows ==
    ASSUME NetInv, audit \subseteq audit', NEW x, net' = net \cup {x},
           x.type = "answer" => x.key \in Nat /\ x.image \in Images,
           x.type = "token" => x.run \in Runs /\ x.wrapped \in KeyMaterial
                               /\ OnRecord(x)'
    PROVE  NetInv'
BY ReleasesStay, OnRecordStays DEF NetInv

LEMMA CmdFields ==
    ASSUME SourceInv, cmd # Idle
    PROVE  /\ cmd \in CmdRec /\ cmd.run = runs /\ cmd.run \in Runs
           /\ cmd.serial \in 1..Len(Lists) /\ cmd.keys \in KeyMaterial
BY DEF SourceInv, CmdRec

LEMMA BusyIsNotIdle ==
    ASSUME cmd.pc # "idle"
    PROVE  cmd # Idle
BY DEF Idle

\* A decision is recorded: it comes after all the others, under a list no
\* older than theirs.
LEMMA DecisionKeeps ==
    ASSUME ReleaseInv, cmd.pc \in {"handshake", "verified"},
           NEW kind \in Deciding,
           audit' = audit \cup {Decision(kind, cmd)}, runs' = runs,
           kind = "KEY_RELEASE_AUTHORIZED" =>
               cmd.image \in Known /\ Authorized(cmd)
    PROVE  AuditInv'
<1> DEFINE x == Decision(kind, cmd)
<1>1. SourceInv /\ AuditInv
  BY DEF ReleaseInv
<1>2. cmd # Idle
  BY BusyIsNotIdle
<1>3. /\ x.kind = kind /\ x.run = runs /\ x.serial = cmd.serial
      /\ x.image = cmd.image
  BY <1>1, <1>2, CmdFields DEF Decision
<1>4. runs \in 1..runs /\ cmd.serial \in 1..Len(Lists) /\ runs \in Nat
  <2>1. runs \in Runs /\ runs \in 0..MaxRuns
    BY <1>1, <1>2, CmdFields DEF SourceInv
  <2>2. QED
    BY <1>1, <1>2, <2>1, CmdFields, BoundsAssumption DEF Runs
<1>5. \A f \in Decided : f.serial <= cmd.serial /\ f.run \in 1..runs
  BY <1>1 DEF SourceInv, AuditInv
<1> HIDE DEF x
<1>6. \A e \in Decided' : e \in Decided \/ e = x
  BY DEF Decided, x
<1>7. \A e \in Releases' :
          e \in Releases \/ (e = x /\ kind = "KEY_RELEASE_AUTHORIZED")
  BY <1>3 DEF Releases, x
<1>8. \A e \in Decided' : e.run \in 1..runs /\ e.serial \in 1..Len(Lists)
  BY <1>1, <1>3, <1>4, <1>6 DEF AuditInv
<1>9. \A e \in Releases' : e.image \in Known \cap Allowed
                           /\ e.image \notin Lists[e.serial]
  BY <1>1, <1>3, <1>7 DEF AuditInv, Authorized
<1>10. ASSUME NEW e \in Decided', NEW f \in Decided', f.run < e.run
       PROVE  f.serial <= e.serial
  <2>1. CASE e \in Decided /\ f \in Decided
    BY <1>1, <1>10, <2>1 DEF AuditInv
  <2>2. CASE f = x
    <3>1. e.run \in 1..runs
      BY <1>8
    <3>2. QED
      BY <1>3, <1>4, <1>10, <2>2, <3>1
  <2>3. CASE e = x /\ f \in Decided
    BY <1>3, <1>5, <2>3
  <2>4. QED
    BY <1>6, <2>1, <2>2, <2>3
<1>11. QED
  BY <1>8, <1>9, <1>10 DEF AuditInv

\* The command is over: nothing is asked of it any more.
LEMMA IdleKeeps ==
    ASSUME SourceInv, cmd' = Idle, list' = list, runs' = runs
    PROVE  SourceInv'
BY DEF SourceInv, Idle

LEMMA InitiateKeeps ==
    ASSUME ReleaseInv, NEW d \in Decisions, NEW m \in KeyMaterial,
           Initiate(d, m)
    PROVE  ReleaseInv'
<1>1. SourceInv /\ AuditInv /\ NetInv
  BY DEF ReleaseInv
<1> DEFINE c == [pc |-> "handshake", run |-> runs', decision |-> d, keys |-> m,
                 serial |-> list, key |-> 0, image |-> None]
           x == [kind |-> "HANDSHAKE_INITIATED", run |-> runs', decision |-> d]
           h == Handshake(runs', d)
<1>2. /\ runs' = runs + 1 /\ runs < MaxRuns /\ cmd' = c
      /\ audit' = audit \cup {x} /\ net' = net \cup {h}
      /\ list' = list /\ list >= HighestSerial
  BY DEF Initiate, MaterialsLoad
<1>3. x.kind \notin Deciding /\ h.type = "handshake"
  BY DEF Deciding, Handshake
<1>4. /\ runs' \in Runs /\ runs' \in 0..MaxRuns /\ runs \in Nat /\ runs' \in Nat
      /\ runs <= runs'
  BY <1>1, <1>2, BoundsAssumption DEF SourceInv, Runs
<1>5. c \in CmdRec /\ c.run = runs' /\ c.serial = list /\ c.pc = "handshake"
  BY <1>1, <1>4 DEF SourceInv, CmdRec
<1> HIDE DEF c, x, h
<1>6. Decided' = Decided /\ Releases' = Releases
  BY <1>2, <1>3, OtherEvent, Zenon
<1>7. AuditInv'
  BY <1>1, <1>4, <1>6, AuditKept
<1>8. \A f \in Decided : f.serial <= list
  <2>1. HighestSerial \in Nat /\ \A f \in Decided : f.serial <= HighestSerial
    BY <1>1, HighestIsHighest
  <2>2. list \in Nat /\ \A f \in Decided : f.serial \in Nat
    BY <1>1, ListsCounted DEF SourceInv, AuditInv
  <2>3. QED
    BY <1>2, <2>1, <2>2
<1>9. SourceInv'
  <2>1. list' \in 1..Len(Lists) /\ runs' \in 0..MaxRuns
        /\ cmd' \in CmdRec \cup {Idle}
    BY <1>1, <1>2, <1>4, <1>5 DEF SourceInv
  <2>2. \A f \in Decided' : f.serial <= cmd'.serial
    BY <1>2, <1>5, <1>6, <1>8, Zenon
  <2>3. cmd'.run = runs' /\ cmd'.pc = "handshake"
    BY <1>2, <1>5
  <2>4. QED
    BY <2>1, <2>2, <2>3 DEF SourceInv
<1>10. NetInv'
  BY <1>1, <1>2, <1>3, NetGrows
<1>11. QED
  BY <1>7, <1>9, <1>10 DEF ReleaseInv

\* A refusal, recorded or not.
LEMMA DenyKeeps ==
    ASSUME ReleaseInv, cmd.pc \in {"handshake", "verified"}, Deny(cmd),
           list' = list, runs' = runs, net' = net
    PROVE  ReleaseInv'
<1>1. SourceInv /\ AuditInv /\ NetInv
  BY DEF ReleaseInv
<1>2. SourceInv'
  BY <1>1, IdleKeeps DEF Deny
<1>3. AuditInv'
  <2>1. CASE audit' = audit \cup {Decision("KEY_RELEASE_DENIED", cmd)}
    BY <2>1, DecisionKeeps DEF Deciding
  <2>2. CASE audit' = audit
    <3>1. runs \in Nat
      BY <1>1, BoundsAssumption DEF SourceInv
    <3>2. runs <= runs
      BY <3>1
    <3>3. QED
      BY <1>1, <2>2, <3>1, <3>2, SameAudit, AuditKept
  <2>3. QED
    BY <2>1, <2>2 DEF Deny
<1>4. NetInv'
  BY <1>1, NetKept DEF Deny
<1>5. QED
  BY <1>2, <1>3, <1>4 DEF ReleaseInv

LEMMA VerifyKeeps ==
    ASSUME ReleaseInv, NEW a \in net, VerifyAttestation(a)
    PROVE  ReleaseInv'
<1>1. SourceInv /\ AuditInv /\ NetInv
  BY DEF ReleaseInv
<1> DEFINE x == [kind |-> "ATTESTATION_VERIFIED", run |-> cmd.run,
                 decision |-> cmd.decision]
<1>2. /\ cmd.pc = "handshake" /\ a.type = "answer" /\ a.image \in Known
      /\ cmd' = [cmd EXCEPT !.pc = "verified", !.key = a.key,
                            !.image = a.image]
      /\ audit' = audit \cup {x} /\ net' = net /\ list' = list /\ runs' = runs
  BY DEF VerifyAttestation, Answers, Verifies
<1>3. x.kind \notin Deciding
  BY DEF Deciding
<1> HIDE DEF x
<1>4. Decided' = Decided /\ Releases' = Releases
  BY <1>2, <1>3, OtherEvent, Zenon
<1>5. runs \in Nat /\ runs <= runs
  BY <1>1, BoundsAssumption DEF SourceInv
<1>6. AuditInv'
  BY <1>1, <1>2, <1>4, <1>5, AuditKept
<1>7. cmd # Idle
  BY <1>2, BusyIsNotIdle
<1>8. a.key \in Nat /\ a.image \in Images
  BY <1>1, <1>2 DEF NetInv
<1>9. /\ cmd' \in CmdRec /\ cmd'.run = cmd.run /\ cmd'.serial = cmd.serial
      /\ cmd'.pc = "verified" /\ cmd'.image = a.image
  BY <1>1, <1>2, <1>7, <1>8, CmdFields DEF CmdRec
<1>10. SourceInv'
  <2>1. \A f \in Decided' : f.serial <= cmd'.serial
    BY <1>1, <1>2, <1>4, <1>9 DEF SourceInv
  <2>2. QED
    BY <1>1, <1>2, <1>7, <1>9, <2>1 DEF SourceInv
<1>11. NetInv'
  BY <1>1, <1>2, NetKept
<1>12. QED
  BY <1>6, <1>10, <1>11 DEF ReleaseInv

\* The release is on the record before the token is in the network.
LEMMA ReleaseKeeps ==
    ASSUME ReleaseInv, Release
    PROVE  ReleaseInv'
<1>1. SourceInv /\ AuditInv /\ NetInv
  BY DEF ReleaseInv
<1> DEFINE x == Decision("KEY_RELEASE_AUTHORIZED", cmd)
           t == Token(cmd)
<1>2. /\ cmd.pc = "verified" /\ Authorized(cmd) /\ audit' = audit \cup {x}
      /\ net' = net \cup {t} /\ cmd' = [cmd EXCEPT !.pc = "sent"]
      /\ list' = list /\ runs' = runs
  BY DEF Release
<1>3. cmd # Idle
  BY <1>2, BusyIsNotIdle
<1>4. cmd.image \in Known
  BY <1>1, <1>2 DEF SourceInv
<1>5. AuditInv'
  BY <1>2, <1>4, DecisionKeeps DEF Deciding
<1>6. /\ cmd' \in CmdRec /\ cmd'.run = cmd.run /\ cmd'.pc = "sent"
  BY <1>1, <1>2, <1>3, CmdFields DEF CmdRec
<1>7. SourceInv'
  BY <1>1, <1>2, <1>3, <1>6 DEF SourceInv
<1>8. /\ x.kind = "KEY_RELEASE_AUTHORIZED" /\ x.keys = DOMAIN t.wrapped
      /\ x.image = t.image
  BY DEF Decision, Token
<1>9. /\ t.type = "token" /\ t.run \in Runs /\ t.wrapped \in KeyMaterial
  BY <1>1, <1>3, CmdFields DEF Token
<1> HIDE DEF x
<1>10. x \in Releases'
  BY <1>2, <1>8 DEF Releases
<1>11. PICK y : y = t
  OBVIOUS
<1>12. OnRecord(y)'
  BY <1>8, <1>10, <1>11 DEF OnRecord
<1>13. NetInv'
  <2> HIDE DEF t
  <2>1. QED
    BY <1>1, <1>2, <1>9, <1>11, <1>12, NetGrows
<1>14. QED
  BY <1>5, <1>7, <1>13 DEF ReleaseInv

\* The rest of Next leaves the record's side of the invariant alone, or adds
\* a message that is no token.
LEMMA OthersKeepRelease ==
    ASSUME ReleaseInv, DestInv, audit' = audit, runs' = runs,
           cmd' = cmd \/ cmd' = Idle,
           list' \in 1..Len(Lists),
           \/ net' = net
           \/ \E x :
                /\ net' = net \cup {x} /\ x.type # "token"
                /\ x.type = "answer" => x.key \in Nat /\ x.image \in Images
    PROVE  ReleaseInv'
<1>1. SourceInv /\ AuditInv /\ NetInv
  BY DEF ReleaseInv
<1>2. Decided' = Decided /\ Releases' = Releases
  BY SameAudit
<1>3. runs \in Nat /\ runs <= runs
  BY <1>1, BoundsAssumption DEF SourceInv
<1>4. AuditInv'
  BY <1>1, <1>2, <1>3, AuditKept
<1>5. SourceInv'
  <2>1. CASE cmd' = Idle
    BY <1>1, <2>1 DEF SourceInv, Idle
  <2>2. CASE cmd' = cmd
    BY <1>1, <1>2, <2>2 DEF SourceInv
  <2>3. QED
    BY <2>1, <2>2
<1>6. NetInv'
  BY <1>1, NetKept, NetGrows
<1>7. QED
  BY <1>4, <1>5, <1>6 DEF ReleaseInv

LEMMA ConfirmEvent ==
    ASSUME SourceInv, AuditInv, NEW d, NEW k, NEW want, Confirm(d, k, want)
    PROVE  \E rel \in Releases :
              LET r == entries[k].signed
                  x == [kind |-> "RESTORE_COMPLETED", run |-> rel.run,
                        key |-> k, receipt |-> r, want |-> want]
              IN  /\ k \in rel.keys /\ Agrees(r, rel) /\ Meets(r.gate, want)
                  /\ audit' = audit \cup {x}
<1>1. runs \in Nat
  BY BoundsAssumption DEF SourceInv
<1>2. LatestRelease(d) \in Releases
  BY <1>1, LatestIsRelease DEF Confirm
<1>3. QED
  BY <1>2, Zenon DEF Confirm

LEMMA ConfirmKeeps ==
    ASSUME ReleaseInv, NEW d, NEW k, NEW want, Confirm(d, k, want)
    PROVE  ReleaseInv'
<1>1. SourceInv /\ AuditInv /\ NetInv
  BY DEF ReleaseInv
<1>2. PICK x : audit' = audit \cup {x} /\ x.kind = "RESTORE_COMPLETED"
  <2>1. PICK rel \in Releases :
            audit' = audit \cup
                {[kind |-> "RESTORE_COMPLETED", run |-> rel.run, key |-> k,
                  receipt |-> entries[k].signed, want |-> want]}
    BY <1>1, ConfirmEvent
  <2>2. PICK x : x = [kind |-> "RESTORE_COMPLETED", run |-> rel.run,
                      key |-> k, receipt |-> entries[k].signed, want |-> want]
    OBVIOUS
  <2>3. x.kind = "RESTORE_COMPLETED"
    BY <2>2
  <2>4. audit' = audit \cup {x}
    BY <2>1, <2>2, Zenon
  <2>5. QED
    BY <2>3, <2>4, Zenon
<1>3. Decided' = Decided /\ Releases' = Releases
  BY <1>2, OtherEvent DEF Deciding
<1>4. /\ list' = list /\ runs' = runs /\ cmd' = cmd /\ net' = net
      /\ runs \in Nat /\ runs <= runs
  BY <1>1, BoundsAssumption DEF Confirm, SourceInv
<1>5. AuditInv'
  BY <1>1, <1>3, <1>4, AuditKept
<1>6. SourceInv'
  BY <1>1, <1>3, <1>4 DEF SourceInv
<1>7. NetInv'
  BY <1>1, <1>2, <1>4, NetKept
<1>8. QED
  BY <1>5, <1>6, <1>7 DEF ReleaseInv

LEMMA ReleaseStep ==
    ASSUME ReleaseInv, DestInv, Next
    PROVE  ReleaseInv'
<1>1. CASE \E d \in Decisions, m \in KeyMaterial : Initiate(d, m)
  BY <1>1, InitiateKeeps
<1>2. CASE \E a \in net : DenyAttestation(a)
  BY <1>2, DenyKeeps DEF DenyAttestation, Answers
<1>3. CASE \E a \in net : VerifyAttestation(a)
  BY <1>3, VerifyKeeps
<1>4. CASE DenyByPolicy
  BY <1>4, DenyKeeps DEF DenyByPolicy
<1>5. CASE Release
  BY <1>5, ReleaseKeeps
<1>6. CASE Dispatched \/ GiveUp
  BY <1>6, OthersKeepRelease DEF Dispatched, GiveUp, ReleaseInv, SourceInv
<1>7. CASE \E s \in 1..Len(Lists) : PlaceList(s)
  BY <1>7, OthersKeepRelease DEF PlaceList
<1>8. CASE \E m \in net : HandleHandshake(m)
  <2>1. PICK m \in net : HandleHandshake(m)
    BY <1>8
  <2>2. PICK x : x = Answer(m.run, handshakes',
                            Choose(SourceSuites, DestSuites), image)
    OBVIOUS
  <2>3. handshakes' \in Nat /\ image \in Images
    BY <2>1, BoundsAssumption DEF HandleHandshake, DestInv, ReceiverType
  <2>4. x.type = "answer" /\ x.key \in Nat /\ x.image \in Images
    BY <2>2, <2>3 DEF Answer
  <2>5. net' = net \cup {x} /\ list' = list /\ audit' = audit /\ runs' = runs
        /\ cmd' = cmd
    BY <2>1, <2>2 DEF HandleHandshake, source
  <2>6. QED
    BY <2>4, <2>5, OthersKeepRelease DEF ReleaseInv, SourceInv
<1>9. CASE \E m \in net : HandleToken(m)
  <2>1. PICK m \in net : HandleToken(m)
    BY <1>9
  <2>2. net' = net \/ net' = net \cup {Accepted(m.run)}
    BY <2>1 DEF HandleToken
  <2>3. Accepted(m.run).type = "accepted"
    BY DEF Accepted
  <2>4. list' = list /\ audit' = audit /\ runs' = runs /\ cmd' = cmd
    BY <2>1 DEF HandleToken, source
  <2>5. QED
    BY <2>2, <2>3, <2>4, OthersKeepRelease DEF ReleaseInv, SourceInv
<1>10. CASE /\ UNCHANGED <<source, net>>
  BY <1>10, OthersKeepRelease DEF source, ReleaseInv, SourceInv
<1>11. CASE (\E m \in net : TokenDoesNotOpen(m)) \/ (\E r \in Runs : Expire(r))
            \/ (\E k \in Keys : ReceiveBundle(k))
            \/ (\E i \in Images : Restart(i))
  BY <1>10, <1>11 DEF TokenDoesNotOpen, Expire, ReceiveBundle, Restart
<1>12. CASE RestorerNext
  BY <1>10, <1>12 DEF RestorerNext, StartRestore, OpenBundle, RestoreFails,
     SaveReceipt, MarkRestored, KeepSigned, EraseKey, RunGate
<1>13. CASE \E d \in Decisions, k \in Keys,
               w \in {None, "EQUIVALENT", "EXACT"} : Confirm(d, k, w)
  BY <1>13, ConfirmKeeps
<1>14. QED
  BY <1>1, <1>2, <1>3, <1>4, <1>5, <1>6, <1>7, <1>8, <1>9, <1>11, <1>12, <1>13
     DEF Next

-----------------------------------------------------------------------------
(* DestInv.                                                                 *)

LEMMA MaterialFields ==
    ASSUME NEW m \in KeyMaterial
    PROVE  DOMAIN m \subseteq Keys /\ \A k \in DOMAIN m : m[k] \in Materials
<1>1. PICK K \in SUBSET Keys : m \in [K -> Materials]
  BY DEF KeyMaterial
<1>2. QED
  BY <1>1

LEMMA RegisterTyped ==
    ASSUME ReceiverType, NEW m \in KeyMaterial, NEW ks \in SUBSET (DOMAIN m),
           Register(m, ks)
    PROVE  /\ delivered' \in [Keys -> {0} \cup Materials]
           /\ keystore' \in [Keys -> {0} \cup Materials]
           /\ \A k \in Keys : keystore'[k] # 0 =>
                  k \in DOMAIN m \/ keystore[k] # 0
<1> DEFINE new == {k \in ks : ~Delivers(k, m[k])}
<1>1. /\ keystore' = [k \in Keys |-> IF k \in new THEN m[k] ELSE keystore[k]]
      /\ delivered' = [k \in Keys |-> IF k \in new THEN m[k] ELSE delivered[k]]
  BY DEF Register
<1>2. \A k \in new : k \in DOMAIN m /\ m[k] \in Materials
  BY MaterialFields
<1> HIDE DEF new
<1>3. QED
  BY <1>1, <1>2 DEF ReceiverType

\* An entry set to another state is still one.
LEMMA SetStateTyped ==
    ASSUME RestorerType, NEW k \in Keys, entries[k].state # None,
           NEW v \in {"waiting", "restoring", "gating", "restored",
                      "gate_failed", "failed"},
           SetState(k, v)
    PROVE  /\ entries' \in [Keys -> Entry]
           /\ \A j \in Keys : entries[j].state # None =>
                    entries'[j].state # None
           /\ \A j \in Keys : entries'[j].state # None =>
                    entries'[j].run \in Runs
<1> DEFINE e == [entries[k] EXCEPT !.state = v]
<1>1. entries \in [Keys -> Entry] /\ entries[k] \in Entry
  BY DEF RestorerType
<1>2. e \in Entry /\ e.state = v /\ e.run = entries[k].run /\ v # None
  BY <1>1 DEF Entry, None
<1>3. entries' = [entries EXCEPT ![k] = e]
  BY <1>1 DEF SetState
<1> HIDE DEF e
<1>4. /\ entries' \in [Keys -> Entry]
      /\ \A j \in Keys : entries'[j] = IF j = k THEN e ELSE entries[j]
  BY <1>1, <1>2, <1>3
<1>5. QED
  BY <1>2, <1>4 DEF RestorerType

LEMMA WorkFields ==
    ASSUME RestorerType, work.step # None
    PROVE  /\ work \in WorkRec /\ work # NoWork /\ work.kid \in Keys
           /\ work.gate \in Verdicts /\ entries[work.kid].state # None
           /\ work.signed \in {NoReceipt} \cup Receipt
<1>1. work # NoWork
  BY DEF NoWork
<1>2. QED
  BY <1>1 DEF RestorerType, WorkRec

\* The steps of a restore keep the restorer's records in order.
LEMMA RestorerKeeps ==
    ASSUME DestInv, RestorerNext
    PROVE  RestorerType' /\ ReceiverType'
<1>1. ReceiverType /\ RestorerType
  BY DEF DestInv
<1>2. \A k \in Keys : entries[k] \in Entry
  BY <1>1 DEF RestorerType
<1>3. CASE \E k \in Keys : StartRestore(k)
  <2>1. PICK k \in Keys : StartRestore(k)
    BY <1>3
  <2>2. entries[k].state # None /\ SetState(k, "restoring")
    BY <2>1 DEF StartRestore, None
  <2>3. /\ entries' \in [Keys -> Entry]
        /\ \A j \in Keys : entries[j].state # None => entries'[j].state # None
        /\ \A j \in Keys : entries'[j].state # None =>
               entries'[j].run \in Runs
    BY <1>1, <2>2, SetStateTyped
  <2>4. work' \in WorkRec /\ work'.kid = k
    BY <2>1 DEF StartRestore, WorkRec, Verdicts
  <2>5. RestorerType'
    BY <1>1, <2>1, <2>2, <2>3, <2>4 DEF RestorerType, StartRestore
  <2>6. ReceiverType'
    BY <1>1, <2>1 DEF ReceiverType, StartRestore, receiver
  <2>7. QED
    BY <2>5, <2>6
<1>4. CASE OpenBundle
  <2>1. work.step # None
    BY <1>4 DEF OpenBundle, At, None
  <2>2. /\ work \in WorkRec /\ work # NoWork /\ work.kid \in Keys
        /\ entries[work.kid].state # None
    BY <1>1, <2>1, WorkFields
  <2>3. /\ entries' \in [Keys -> Entry]
        /\ \A j \in Keys : entries[j].state # None => entries'[j].state # None
        /\ \A j \in Keys : entries'[j].state # None =>
               entries'[j].run \in Runs
    <3>1. CASE Gated
      <4>1. SetState(work.kid, "gating")
        BY <1>4, <3>1 DEF OpenBundle
      <4>2. QED
        BY <1>1, <2>2, <4>1, SetStateTyped
    <3>2. CASE ~Gated
      BY <1>1, <1>4, <3>2 DEF OpenBundle, RestorerType
    <3>3. QED
      BY <3>1, <3>2
  <2>4. work' \in WorkRec /\ work'.kid = work.kid
    BY <1>4, <2>2 DEF OpenBundle, WorkRec
  <2>5. RestorerType'
    BY <1>1, <1>4, <2>2, <2>3, <2>4 DEF RestorerType, OpenBundle
  <2>6. ReceiverType'
    BY <1>1, <1>4 DEF ReceiverType, OpenBundle, receiver
  <2>7. QED
    BY <2>5, <2>6
<1>5. CASE RestoreFails
  <2>1. work.step # None
    BY <1>5 DEF RestoreFails, At, None
  <2>2. work.kid \in Keys /\ entries[work.kid].state # None
    BY <1>1, <2>1, WorkFields
  <2>3. /\ entries' \in [Keys -> Entry]
        /\ \A j \in Keys : entries'[j].state # None =>
               entries'[j].run \in Runs
    BY <1>1, <1>5, <2>2, SetStateTyped DEF RestoreFails
  <2>4. RestorerType'
    BY <1>1, <1>5, <2>3 DEF RestorerType, RestoreFails
  <2>5. ReceiverType'
    BY <1>1, <1>5 DEF ReceiverType, RestoreFails, receiver
  <2>6. QED
    BY <2>4, <2>5
<1>6. CASE SaveReceipt
  <2>1. work.step # None
    BY <1>6 DEF SaveReceipt, At, None
  <2>2. /\ work \in WorkRec /\ work # NoWork /\ work.kid \in Keys
        /\ work.gate \in Verdicts /\ entries[work.kid].state # None
    BY <1>1, <2>1, WorkFields
  <2>3. WorkReceipt \in Receipt
    BY <1>1, <2>2 DEF WorkReceipt, Receipt, RestorerType, ReceiverType
  <2>4. work' \in WorkRec /\ work'.kid = work.kid
    BY <1>6, <2>2, <2>3 DEF SaveReceipt, WorkRec
  <2>5. receipts' \in [Keys -> {NoReceipt} \cup Receipt]
    BY <1>1, <1>6, <2>3 DEF SaveReceipt, RestorerType
  <2>6. RestorerType'
    BY <1>1, <1>6, <2>2, <2>4, <2>5 DEF RestorerType, SaveReceipt
  <2>7. ReceiverType'
    BY <1>1, <1>6 DEF ReceiverType, SaveReceipt, receiver
  <2>8. QED
    BY <2>6, <2>7
<1>7. CASE MarkRestored
  <2>1. work.step # None
    BY <1>7 DEF MarkRestored, At, None
  <2>2. /\ work \in WorkRec /\ work # NoWork /\ work.kid \in Keys
        /\ entries[work.kid].state # None
    BY <1>1, <2>1, WorkFields
  <2>3. StateOf(work.gate) \in {"gate_failed", "restored"}
    BY DEF StateOf
  <2>4. /\ entries' \in [Keys -> Entry]
        /\ \A j \in Keys : entries[j].state # None => entries'[j].state # None
        /\ \A j \in Keys : entries'[j].state # None =>
               entries'[j].run \in Runs
    BY <1>1, <1>7, <2>2, <2>3, SetStateTyped DEF MarkRestored
  <2>5. work' \in WorkRec /\ work'.kid = work.kid
    BY <1>7, <2>2 DEF MarkRestored, WorkRec
  <2>6. RestorerType'
    BY <1>1, <1>7, <2>2, <2>4, <2>5 DEF RestorerType, MarkRestored
  <2>7. ReceiverType'
    BY <1>1, <1>7 DEF ReceiverType, MarkRestored, receiver
  <2>8. QED
    BY <2>6, <2>7
<1>8. CASE KeepSigned
  <2>1. work.step # None
    BY <1>8 DEF KeepSigned, At, None
  <2>2. /\ work \in WorkRec /\ work # NoWork /\ work.kid \in Keys
        /\ entries[work.kid].state # None
        /\ work.signed \in {NoReceipt} \cup Receipt
    BY <1>1, <2>1, WorkFields
  <2> DEFINE e == [entries[work.kid] EXCEPT !.signed = work.signed]
  <2>3. e \in Entry /\ e.state = entries[work.kid].state
        /\ e.run = entries[work.kid].run
    BY <1>2, <2>2 DEF Entry
  <2>4. entries' = [entries EXCEPT ![work.kid] = e]
    BY <1>1, <1>8, <2>2 DEF KeepSigned, RestorerType
  <2> HIDE DEF e
  <2>5. /\ entries' \in [Keys -> Entry]
        /\ \A j \in Keys :
              entries'[j] = IF j = work.kid THEN e ELSE entries[j]
    BY <1>1, <2>2, <2>3, <2>4 DEF RestorerType
  <2>6. \A j \in Keys : entries'[j].state = entries[j].state
                        /\ entries'[j].run = entries[j].run
    BY <2>3, <2>5
  <2>7. work' \in WorkRec /\ work'.kid = work.kid
    BY <1>8, <2>2 DEF KeepSigned, WorkRec
  <2>8. RestorerType'
    BY <1>1, <1>8, <2>2, <2>5, <2>6, <2>7 DEF RestorerType, KeepSigned
  <2>9. ReceiverType'
    BY <1>1, <1>8 DEF ReceiverType, KeepSigned, receiver
  <2>10. QED
    BY <2>8, <2>9
<1>9. CASE EraseKey
  BY <1>1, <1>9 DEF RestorerType, ReceiverType, EraseKey, receiver
<1>10. CASE \E v \in Verdicts : RunGate(v)
  <2>1. PICK v \in Verdicts : RunGate(v)
    BY <1>10
  <2>2. work.step # None
    BY <2>1 DEF RunGate, At, None
  <2>3. work \in WorkRec /\ work # NoWork
    BY <1>1, <2>2, WorkFields
  <2>4. work' \in WorkRec /\ work'.kid = work.kid
    BY <2>1, <2>3 DEF RunGate, WorkRec
  <2>5. RestorerType' /\ ReceiverType'
    BY <1>1, <2>1, <2>3, <2>4 DEF RestorerType, ReceiverType, RunGate, receiver
  <2>6. QED
    BY <2>5
<1>11. QED
  BY <1>3, <1>4, <1>5, <1>6, <1>7, <1>8, <1>9, <1>10 DEF RestorerNext

\* The token that opens is one of the network's, with its release on record.
LEMMA HandleTokenKeeps ==
    ASSUME NetInv, DestInv, NEW m \in net, HandleToken(m)
    PROVE  /\ DestInv'
           /\ OnRecord(m) /\ m.image = image /\ image' = image
           /\ \A k \in Keys : keystore'[k] # 0 =>
                  k \in DOMAIN m.wrapped \/ keystore[k] # 0
<1>1. ReceiverType /\ RestorerType
  BY DEF DestInv
<1>2. /\ m.type = "token" /\ m.image = image /\ image' = image
      /\ restarts' = restarts /\ handshakes' = handshakes /\ work' = work
      /\ receipts' = receipts /\ bundles' = bundles
      /\ pending' = [pending EXCEPT ![m.run] = 0]
  BY DEF HandleToken, Opens, Take
<1>3. m.run \in Runs /\ m.wrapped \in KeyMaterial /\ OnRecord(m)
  BY <1>2 DEF NetInv
<1>4. pending' \in [Runs -> 0..MaxHandshakes]
  BY <1>1, <1>2, <1>3, BoundsAssumption DEF ReceiverType
<1>5. PICK ks \in SUBSET (DOMAIN m.wrapped) : Register(m.wrapped, ks)
  BY DEF HandleToken
<1>6. /\ delivered' \in [Keys -> {0} \cup Materials]
      /\ keystore' \in [Keys -> {0} \cup Materials]
      /\ \A k \in Keys : keystore'[k] # 0 =>
             k \in DOMAIN m.wrapped \/ keystore[k] # 0
  BY <1>1, <1>3, <1>5, RegisterTyped
<1>7. ReceiverType'
  BY <1>1, <1>2, <1>4, <1>6 DEF ReceiverType
<1>8. RestorerType'
  <2>1. CASE entries' = entries
    BY <1>1, <1>2, <2>1 DEF RestorerType
  <2>2. CASE Delivered(DOMAIN m.wrapped, m.run)
    <3> DEFINE e == [state |-> "waiting", run |-> m.run, signed |-> NoReceipt]
    <3>1. e \in Entry /\ e.state # None /\ e.run \in Runs
      BY <1>3, BoundsAssumption DEF Entry, None, Runs
    <3>2. \A k \in Keys : entries'[k] = e \/ entries'[k] = entries[k]
      BY <2>2 DEF Delivered
    <3>3. entries' = [k \in Keys |-> entries'[k]]
      BY <2>2 DEF Delivered
    <3> HIDE DEF e
    <3>4. entries' \in [Keys -> Entry]
      <4>1. \A k \in Keys : entries'[k] \in Entry
        BY <1>1, <3>1, <3>2 DEF RestorerType
      <4>2. QED
        BY <3>3, <4>1
    <3>5. \A k \in Keys : entries'[k].state # None => entries'[k].run \in Runs
      BY <1>1, <3>1, <3>2 DEF RestorerType
    <3>6. \A k \in Keys : entries[k].state # None => entries'[k].state # None
      BY <3>1, <3>2
    <3>7. work # NoWork => work.kid \in Keys
      BY <1>1 DEF RestorerType, WorkRec
    <3>8. QED
      BY <1>1, <1>2, <3>4, <3>5, <3>6, <3>7 DEF RestorerType
  <2>3. QED
    BY <2>1, <2>2 DEF HandleToken
<1>9. QED
  BY <1>2, <1>3, <1>6, <1>7, <1>8 DEF DestInv

LEMMA RestartKeeps ==
    ASSUME DestInv, NEW i \in Images, Restart(i)
    PROVE  DestInv'
<1>1. ReceiverType /\ RestorerType
  BY DEF DestInv
<1>2. ReceiverType'
  BY <1>1, BoundsAssumption DEF Restart, ReceiverType
<1>3. ASSUME NEW k \in Keys
      PROVE  /\ Reinstated(k) \in Entry
             /\ Reinstated(k).state # None => Reinstated(k).run \in Runs
  <2>1. CASE receipts[k] = NoReceipt
    BY <2>1, BoundsAssumption DEF Reinstated, NoEntry, Entry
  <2>2. CASE receipts[k] # NoReceipt
    <3>1. receipts[k] \in Receipt
      BY <1>1, <2>2 DEF RestorerType
    <3>2. receipts[k].run \in Runs /\ receipts[k].run \in 0..MaxRuns
          /\ StateOf(receipts[k].gate) \in {"gate_failed", "restored"}
      BY <3>1, BoundsAssumption DEF Receipt, Runs, StateOf
    <3>3. Reinstated(k) =
            [state |-> StateOf(receipts[k].gate), run |-> receipts[k].run,
             signed |-> receipts[k]]
      BY <2>2 DEF Reinstated
    <3>4. QED
      BY <3>1, <3>2, <3>3 DEF Entry
  <2>3. QED
    BY <2>1, <2>2
<1>4. RestorerType'
  <2>1. entries' = [k \in Keys |-> Reinstated(k)] /\ work' = NoWork
        /\ receipts' = receipts /\ bundles' = bundles
    BY DEF Restart
  <2>2. \A k \in Keys : entries'[k] = Reinstated(k)
    BY <2>1
  <2>3. entries' \in [Keys -> Entry]
    BY <1>3, <2>1
  <2>4. QED
    BY <1>1, <1>3, <2>1, <2>2, <2>3 DEF RestorerType
<1>5. QED
  BY <1>2, <1>4 DEF DestInv

LEMMA DestStep ==
    ASSUME NetInv, DestInv, Next
    PROVE  DestInv'
<1>1. ReceiverType /\ RestorerType
  BY DEF DestInv
<1>2. CASE UNCHANGED <<image, restarts, receiver, keystore, restorer, bundles>>
  BY <1>1, <1>2 DEF DestInv, ReceiverType, RestorerType, receiver, restorer
<1>3. CASE \E d \in Decisions, m \in KeyMaterial : Initiate(d, m)
  BY <1>2, <1>3 DEF Initiate
<1>4. CASE (\E a \in net : DenyAttestation(a) \/ VerifyAttestation(a))
           \/ DenyByPolicy \/ Release \/ Dispatched \/ GiveUp
  BY <1>2, <1>4 DEF DenyAttestation, VerifyAttestation, DenyByPolicy, Release,
     Dispatched, GiveUp
<1>5. CASE \E s \in 1..Len(Lists) : PlaceList(s)
  BY <1>2, <1>5 DEF PlaceList
<1>6. CASE \E m \in net : HandleHandshake(m)
  <2>1. PICK m \in net : HandleHandshake(m)
    BY <1>6
  <2>2. handshakes' \in 0..MaxHandshakes
    BY <1>1, <2>1, BoundsAssumption DEF HandleHandshake, ReceiverType
  <2>3. pending' = [pending EXCEPT ![m.run] = handshakes']
    BY <2>1 DEF HandleHandshake
  <2>4. pending' \in [Runs -> 0..MaxHandshakes]
    BY <1>1, <2>2, <2>3 DEF ReceiverType
  <2>5. ReceiverType'
    BY <1>1, <2>1, <2>2, <2>4 DEF ReceiverType, HandleHandshake
  <2>6. RestorerType'
    BY <1>1, <2>1 DEF RestorerType, HandleHandshake, restorer
  <2>7. QED
    BY <2>5, <2>6 DEF DestInv
<1>7. CASE \E m \in net : HandleToken(m)
  BY <1>7, HandleTokenKeeps
<1>8. CASE (\E m \in net : TokenDoesNotOpen(m)) \/ (\E r \in Runs : Expire(r))
  <2>1. PICK r : pending' = [pending EXCEPT ![r] = 0]
    BY <1>8 DEF TokenDoesNotOpen, Expire, Take
  <2>2. pending' \in [Runs -> 0..MaxHandshakes]
    <3> DEFINE S == 0..MaxHandshakes
    <3>1. 0 \in S /\ pending \in [Runs -> S]
      BY <1>1, BoundsAssumption DEF ReceiverType
    <3> HIDE DEF S
    <3>2. pending' \in [Runs -> S]
      BY <2>1, <3>1
    <3>3. QED
      BY <3>2 DEF S
  <2>3. UNCHANGED <<image, restarts, handshakes, delivered, keystore, restorer,
                    bundles>>
    BY <1>8 DEF TokenDoesNotOpen, Expire
  <2>4. ReceiverType'
    BY <1>1, <2>2, <2>3 DEF ReceiverType
  <2>5. RestorerType'
    BY <1>1, <2>3 DEF RestorerType, restorer
  <2>6. QED
    BY <2>4, <2>5 DEF DestInv
<1>9. CASE \E k \in Keys : ReceiveBundle(k)
  BY <1>1, <1>9 DEF ReceiveBundle, DestInv, ReceiverType, RestorerType,
     receiver, restorer
<1>10. CASE RestorerNext
  BY <1>10, RestorerKeeps DEF DestInv
<1>11. CASE \E i \in Images : Restart(i)
  BY <1>11, RestartKeeps
<1>12. CASE \E d \in Decisions, k \in Keys,
               w \in {None, "EQUIVALENT", "EXACT"} : Confirm(d, k, w)
  BY <1>2, <1>12 DEF Confirm
<1>13. QED
  BY <1>3, <1>4, <1>5, <1>6, <1>7, <1>8, <1>9, <1>10, <1>11, <1>12 DEF Next

-----------------------------------------------------------------------------
(* A key that is held, and a restore that is confirmed.                     *)

LEMMA AuditGrows ==
    ASSUME Next
    PROVE  audit \subseteq audit'
<1>1. CASE \E d \in Decisions, m \in KeyMaterial : Initiate(d, m)
  BY <1>1 DEF Initiate
<1>2. CASE (\E a \in net : DenyAttestation(a) \/ VerifyAttestation(a))
           \/ DenyByPolicy \/ Release \/ Dispatched \/ GiveUp
  BY <1>2 DEF DenyAttestation, VerifyAttestation, DenyByPolicy, Release,
     Dispatched, GiveUp, Deny
<1>3. CASE (\E s \in 1..Len(Lists) : PlaceList(s))
           \/ (\E r \in Runs : Expire(r)) \/ (\E k \in Keys : ReceiveBundle(k))
           \/ (\E i \in Images : Restart(i))
  BY <1>3 DEF PlaceList, Expire, ReceiveBundle, Restart, source
<1>4. CASE \E m \in net : HandleHandshake(m) \/ HandleToken(m)
                           \/ TokenDoesNotOpen(m)
  BY <1>4 DEF HandleHandshake, HandleToken, TokenDoesNotOpen, source
<1>5. CASE RestorerNext
  BY <1>5 DEF RestorerNext, StartRestore, OpenBundle, RestoreFails,
     SaveReceipt, MarkRestored, KeepSigned, EraseKey, RunGate, source
<1>6. CASE \E d \in Decisions, k \in Keys,
              w \in {None, "EQUIVALENT", "EXACT"} : Confirm(d, k, w)
  BY <1>6 DEF Confirm
<1>7. QED
  BY <1>1, <1>2, <1>3, <1>4, <1>5, <1>6 DEF Next

LEMMA KeyStep ==
    ASSUME ReleaseInv, DestInv, KeyInv, Next
    PROVE  KeyInv'
<1>1. Releases \subseteq Releases'
  BY AuditGrows, ReleasesStay
<1>2. CASE /\ image' = image
           /\ \A k \in Keys : keystore'[k] # 0 => keystore[k] # 0
  BY <1>1, <1>2 DEF KeyInv
<1>3. CASE keystore' = keystore /\ image' = image
  BY <1>2, <1>3
<1>4. CASE \E d \in Decisions, m \in KeyMaterial : Initiate(d, m)
  BY <1>3, <1>4 DEF Initiate
<1>5. CASE (\E a \in net : DenyAttestation(a) \/ VerifyAttestation(a))
           \/ DenyByPolicy \/ Release \/ Dispatched \/ GiveUp
  BY <1>3, <1>5 DEF DenyAttestation, VerifyAttestation, DenyByPolicy, Release,
     Dispatched, GiveUp
<1>6. CASE (\E s \in 1..Len(Lists) : PlaceList(s))
           \/ (\E r \in Runs : Expire(r)) \/ (\E k \in Keys : ReceiveBundle(k))
  BY <1>3, <1>6 DEF PlaceList, Expire, ReceiveBundle
<1>7. CASE \E m \in net : HandleHandshake(m) \/ TokenDoesNotOpen(m)
  BY <1>3, <1>7 DEF HandleHandshake, TokenDoesNotOpen
<1>8. CASE \E m \in net : HandleToken(m)
  <2>1. PICK m \in net : HandleToken(m)
    BY <1>8
  <2>2. /\ OnRecord(m) /\ m.image = image /\ image' = image
        /\ \A k \in Keys : keystore'[k] # 0 =>
               k \in DOMAIN m.wrapped \/ keystore[k] # 0
    BY <2>1, HandleTokenKeeps DEF ReleaseInv
  <2>3. PICK e \in Releases : e.keys = DOMAIN m.wrapped /\ e.image = image
    BY <2>2 DEF OnRecord
  <2>4. QED
    BY <1>1, <2>2, <2>3 DEF KeyInv
<1>9. CASE EraseKey
  <2>1. \A k \in Keys : keystore'[k] # 0 => keystore[k] # 0
    BY <1>9 DEF EraseKey, DestInv, ReceiverType
  <2>2. QED
    BY <1>2, <1>9, <2>1 DEF EraseKey
<1>10. CASE RestorerNext /\ ~EraseKey
  BY <1>3, <1>10 DEF RestorerNext, StartRestore, OpenBundle, RestoreFails,
     SaveReceipt, MarkRestored, KeepSigned, RunGate
<1>11. CASE \E i \in Images : Restart(i)
  <2>1. \A k \in Keys : keystore'[k] = 0
    BY <1>11 DEF Restart
  <2>2. QED
    BY <2>1 DEF KeyInv
<1>12. CASE \E d \in Decisions, k \in Keys,
               w \in {None, "EQUIVALENT", "EXACT"} : Confirm(d, k, w)
  BY <1>3, <1>12 DEF Confirm
<1>13. QED
  BY <1>4, <1>5, <1>6, <1>7, <1>8, <1>9, <1>10, <1>11, <1>12 DEF Next

\* What ConfirmedIsTheRelease says of one event.
OfARelease(c) ==
    /\ c.receipt.run = c.run
    /\ \E e \in Releases : /\ e.run = c.run /\ c.key \in e.keys
                           /\ e.image = c.receipt.image
    /\ c.want # None => c.receipt.gate \in {c.want, "EXACT"}

LEMMA ConfirmedKept ==
    ASSUME ConfirmedIsTheRelease, audit \subseteq audit',
           \A c \in audit' \ audit :
               c.kind = "RESTORE_COMPLETED" => OfARelease(c)'
    PROVE  ConfirmedIsTheRelease'
<1>1. Releases \subseteq Releases'
  BY ReleasesStay
<1>2. ASSUME NEW c \in audit', c.kind = "RESTORE_COMPLETED"
      PROVE  OfARelease(c)'
  <2>1. CASE c \in audit
    <3>1. OfARelease(c)
      BY <1>2, <2>1 DEF ConfirmedIsTheRelease, OfARelease
    <3>2. QED
      BY <1>1, <3>1 DEF OfARelease
  <2>2. CASE c \notin audit
    BY <1>2, <2>2
  <2>3. QED
    BY <2>1, <2>2
<1>3. QED
  BY <1>2 DEF ConfirmedIsTheRelease, OfARelease

LEMMA ConfirmStep ==
    ASSUME ReleaseInv, ConfirmedIsTheRelease, Next
    PROVE  ConfirmedIsTheRelease'
<1>1. audit \subseteq audit'
  BY AuditGrows
<1>2. CASE audit' = audit
  BY <1>1, <1>2, ConfirmedKept
<1>3. CASE \E x : audit' = audit \cup {x} /\ x.kind # "RESTORE_COMPLETED"
  BY <1>1, <1>3, ConfirmedKept
<1>4. CASE \E d \in Decisions, m \in KeyMaterial : Initiate(d, m)
  <2>1. PICK d \in Decisions, m \in KeyMaterial : Initiate(d, m)
    BY <1>4
  <2>2. PICK x : x = [kind |-> "HANDSHAKE_INITIATED", run |-> runs',
                      decision |-> d]
    OBVIOUS
  <2>3. audit' = audit \cup {x} /\ x.kind # "RESTORE_COMPLETED"
    BY <2>1, <2>2 DEF Initiate
  <2>4. QED
    BY <1>3, <2>3
<1>5. CASE (\E a \in net : DenyAttestation(a)) \/ DenyByPolicy
  <2>1. PICK x : x = Decision("KEY_RELEASE_DENIED", cmd)
    OBVIOUS
  <2>2. x.kind # "RESTORE_COMPLETED"
    BY <2>1 DEF Decision
  <2>3. audit' = audit \/ audit' = audit \cup {x}
    BY <1>5, <2>1 DEF DenyAttestation, DenyByPolicy, Deny
  <2>4. QED
    BY <1>2, <1>3, <2>2, <2>3
<1>6. CASE \E a \in net : VerifyAttestation(a)
  <2>1. PICK x : x = [kind |-> "ATTESTATION_VERIFIED", run |-> cmd.run,
                      decision |-> cmd.decision]
    OBVIOUS
  <2>2. audit' = audit \cup {x} /\ x.kind # "RESTORE_COMPLETED"
    BY <1>6, <2>1 DEF VerifyAttestation
  <2>3. QED
    BY <1>3, <2>2
<1>7. CASE Release
  <2>1. PICK x : x = Decision("KEY_RELEASE_AUTHORIZED", cmd)
    OBVIOUS
  <2>2. x.kind # "RESTORE_COMPLETED"
    BY <2>1 DEF Decision
  <2>3. audit' = audit \cup {x}
    BY <1>7, <2>1 DEF Release
  <2>4. QED
    BY <1>3, <2>2, <2>3
<1>8. CASE Dispatched \/ GiveUp \/ (\E s \in 1..Len(Lists) : PlaceList(s))
           \/ (\E r \in Runs : Expire(r)) \/ (\E k \in Keys : ReceiveBundle(k))
           \/ (\E i \in Images : Restart(i))
           \/ (\E m \in net : HandleHandshake(m) \/ HandleToken(m)
                              \/ TokenDoesNotOpen(m))
  BY <1>2, <1>8 DEF Dispatched, GiveUp, PlaceList, Expire, ReceiveBundle,
     Restart, HandleHandshake, HandleToken, TokenDoesNotOpen, source
<1>9. CASE RestorerNext
  BY <1>2, <1>9 DEF RestorerNext, StartRestore, OpenBundle, RestoreFails,
     SaveReceipt, MarkRestored, KeepSigned, EraseKey, RunGate, source
<1>10. CASE \E d \in Decisions, k \in Keys,
               w \in {None, "EQUIVALENT", "EXACT"} : Confirm(d, k, w)
  <2>1. PICK d \in Decisions, k \in Keys,
             w \in {None, "EQUIVALENT", "EXACT"} : Confirm(d, k, w)
    BY <1>10
  <2>2. PICK rel \in Releases :
            /\ k \in rel.keys /\ Agrees(entries[k].signed, rel)
            /\ Meets(entries[k].signed.gate, w)
            /\ audit' = audit \cup
                  {[kind |-> "RESTORE_COMPLETED", run |-> rel.run, key |-> k,
                    receipt |-> entries[k].signed, want |-> w]}
    BY <2>1, ConfirmEvent DEF ReleaseInv
  <2>3. PICK x : x = [kind |-> "RESTORE_COMPLETED", run |-> rel.run, key |-> k,
                      receipt |-> entries[k].signed, want |-> w]
    OBVIOUS
  <2>4. /\ x.run = rel.run /\ x.key = k /\ x.receipt = entries[k].signed
        /\ x.want = w
    BY <2>3
  <2>5. /\ x.receipt.run = x.run /\ x.receipt.image = rel.image
        /\ x.want # None => x.receipt.gate \in {x.want, "EXACT"}
    BY <2>2, <2>4 DEF Agrees, Meets
  <2>6. rel \in Releases'
    BY <1>1, ReleasesStay
  <2>7. OfARelease(x)'
    BY <2>2, <2>4, <2>5, <2>6 DEF OfARelease
  <2>8. audit' = audit \cup {x}
    BY <2>2, <2>3, Zenon
  <2>9. QED
    BY <1>1, <2>7, <2>8, ConfirmedKept
<1>11. QED
  BY <1>4, <1>5, <1>6, <1>7, <1>8, <1>9, <1>10 DEF Next

-----------------------------------------------------------------------------
(* The theorems.                                                            *)

KeyReleaseInv == ReleaseInv /\ DestInv /\ KeyInv /\ ConfirmedIsTheRelease

LEMMA KeyReleaseInit == Init => KeyReleaseInv
<1> SUFFICES ASSUME Init PROVE KeyReleaseInv
  OBVIOUS
<1>1. Decided = {} /\ Releases = {} /\ net = {} /\ audit = {}
  BY DEF Init, Decided, Releases
<1>2. 1 \in 1..Len(Lists)
  BY ListsAssumption
<1>3. ReleaseInv
  BY <1>1, <1>2, BoundsAssumption
     DEF Init, ReleaseInv, SourceInv, AuditInv, NetInv, Idle
<1>4. ReceiverType
  BY BoundsAssumption DEF Init, ReceiverType
<1>5. RestorerType
  <2>1. NoEntry \in Entry /\ NoEntry.state = None
    BY BoundsAssumption DEF NoEntry, Entry
  <2>2. QED
    BY <2>1 DEF Init, RestorerType
<1>6. KeyInv
  BY DEF Init, KeyInv
<1>7. ConfirmedIsTheRelease
  BY <1>1 DEF ConfirmedIsTheRelease
<1>8. QED
  BY <1>3, <1>4, <1>5, <1>6, <1>7 DEF KeyReleaseInv, DestInv

LEMMA KeyReleaseStep == KeyReleaseInv /\ [Next]_vars => KeyReleaseInv'
<1> SUFFICES ASSUME KeyReleaseInv, [Next]_vars PROVE KeyReleaseInv'
  OBVIOUS
<1>1. CASE Next
  <2>1. ReleaseInv'
    BY <1>1, ReleaseStep DEF KeyReleaseInv
  <2>2. DestInv'
    BY <1>1, DestStep DEF KeyReleaseInv, ReleaseInv
  <2>3. KeyInv'
    BY <1>1, KeyStep DEF KeyReleaseInv
  <2>4. ConfirmedIsTheRelease'
    BY <1>1, ConfirmStep DEF KeyReleaseInv
  <2>5. QED
    BY <2>1, <2>2, <2>3, <2>4 DEF KeyReleaseInv
<1>2. CASE UNCHANGED vars
  <2>1. ReleaseInv'
    BY <1>2, OthersKeepRelease
       DEF vars, source, KeyReleaseInv, ReleaseInv, SourceInv
  <2>2. DestInv'
    BY <1>2 DEF vars, receiver, restorer, KeyReleaseInv, DestInv,
       ReceiverType, RestorerType
  <2>3. KeyInv'
    BY <1>2, SameAudit DEF vars, source, KeyReleaseInv, KeyInv
  <2>4. ConfirmedIsTheRelease'
    BY <1>2, ConfirmedKept DEF vars, source, KeyReleaseInv
  <2>5. QED
    BY <2>1, <2>2, <2>3, <2>4 DEF KeyReleaseInv
<1>3. QED
  BY <1>1, <1>2

LEMMA KeyReleaseInvariant == Spec => []KeyReleaseInv
<1>1. QED
  BY KeyReleaseInit, KeyReleaseStep, PTL DEF Spec

\* The commands, the receiver and the restorer keep to their types.
THEOREM ReleaseTypes == Spec => []TypeOK
<1>1. KeyReleaseInv => TypeOK
  <2> SUFFICES ASSUME KeyReleaseInv PROVE TypeOK
    OBVIOUS
  <2>1. SourceInv /\ ReceiverType /\ RestorerType
    BY DEF KeyReleaseInv, ReleaseInv, DestInv
  <2>2. cmd.pc \in {"idle", "handshake", "verified", "sent"}
    BY <2>1 DEF SourceInv, CmdRec, Idle
  <2>3. work.step \in {None, "open", "gate", "sign", "mark", "keep", "erase"}
    BY <2>1 DEF RestorerType, WorkRec, NoWork
  <2>4. QED
    BY <2>1, <2>2, <2>3
       DEF TypeOK, SourceInv, ReceiverType, RestorerType, Entry
<1>2. QED
  BY <1>1, KeyReleaseInvariant, PTL

\* A key a destination holds was released on the record to the image it runs,
\* under a stop list no older than that of any decision before, whatever is
\* lost, late or received twice and whichever list file is put back
\* (CoordinateRestore, revocation.CheckNotRolledBack, Receiver.register).
THEOREM KeysAreReleased == Spec => []KeyOnlyOnRecord
<1>1. KeyReleaseInv => KeyOnlyOnRecord
  <2> SUFFICES ASSUME KeyReleaseInv, NEW k \in Keys, keystore[k] # 0
               PROVE  \E e \in Releases :
                        /\ k \in e.keys /\ e.image = image
                        /\ image \in Known \cap Allowed
                        /\ image \notin Lists[e.serial]
                        /\ \A f \in Decided :
                              f.run < e.run => f.serial <= e.serial
    BY DEF KeyOnlyOnRecord
  <2>1. PICK e \in Releases : k \in e.keys /\ e.image = image
    BY DEF KeyReleaseInv, KeyInv
  <2>2. e \in Decided
    BY DEF Releases, Decided
  <2>3. QED
    BY <2>1, <2>2 DEF KeyReleaseInv, ReleaseInv, AuditInv
<1>2. QED
  BY <1>1, KeyReleaseInvariant, PTL

\* A restore on the record is that of a recorded release: its TEE, its token,
\* and the gate verdict asked for (ConfirmRestore).
THEOREM ConfirmationsAreSound == Spec => []ConfirmedIsTheRelease
<1>1. KeyReleaseInv => ConfirmedIsTheRelease
  BY DEF KeyReleaseInv
<1>2. QED
  BY <1>1, KeyReleaseInvariant, PTL

=============================================================================
