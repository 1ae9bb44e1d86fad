-------------------------- MODULE BootstrapProofs --------------------------
(***************************************************************************)
(* Proofs about Bootstrap, for any number of components: what a receiver   *)
(* that accepts a reconstitution has, and that no disclosure leaves the    *)
(* vault or is taken by the receiver without its event.                    *)
(*                                                                         *)
(* Four parts of the state carry the argument, each by itself: the vault's *)
(* log is the sequence of the messages emitted; what the reassembler has   *)
(* admitted is what the descriptor's map says; a verdict of pass means a   *)
(* signed manifest; and the orchestrator is in a state past ingress, past  *)
(* reassembly or past validation only with what that phase established.    *)
(* The receiver's chain has the events of what it took in their order      *)
(* because in ingress they are as many as the records.                     *)
(*                                                                         *)
(* The second half proves KeyStore, the key files of the hosts that take   *)
(* part; the two components share no variable.                             *)
(***************************************************************************)
EXTENDS Bootstrap, KeyStore, FiniteSetTheorems, TLAPS

-----------------------------------------------------------------------------
(* What the callers handed in, which no step changes.                       *)
GivenInv ==
    /\ given.sealed \in [Parts -> 1..N + 1] /\ given.map \in [Parts -> Parts]

(* The vault: its log has the messages emitted, in their order.             *)
Nexts == 1..N + 1
Issuers == [next : Nexts, finalized : BOOLEAN, session : BOOLEAN, done : BOOLEAN]

IssuerTypes ==
    /\ issuer \in Issuers
    /\ vlog \in Seq(Nat)

IssuerInv ==
    /\ IssuerTypes
    /\ \A i \in DOMAIN vlog : vlog[i] = i
    /\ ~issuer.finalized => ~issuer.done /\ Len(vlog) = issuer.next - 1
    /\ issuer.done => Len(vlog) = N

(* The reassembler: what is admitted is what the map commits to.            *)
Maps == UNION {[S -> Parts] : S \in SUBSET Parts}

ReaTypes ==
    rea \in [admitted : Maps, finalized : BOOLEAN, final : {None, "ok", "failed"},
             result : SUBSET (Parts \X Parts)]

ReaInv ==
    /\ ReaTypes
    /\ \A i \in DOMAIN rea.admitted : rea.admitted[i] = given.map[i]
    /\ rea.final = "ok" => rea.finalized /\ rea.result = {<<p, p>> : p \in Parts}

(* The validator: nothing passes without a signed manifest.                 *)
Verdicts == {"pass", "fail", "conditional_fail"}
DimSets == [operational : {"pass", "fail"}]
             \cup [operational : {"pass", "fail"}, behavioral : {"pass", "fail"}]

VrsInv ==
    /\ vrs \in Seq([verdict : Verdicts, dims : DimSets])
    /\ \A v \in DOMAIN vrs : vrs[v].verdict = "pass" => given.bm.signed

(* The orchestrator: what its state says lies behind it.                    *)
States == {"unstarted", "ingress", "reassemble", "validate", "ready", "reconstituted",
           "rejected"}
Reasons == {None, "reconstructed_ok", "reassembly_failed", "validation_failed"}
Messages == [id : Nat, comp : Nat, seq : Nat, body : Nat, own : BOOLEAN]
Rulings == [accepted : BOOLEAN, reason : Reasons, vr : Nat]

OrchTypes ==
    orch \in [state : States, received : Seq(Messages), reason : Reasons, vr : Nat,
              decision : {None, "signed"}, ruling : {None} \cup Rulings, failed : Nat]

OrchInv ==
    /\ OrchTypes
    /\ orch.state = "unstarted" => orch.received = <<>>
    /\ orch.state # "unstarted" => issuer.done /\ given.bm.ids = [i \in Parts |-> i]
    /\ orch.state = "ingress" => Len(orch.received) < N
    /\ Len(orch.received) <= N
    /\ \A i \in DOMAIN orch.received : orch.received[i].id = i
    /\ orch.state \in {"validate", "ready", "reconstituted"} => rea.final = "ok"
    /\ orch.state \in {"ready", "reconstituted"} => given.bm.signed

(* The receiver's chain.                                                    *)
Events == [kind : {"received"}, id : Nat] \cup [kind : {"started"}]
            \cup [kind : {"completed"}, vr : Nat, verdict : Verdicts]
            \cup [kind : {"decided"}, ruling : Rulings]

(* The event of the i-th record is the i-th event of its kind.              *)
Placed(i) ==
    \E p \in ReceivedAt : /\ rlog[p].id = orch.received[i].id
                          /\ Cardinality({q \in ReceivedAt : q <= p}) = i

RecordInv ==
    /\ rlog \in Seq(Events)
    /\ \A i \in DOMAIN orch.received : Placed(i)
    /\ orch.state \in {"unstarted", "ingress"} =>
          Cardinality(ReceivedAt) = Len(orch.received)

BootstrapInv == GivenInv /\ IssuerInv /\ ReaInv /\ VrsInv /\ OrchInv /\ RecordInv

-----------------------------------------------------------------------------
LEMMA NIsNat == N \in Nat /\ N >= 1 /\ MaxTries \in Nat
BY BootstrapAssumption

LEMMA InvIsEnough == BootstrapInv => AcceptedIsTheGenome /\ DisclosedOnRecord
<1> SUFFICES ASSUME BootstrapInv PROVE AcceptedIsTheGenome /\ DisclosedOnRecord
  OBVIOUS
<1>1. issuer.done => vlog = [i \in Parts |-> i]
  <2> SUFFICES ASSUME issuer.done PROVE vlog = [i \in Parts |-> i]
    OBVIOUS
  <2>1. Len(vlog) = N /\ vlog \in Seq(Nat) /\ \A i \in DOMAIN vlog : vlog[i] = i
    BY DEF BootstrapInv, IssuerInv, IssuerTypes
  <2>2. DOMAIN vlog = Parts /\ vlog = [i \in DOMAIN vlog |-> vlog[i]]
    BY <2>1 DEF Parts
  <2> QED BY <2>1, <2>2
<1>2. AcceptedIsTheGenome
  <2> SUFFICES ASSUME Accepted
               PROVE  /\ rea.result = {<<p, p>> : p \in Parts}
                      /\ given.bm.signed
                      /\ \A i \in DOMAIN orch.received :
                            \E k \in DOMAIN vlog : vlog[k] = orch.received[i].id
    BY DEF AcceptedIsTheGenome
  <2>1. rea.final = "ok" /\ given.bm.signed /\ issuer.done
    BY DEF BootstrapInv, OrchInv, Accepted
  <2>2. rea.result = {<<p, p>> : p \in Parts}
    BY <2>1 DEF BootstrapInv, ReaInv
  <2>3. \A i \in DOMAIN orch.received : i \in Parts /\ orch.received[i].id = i
    <3>1. /\ orch.received \in Seq(Messages) /\ Len(orch.received) <= N
          /\ \A i \in DOMAIN orch.received : orch.received[i].id = i
      BY DEF BootstrapInv, OrchInv, OrchTypes
    <3> QED BY <3>1, NIsNat DEF Parts
  <2>4. \A i \in Parts : i \in DOMAIN vlog /\ vlog[i] = i
    BY <1>1, <2>1
  <2> QED BY <2>1, <2>2, <2>3, <2>4
<1>3. DisclosedOnRecord
  BY <1>1 DEF DisclosedOnRecord, BootstrapInv, RecordInv, Placed
<1> QED BY <1>2, <1>3

LEMMA InitBootstrap == Init => BootstrapInv
<1> SUFFICES ASSUME Init PROVE BootstrapInv
  OBVIOUS
<1> USE NIsNat
<1>1. GivenInv
  BY DEF Init, GivenInv
<1>2. IssuerInv
  BY DEF Init, IssuerInv, IssuerTypes, Issuers, Nexts
<1>3. ReaInv
  <2>1. <<>> \in [{} -> Parts]
    OBVIOUS
  <2>2. <<>> \in Maps
    BY <2>1 DEF Maps
  <2> QED BY <2>2 DEF Init, ReaInv, ReaTypes, None
<1>4. VrsInv
  BY DEF Init, VrsInv
<1>5. OrchInv
  BY DEF Init, OrchInv, OrchTypes, States, Reasons, None
<1>6. RecordInv
  <2>1. rlog = <<>> /\ orch.received = <<>>
    BY DEF Init
  <2>2. ReceivedAt = {}
    BY <2>1 DEF ReceivedAt
  <2> QED BY <2>1, <2>2, FS_EmptySet DEF RecordInv
<1> QED BY <1>1, <1>2, <1>3, <1>4, <1>5, <1>6 DEF BootstrapInv

-----------------------------------------------------------------------------
(* The receiver's chain grows.                                              *)

Extends ==
    /\ rlog' \in Seq(Events) /\ Len(rlog) <= Len(rlog')
    /\ \A p \in 1..Len(rlog) : rlog'[p] = rlog[p]

LEMMA PlacedStays ==
    ASSUME rlog \in Seq(Events), Extends, NEW i, Placed(i),
           orch'.received[i].id = orch.received[i].id
    PROVE  Placed(i)'
<1> PICK p \in ReceivedAt : /\ rlog[p].id = orch.received[i].id
                            /\ Cardinality({q \in ReceivedAt : q <= p}) = i
  BY DEF Placed
<1>1. p \in 1..Len(rlog) /\ rlog'[p] = rlog[p] /\ p \in ReceivedAt'
  BY DEF ReceivedAt, Extends
<1>2. {q \in ReceivedAt' : q <= p} = {q \in ReceivedAt : q <= p}
  BY <1>1 DEF ReceivedAt, Extends
<1> QED BY <1>1, <1>2 DEF Placed

(* The chain grows by events of another kind, or by none.                   *)
LEMMA RecordKeeps ==
    ASSUME RecordInv, Extends, orch'.received = orch.received,
           orch'.state \in {"unstarted", "ingress"} => orch.state \in {"unstarted", "ingress"},
           \A p \in DOMAIN rlog' : p > Len(rlog) => rlog'[p].kind # "received"
    PROVE  RecordInv'
<1>1. rlog \in Seq(Events)
  BY DEF RecordInv
<1>2. \A i \in DOMAIN orch'.received : Placed(i)'
  BY <1>1, PlacedStays DEF RecordInv
<1>3. ReceivedAt' = ReceivedAt
  BY <1>1 DEF ReceivedAt, Extends
<1> QED BY <1>2, <1>3 DEF RecordInv, Extends

LEMMA RecordStays ==
    ASSUME RecordInv, rlog' = rlog, orch'.received = orch.received,
           orch'.state \in {"unstarted", "ingress"} => orch.state \in {"unstarted", "ingress"}
    PROVE  RecordInv'
<1>1. Extends /\ \A p \in DOMAIN rlog' : ~(p > Len(rlog))
  BY DEF RecordInv, Extends
<1> QED BY <1>1, RecordKeeps

(* One more event.                                                          *)
LEMMA AppendExtends ==
    ASSUME rlog \in Seq(Events), NEW e \in Events, rlog' = Append(rlog, e)
    PROVE  /\ Extends /\ Len(rlog') = Len(rlog) + 1 /\ rlog'[Len(rlog) + 1] = e
           /\ DOMAIN rlog' = 1..(Len(rlog) + 1) /\ DOMAIN rlog = 1..Len(rlog)
BY DEF Extends

LEMMA ReceivedIsFinite ==
    ASSUME rlog \in Seq(Events)
    PROVE  IsFiniteSet(ReceivedAt) /\ Cardinality(ReceivedAt) \in Nat
<1>1. ReceivedAt \subseteq 1..Len(rlog) /\ Len(rlog) \in Nat
  BY DEF ReceivedAt
<1>2. IsFiniteSet(1..Len(rlog))
  BY <1>1, FS_Interval
<1>3. IsFiniteSet(ReceivedAt)
  BY <1>1, <1>2, FS_Subset
<1> QED BY <1>3, FS_CardinalityType

(* The event of a received disclosure comes next, and its record with it.   *)
LEMMA RecordTakes ==
    ASSUME RecordInv, orch.received \in Seq(Messages), NEW m \in Messages,
           orch.state = "ingress", rlog' = Append(rlog, Received(m)),
           orch'.received = Append(orch.received, m)
    PROVE  RecordInv'
<1> PICK n : n = Len(orch.received) + 1
  OBVIOUS
<1> PICK l : l = Len(rlog) + 1
  OBVIOUS
<1>1. rlog \in Seq(Events) /\ Received(m) \in Events
  BY DEF RecordInv, Received, Events, Messages
<1>2. /\ Received(m).kind = "received" /\ Received(m).id = m.id
  BY DEF Received
<1>3. /\ Extends /\ Len(rlog') = l /\ rlog'[l] = Received(m)
      /\ DOMAIN rlog' = 1..l /\ DOMAIN rlog = 1..Len(rlog) /\ Len(rlog) \in Nat
  BY <1>1, AppendExtends
<1>4. /\ DOMAIN orch'.received = 1..n /\ orch'.received[n] = m /\ Len(orch'.received) = n
      /\ DOMAIN orch.received = 1..Len(orch.received) /\ Len(orch.received) \in Nat
      /\ \A i \in 1..Len(orch.received) : orch'.received[i] = orch.received[i]
  OBVIOUS
<1>5. ReceivedAt' = ReceivedAt \cup {l} /\ l \notin ReceivedAt
  BY <1>1, <1>2, <1>3 DEF ReceivedAt, Extends
<1>6. Cardinality(ReceivedAt') = n
  <2>1. IsFiniteSet(ReceivedAt) /\ Cardinality(ReceivedAt) = Len(orch.received)
    BY <1>1, ReceivedIsFinite DEF RecordInv
  <2> QED BY <1>5, <2>1, FS_AddElement
<1>7. Placed(n)'
  <2>1. {q \in ReceivedAt' : q <= l} = ReceivedAt'
    BY <1>3, <1>5 DEF ReceivedAt
  <2>2. rlog'[l].id = orch'.received[n].id /\ l \in ReceivedAt'
    BY <1>2, <1>3, <1>4, <1>5
  <2> QED BY <1>6, <2>1, <2>2 DEF Placed
<1>8. \A i \in 1..Len(orch.received) : Placed(i)'
  BY <1>1, <1>3, <1>4, PlacedStays DEF RecordInv
<1> QED BY <1>3, <1>4, <1>6, <1>7, <1>8 DEF RecordInv, Extends

(* The event is there, its record is not: the orchestrator rejects.         *)
LEMMA RecordExtends ==
    ASSUME RecordInv, Extends, orch'.received = orch.received,
           orch'.state \notin {"unstarted", "ingress"}
    PROVE  RecordInv'
<1>1. \A i \in DOMAIN orch'.received : Placed(i)'
  BY PlacedStays DEF RecordInv
<1> QED BY <1>1 DEF RecordInv, Extends

-----------------------------------------------------------------------------
(* What no step of the others disturbs.                                     *)

LEMMA IssuerStays == ASSUME IssuerInv, UNCHANGED <<issuer, vlog>> PROVE IssuerInv'
BY DEF IssuerInv, IssuerTypes

LEMMA ReaStays == ASSUME ReaInv, UNCHANGED <<rea, given>> PROVE ReaInv'
BY DEF ReaInv, ReaTypes

LEMMA VrsStays == ASSUME VrsInv, UNCHANGED <<vrs, given>> PROVE VrsInv'
BY DEF VrsInv

LEMMA OrchStays ==
    ASSUME OrchInv, UNCHANGED <<orch, given>>, issuer.done => issuer'.done,
           rea.final = "ok" => rea'.final = "ok"
    PROVE  OrchInv'
BY DEF OrchInv, OrchTypes

LEMMA GivenStays == ASSUME GivenInv, given' = given PROVE GivenInv'
BY DEF GivenInv

-----------------------------------------------------------------------------
(* The vault.                                                               *)

VaultStep == Emit \/ EmitRefused \/ AuthorizeFails \/ SessionExpires

LEMMA VaultSteps == ASSUME BootstrapInv, VaultStep PROVE BootstrapInv'
<1> USE NIsNat
<1>1. UNCHANGED <<given, env, orch, rea, vrs, rlog>> /\ ~issuer.finalized /\ issuer.next <= N
  BY DEF VaultStep, Emit, EmitRefused, AuthorizeFails, SessionExpires, Emitting
<1>2. /\ issuer \in Issuers
      /\ vlog \in Seq(Nat) /\ \A i \in DOMAIN vlog : vlog[i] = i
      /\ ~issuer.done /\ Len(vlog) = issuer.next - 1 /\ issuer.next \in 1..N
  BY <1>1 DEF BootstrapInv, IssuerInv, IssuerTypes, Issuers, Nexts
<1>n. issuer.next + 1 \in Nexts
  BY <1>2 DEF Nexts
<1>3. IssuerInv'
  <2>1. CASE Emit
    <3>1. /\ vlog' = Append(vlog, issuer.next)
          /\ issuer' = [issuer EXCEPT !.next = issuer.next + 1, !.finalized = issuer.next = N,
                                      !.done = issuer.next = N]
      BY <2>1 DEF Emit
    <3> PICK b \in BOOLEAN : b = (issuer.next = N)
      OBVIOUS
    <3> PICK n \in Nexts : n = issuer.next + 1
      BY <1>n
    <3>b. issuer' = [issuer EXCEPT !.next = n, !.finalized = b, !.done = b]
      BY <3>1
    <3>2. /\ issuer' \in Issuers
          /\ issuer'.next = n /\ issuer'.finalized = b /\ issuer'.done = b
      BY <1>2, <3>b DEF Issuers
    <3>3. /\ vlog' \in Seq(Nat) /\ Len(vlog') = issuer.next
          /\ \A i \in DOMAIN vlog' : vlog'[i] = i
      BY <1>2, <3>1
    <3>4. IssuerTypes'
      BY <3>2, <3>3 DEF IssuerTypes
    <3>5. issuer'.finalized = issuer'.done /\ (issuer'.done => Len(vlog') = N)
      BY <3>2, <3>3
    <3>6. Len(vlog') = issuer'.next - 1
      BY <1>2, <3>2, <3>3
    <3> QED BY <3>3, <3>4, <3>5, <3>6 DEF IssuerInv
  <2>2. CASE EmitRefused \/ AuthorizeFails
    <3>1. /\ vlog' = vlog
          /\ \/ issuer' = [issuer EXCEPT !.finalized = TRUE]
             \/ issuer' = [issuer EXCEPT !.next = issuer.next + 1, !.finalized = TRUE]
      BY <2>2 DEF EmitRefused, AuthorizeFails
    <3>2. /\ issuer' \in Issuers
          /\ issuer'.finalized /\ ~issuer'.done
      BY <1>2, <1>n, <3>1 DEF Issuers
    <3> QED BY <1>2, <3>1, <3>2 DEF IssuerInv, IssuerTypes
  <2>3. CASE SessionExpires
    <3>1. vlog' = vlog /\ issuer' = [issuer EXCEPT !.session = FALSE]
      BY <2>3 DEF SessionExpires
    <3>2. /\ issuer' \in Issuers
          /\ issuer'.finalized = issuer.finalized /\ ~issuer'.done
          /\ issuer'.next = issuer.next
      BY <1>2, <3>1 DEF Issuers
    <3> QED BY <1>2, <3>1, <3>2 DEF IssuerInv, IssuerTypes
  <2> QED BY <2>1, <2>2, <2>3 DEF VaultStep
<1>4. OrchInv'
  BY <1>1, <1>2, OrchStays DEF BootstrapInv
<1> QED BY <1>1, <1>3, <1>4, GivenStays, ReaStays, VrsStays, RecordStays DEF BootstrapInv

-----------------------------------------------------------------------------
(* What reaches the receiver is a message.                                  *)
Sent == [id : Nat, comp : Parts, seq : Nat, body : Nat, own : BOOLEAN]

LEMMA DeliveredIsMessage ==
    ASSUME BootstrapInv, NEW m \in Deliverable
    PROVE  m \in Messages /\ m.comp \in Parts
<1>1. \A i \in Parts : Committed(i) \in Sent
  <2> TAKE i \in Parts
  <2>1. i \in Nat /\ i - 1 \in Nat
    BY NIsNat DEF Parts
  <2>2. given.sealed[i] \in Nat
    <3>1. given.sealed[i] \in 1..N + 1
      BY DEF BootstrapInv, GivenInv
    <3> QED BY <3>1, NIsNat
  <2> QED BY <2>1, <2>2 DEF Committed, Message, Sent
<1>2. m \in Sent
  <2>1. \/ \E i \in Parts : m = Committed(i)
        \/ \E i \in Parts : m = [Committed(i) EXCEPT !.body = 0]
        \/ \E i \in Parts : m = [Committed(i) EXCEPT !.own = FALSE]
    BY DEF Deliverable
  <2>2. PICK i \in Parts : \/ m = Committed(i)
                          \/ m = [Committed(i) EXCEPT !.body = 0]
                          \/ m = [Committed(i) EXCEPT !.own = FALSE]
    BY <2>1
  <2>3. PICK c \in Sent : c = Committed(i)
    BY <1>1
  <2>4. [c EXCEPT !.body = 0] \in Sent
    BY DEF Sent
  <2>5. [c EXCEPT !.own = FALSE] \in Sent
    BY DEF Sent
  <2> QED BY <2>2, <2>3, <2>4, <2>5
<1>3. Parts \subseteq Nat
  BY NIsNat DEF Parts
<1> QED BY <1>2, <1>3 DEF Messages, Sent

(* The reassembler.                                                         *)
LEMMA AdmitSteps ==
    ASSUME BootstrapInv, NEW m \in Deliverable, Admit(m) PROVE BootstrapInv'
<1> DEFINE adm == [i \in DOMAIN rea.admitted \cup {m.comp} |->
                     IF i = m.comp THEN m.body ELSE rea.admitted[i]]
<1>1. /\ rea' = [rea EXCEPT !.admitted = adm] /\ ~rea.finalized
      /\ m.body = given.map[m.comp]
      /\ UNCHANGED <<given, issuer, vlog, env, orch, vrs, rlog>>
  BY DEF Admit, Verifies
<1>2. m.comp \in Parts
  BY DeliveredIsMessage
<1>3. /\ rea.admitted \in Maps /\ \A i \in DOMAIN rea.admitted : rea.admitted[i] = given.map[i]
  BY DEF BootstrapInv, ReaInv, ReaTypes
<1>4. PICK S \in SUBSET Parts : rea.admitted \in [S -> Parts]
  BY <1>3 DEF Maps
<1>5. adm \in [S \cup {m.comp} -> Parts] /\ \A i \in DOMAIN adm : adm[i] = given.map[i]
  BY <1>1, <1>2, <1>3, <1>4 DEF BootstrapInv, GivenInv
<1>6. adm \in Maps
  BY <1>2, <1>5 DEF Maps
<1> HIDE DEF adm
<1>7. ReaTypes' /\ rea'.admitted = adm /\ rea'.final = rea.final /\ rea'.final # "ok"
  BY <1>1, <1>6 DEF BootstrapInv, ReaInv, ReaTypes
<1>8. ReaInv'
  BY <1>1, <1>5, <1>7 DEF ReaInv
<1>9. OrchInv'
  BY <1>1, <1>7, OrchStays DEF BootstrapInv
<1> QED BY <1>1, <1>8, <1>9, GivenStays, IssuerStays, VrsStays, RecordStays DEF BootstrapInv

(* A map that fits the descriptor names every path.                         *)
LEMMA FittingMap ==
    ASSUME NEW map \in [Parts -> Parts], MapFits(map)
    PROVE  {<<map[i], map[i]>> : i \in Parts} = {<<p, p>> : p \in Parts}
<1>1. {[path |-> map[i], hash |-> map[i]] : i \in Parts} = {[path |-> p, hash |-> p] : p \in Parts}
  BY DEF MapFits, Leaves, Agd
<1>2. \A p \in Parts : \E i \in Parts : map[i] = p
  <2> TAKE p \in Parts
  <2>1. [path |-> p, hash |-> p] \in {[path |-> map[i], hash |-> map[i]] : i \in Parts}
    BY <1>1
  <2>2. PICK i \in Parts : [path |-> p, hash |-> p] = [path |-> map[i], hash |-> map[i]]
    BY <2>1
  <2>3. [path |-> p, hash |-> p].path = p /\ [path |-> map[i], hash |-> map[i]].path = map[i]
    OBVIOUS
  <2>4. p = map[i]
    BY <2>2, <2>3
  <2> QED BY <2>4
<1> QED BY <1>2

LEMMA FinalizeSteps == ASSUME BootstrapInv, Finalize PROVE BootstrapInv'
<1> DEFINE res == {<<given.map[i], rea.admitted[i]>> : i \in DOMAIN rea.admitted}
<1>1. /\ ~rea.finalized /\ MapFits(given.map)
      /\ UNCHANGED <<given, issuer, vlog, env, orch, vrs, rlog>>
  BY DEF Finalize
<1>2. /\ rea.admitted \in Maps /\ \A i \in DOMAIN rea.admitted : rea.admitted[i] = given.map[i]
      /\ given.map \in [Parts -> Parts] /\ rea.final # "ok"
  BY <1>1 DEF BootstrapInv, ReaInv, ReaTypes, GivenInv
<1>3. ASSUME Covered PROVE ReaInv'
  <2>1. rea' = [rea EXCEPT !.finalized = TRUE, !.final = "ok", !.result = res]
    BY <1>3 DEF Finalize
  <2>2. DOMAIN rea.admitted = Parts
    BY <1>2, <1>3 DEF Covered
  <2>3. res = {<<given.map[i], given.map[i]>> : i \in Parts}
    BY <1>2, <2>2
  <2>4. res = {<<p, p>> : p \in Parts}
    BY <1>1, <1>2, <2>3, FittingMap
  <2>5. res \in SUBSET (Parts \X Parts)
    BY <2>4
  <2> HIDE DEF res
  <2>6. ReaTypes' /\ rea'.admitted = rea.admitted /\ rea'.finalized /\ rea'.result = res
    BY <2>1, <2>5 DEF BootstrapInv, ReaInv, ReaTypes
  <2> QED BY <1>1, <1>2, <2>4, <2>6 DEF ReaInv
<1>4. ASSUME ~Covered PROVE ReaInv'
  <2>1. rea' = [rea EXCEPT !.finalized = TRUE, !.final = "failed", !.result = {}]
    BY <1>4 DEF Finalize
  <2>2. ReaTypes' /\ rea'.admitted = rea.admitted /\ rea'.final # "ok"
    BY <2>1 DEF BootstrapInv, ReaInv, ReaTypes
  <2> QED BY <1>1, <1>2, <2>2 DEF ReaInv
<1>5. OrchInv'
  BY <1>1, <1>2, OrchStays DEF BootstrapInv
<1> QED BY <1>1, <1>3, <1>4, <1>5, GivenStays, IssuerStays, VrsStays, RecordStays
        DEF BootstrapInv

-----------------------------------------------------------------------------
(* The orchestrator.                                                        *)

LEMMA LatchedOrch ==
    ASSUME OrchInv, NEW r \in Reasons, NEW v \in Nat, orch' = Latched(orch, r, v),
           orch.state # "unstarted", UNCHANGED <<given, issuer, rea>>
    PROVE  OrchInv' /\ orch'.received = orch.received /\ orch'.state = "rejected"
<1> PICK r2 \in Reasons : r2 = IF orch.reason = None THEN r ELSE orch.reason
  BY DEF OrchInv, OrchTypes
<1> PICK v2 \in Nat : v2 = IF orch.reason = None THEN v ELSE orch.vr
  BY DEF OrchInv, OrchTypes
<1>1. orch' = [orch EXCEPT !.state = "rejected", !.reason = r2, !.vr = v2]
  BY DEF Latched
<1>2. OrchTypes' /\ orch'.received = orch.received /\ orch'.state = "rejected"
  BY <1>1 DEF OrchInv, OrchTypes, States
<1> QED BY <1>2 DEF OrchInv

LEMMA StartSteps == ASSUME BootstrapInv, Start PROVE BootstrapInv'
<1>1. /\ orch' = [orch EXCEPT !.state = "ingress"] /\ orch.state = "unstarted"
      /\ issuer.done /\ given.bm.ids = [i \in Parts |-> i]
      /\ UNCHANGED <<given, issuer, vlog, env, rea, vrs, rlog>>
  BY DEF Start, CheckAgreement
<1>2. OrchTypes' /\ orch'.received = orch.received /\ orch'.state = "ingress"
  BY <1>1 DEF BootstrapInv, OrchInv, OrchTypes, States
<1>3. orch.received = <<>>
  BY <1>1 DEF BootstrapInv, OrchInv
<1>4. OrchInv'
  BY <1>1, <1>2, <1>3, NIsNat DEF OrchInv
<1> QED BY <1>1, <1>2, <1>4, GivenStays, IssuerStays, ReaStays, VrsStays, RecordStays
        DEF BootstrapInv

LEMMA AcceptSteps ==
    ASSUME BootstrapInv, NEW m \in Deliverable, Accept(m) PROVE BootstrapInv'
<1> PICK n : n = Len(orch.received) + 1
  OBVIOUS
<1>1. /\ orch.state = "ingress" /\ Fits(m, n) /\ rlog' = Append(rlog, Received(m))
      /\ orch' = [orch EXCEPT !.received = Append(orch.received, m),
                              !.state = IF n = Len(given.bm.ids) THEN "reassemble"
                                        ELSE orch.state]
      /\ UNCHANGED <<given, issuer, vlog, env, rea, vrs>>
  BY DEF Accept
<1>2. /\ OrchTypes /\ issuer.done /\ given.bm.ids = [i \in Parts |-> i]
      /\ Len(orch.received) < N /\ orch.received \in Seq(Messages)
      /\ \A i \in DOMAIN orch.received : orch.received[i].id = i
  BY <1>1 DEF BootstrapInv, OrchInv, OrchTypes
<1>3. n \in Parts /\ Len(given.bm.ids) = N /\ m.id = n /\ n = Len(orch.received) + 1
  BY <1>1, <1>2, NIsNat DEF Parts, Fits
<1>4. m \in Messages
  BY DeliveredIsMessage
<1>a. Append(orch.received, m) \in Seq(Messages)
  BY <1>2, <1>4
<1> PICK rs \in Seq(Messages) : rs = Append(orch.received, m)
  BY <1>a
<1> PICK st \in States : st = IF n = N THEN "reassemble" ELSE "ingress"
  BY DEF States
<1>5. orch' = [orch EXCEPT !.received = rs, !.state = st]
  BY <1>1, <1>3
<1>6. OrchTypes' /\ orch'.received = rs /\ orch'.state = st
  BY <1>2, <1>5 DEF OrchTypes
<1>7. Len(rs) = n /\ \A i \in DOMAIN rs : rs[i].id = i
  BY <1>2, <1>3, <1>4
<1>8. OrchInv'
  <2>1. n <= N /\ (st = "ingress" => n < N) /\ st \in {"reassemble", "ingress"}
    BY <1>3, NIsNat DEF Parts
  <2> QED BY <1>1, <1>2, <1>6, <1>7, <2>1 DEF OrchInv
<1>9. RecordInv'
  BY <1>1, <1>2, <1>4, <1>6, RecordTakes DEF BootstrapInv
<1> QED BY <1>1, <1>8, <1>9, GivenStays, IssuerStays, ReaStays, VrsStays DEF BootstrapInv

LEMMA RefuseSteps ==
    ASSUME BootstrapInv, NEW m \in Deliverable, NEW r \in BOOLEAN,
           AcceptRefuses(m) \/ AcceptFails(m, r)
    PROVE  BootstrapInv'
<1>1. /\ orch.state = "ingress" /\ orch' = Latched(orch, "reassembly_failed", 0)
      /\ rlog' = rlog \/ rlog' = Append(rlog, Received(m))
      /\ UNCHANGED <<given, issuer, vlog, env, rea, vrs>>
  BY DEF AcceptRefuses, AcceptFails
<1>2. OrchInv' /\ orch'.received = orch.received /\ orch'.state = "rejected"
  BY <1>1, LatchedOrch DEF BootstrapInv, Reasons
<1>3. rlog \in Seq(Events) /\ Received(m) \in Events
  BY DeliveredIsMessage DEF BootstrapInv, RecordInv, Received, Events, Messages
<1>4. Extends
  BY <1>1, <1>3, AppendExtends DEF Extends
<1>5. RecordInv'
  BY <1>2, <1>4, RecordExtends DEF BootstrapInv
<1> QED BY <1>1, <1>2, <1>5, GivenStays, IssuerStays, ReaStays, VrsStays DEF BootstrapInv

LEMMA MarkSteps ==
    ASSUME BootstrapInv,
           \/ MarkReassembled \/ MarkReassemblyFailed
           \/ \E v \in DOMAIN vrs : MarkValidated(v) \/ MarkValidationFailed(v)
    PROVE  BootstrapInv'
<1>1. UNCHANGED <<given, issuer, vlog, env, rea, vrs, rlog>>
  BY DEF MarkReassembled, MarkReassemblyFailed, MarkValidated, MarkValidationFailed
<1>2. OrchInv /\ OrchTypes /\ orch.state \in States
  BY DEF BootstrapInv, OrchInv, OrchTypes
<1>v. \A v \in DOMAIN vrs : v \in Nat /\ (vrs[v].verdict = "pass" => given.bm.signed)
  BY DEF BootstrapInv, VrsInv
<1>3. /\ OrchInv' /\ orch'.received = orch.received
      /\ orch'.state \in {"validate", "ready", "rejected"}
  <2>1. CASE MarkReassembled
    <3>1. /\ orch.state = "reassemble" /\ rea.final = "ok"
          /\ orch' = [orch EXCEPT !.state = "validate"]
      BY <2>1 DEF MarkReassembled
    <3>2. OrchTypes' /\ orch'.received = orch.received /\ orch'.state = "validate"
      BY <1>2, <3>1 DEF OrchTypes, States
    <3> QED BY <1>1, <1>2, <3>1, <3>2 DEF OrchInv
  <2>2. CASE MarkReassemblyFailed
    <3>1. /\ orch.state = "reassemble" /\ orch' = Latched(orch, "reassembly_failed", 0)
      BY <2>2 DEF MarkReassemblyFailed
    <3> QED BY <1>1, <1>2, <3>1, LatchedOrch DEF Reasons
  <2>3. ASSUME NEW v \in DOMAIN vrs, MarkValidated(v)
        PROVE  OrchInv' /\ orch'.received = orch.received /\ orch'.state = "ready"
    <3>1. /\ orch.state = "validate" /\ given.bm.signed /\ v \in Nat
          /\ orch' = [orch EXCEPT !.state = "ready", !.vr = v]
      BY <1>v, <2>3 DEF MarkValidated
    <3>2. OrchTypes' /\ orch'.received = orch.received /\ orch'.state = "ready"
      BY <1>2, <3>1 DEF OrchTypes, States
    <3> QED BY <1>1, <1>2, <3>1, <3>2 DEF OrchInv
  <2>4. ASSUME NEW v \in DOMAIN vrs, MarkValidationFailed(v)
        PROVE  OrchInv' /\ orch'.received = orch.received /\ orch'.state = "rejected"
    <3>1. /\ orch.state = "validate" /\ v \in Nat
          /\ orch' = Latched(orch, "validation_failed", v)
      BY <1>v, <2>4 DEF MarkValidationFailed
    <3> QED BY <1>1, <1>2, <3>1, LatchedOrch DEF Reasons
  <2> QED BY <2>1, <2>2, <2>3, <2>4
<1> QED BY <1>1, <1>3, GivenStays, IssuerStays, ReaStays, VrsStays, RecordStays
        DEF BootstrapInv

LEMMA DecideSteps == ASSUME BootstrapInv, Decide \/ DecideFails PROVE BootstrapInv'
<1>1. /\ UNCHANGED <<given, issuer, vlog, env, rea, vrs>>
      /\ rlog' = Append(rlog, Decided) /\ orch.state \in {"ready", "rejected"}
  BY DEF Decide, DecideFails
<1>2. OrchInv /\ OrchTypes
  BY DEF BootstrapInv, OrchInv
<1>3. Ruling \in Rulings
  BY <1>2 DEF Ruling, Rulings, OrchTypes, Reasons
<1> PICK rul \in Rulings : rul = Ruling
  BY <1>3
<1>4. /\ OrchInv' /\ orch'.received = orch.received
      /\ orch'.state \notin {"unstarted", "ingress"}
  <2>1. CASE Decide
    <3> PICK st \in States : st = IF orch.state = "ready" THEN "reconstituted" ELSE orch.state
      BY <1>1 DEF States
    <3>1. orch' = [orch EXCEPT !.decision = "signed", !.ruling = rul, !.state = st]
      BY <2>1 DEF Decide
    <3>2. OrchTypes' /\ orch'.received = orch.received /\ orch'.state = st
      BY <1>2, <3>1 DEF OrchTypes
    <3> QED BY <1>1, <1>2, <3>2 DEF OrchInv
  <2>2. CASE DecideFails
    <3> PICK f \in Nat : f = orch.failed + 1
      BY <1>2 DEF OrchTypes
    <3>1. orch' = [orch EXCEPT !.failed = f]
      BY <2>2 DEF DecideFails
    <3>2. OrchTypes' /\ orch'.received = orch.received /\ orch'.state = orch.state
      BY <1>2, <3>1 DEF OrchTypes
    <3> QED BY <1>1, <1>2, <3>2 DEF OrchInv
  <2> QED BY <2>1, <2>2
<1>5. rlog \in Seq(Events) /\ Decided \in Events
  BY <1>3 DEF BootstrapInv, RecordInv, Decided, Events
<1>6. Extends
  BY <1>1, <1>5, AppendExtends
<1>7. RecordInv'
  BY <1>4, <1>6, RecordExtends DEF BootstrapInv
<1> QED BY <1>1, <1>4, <1>7, GivenStays, IssuerStays, ReaStays, VrsStays DEF BootstrapInv

-----------------------------------------------------------------------------
(* The validator.                                                           *)

(* A verdict is a verdict, and passes only over an operational dimension    *)
(* that passed, which takes a signed manifest.                              *)
LEMMA DimensionsAreSound ==
    ASSUME NEW d \in Dimensions
    PROVE  /\ d \in DimSets /\ Aggregate(d) \in Verdicts
           /\ Aggregate(d) = "pass" => given.bm.signed
<1> PICK o : o = RunOperational
  OBVIOUS
<1>1. o \in {"pass", "fail"} /\ (o = "pass" => given.bm.signed)
  BY DEF RunOperational, CheckRecvBootstrapManifestIntegrity
<1>2. \/ d = [operational |-> o]
      \/ \E b \in {"pass", "fail"} : d = [operational |-> o, behavioral |-> b]
  BY DEF Dimensions
<1>3. d \in DimSets /\ "operational" \in DOMAIN d /\ d["operational"] = o
  BY <1>1, <1>2 DEF DimSets
<1>4. Aggregate(d) \in Verdicts /\ (Aggregate(d) = "pass" => o = "pass")
  BY <1>3 DEF Aggregate, Verdicts
<1> QED BY <1>1, <1>3, <1>4

LEMMA ValidateSteps ==
    ASSUME BootstrapInv, NEW d \in Dimensions, Validate(d) PROVE BootstrapInv'
<1> PICK vr : vr = Result(d)
  OBVIOUS
<1> PICK c : c = [kind |-> "completed", vr |-> Len(vrs) + 1, verdict |-> vr.verdict]
  OBVIOUS
<1> PICK s : s = [kind |-> "started"]
  OBVIOUS
<1>1. /\ UNCHANGED <<given, issuer, vlog, env, orch, rea>>
      /\ vrs' = Append(vrs, vr) /\ rlog' = rlog \o <<s, c>>
  BY DEF Validate
<1>2. /\ vrs \in Seq([verdict : Verdicts, dims : DimSets])
      /\ vr \in [verdict : Verdicts, dims : DimSets]
      /\ vr.verdict \in Verdicts /\ (vr.verdict = "pass" => given.bm.signed)
  BY DimensionsAreSound DEF BootstrapInv, VrsInv, Result
<1>3. VrsInv'
  BY <1>1, <1>2 DEF BootstrapInv, VrsInv
<1>4. /\ rlog \in Seq(Events) /\ s \in Events /\ c \in Events
      /\ s.kind = "started" /\ c.kind = "completed"
  BY <1>2 DEF BootstrapInv, RecordInv, Events
<1>5. /\ Extends /\ DOMAIN rlog' = 1..Len(rlog) + 2 /\ Len(rlog) \in Nat
      /\ rlog'[Len(rlog) + 1] = s /\ rlog'[Len(rlog) + 2] = c
  BY <1>1, <1>4 DEF Extends
<1>6. \A p \in DOMAIN rlog' : p > Len(rlog) => rlog'[p].kind # "received"
  BY <1>4, <1>5
<1>7. RecordInv'
  BY <1>1, <1>5, <1>6, RecordKeeps DEF BootstrapInv
<1> QED BY <1>1, <1>3, <1>7, GivenStays, IssuerStays, ReaStays, OrchStays DEF BootstrapInv

LEMMA ValidateFailsSteps == ASSUME BootstrapInv, ValidateFails PROVE BootstrapInv'
<1> PICK s : s = [kind |-> "started"]
  OBVIOUS
<1>1. /\ UNCHANGED <<given, issuer, vlog, env, orch, rea, vrs>> /\ rlog' = Append(rlog, s)
  BY DEF ValidateFails
<1>2. rlog \in Seq(Events) /\ s \in Events /\ s.kind = "started"
  BY DEF BootstrapInv, RecordInv, Events
<1>3. /\ Extends /\ DOMAIN rlog' = 1..Len(rlog) + 1 /\ Len(rlog) \in Nat
      /\ rlog'[Len(rlog) + 1] = s
  BY <1>1, <1>2, AppendExtends
<1>4. \A p \in DOMAIN rlog' : p > Len(rlog) => rlog'[p].kind # "received"
  BY <1>2, <1>3
<1>5. RecordInv'
  BY <1>1, <1>3, <1>4, RecordKeeps DEF BootstrapInv
<1> QED BY <1>1, <1>5, GivenStays, IssuerStays, ReaStays, VrsStays, OrchStays DEF BootstrapInv

(* What expires or changes around the receiver, or nothing.                 *)
LEMMA QuietSteps ==
    ASSUME BootstrapInv, UNCHANGED <<given, issuer, vlog, orch, rea, vrs, rlog>>
    PROVE  BootstrapInv'
BY GivenStays, IssuerStays, ReaStays, VrsStays, OrchStays, RecordStays DEF BootstrapInv

LEMMA NextBootstrap == BootstrapInv /\ [Next]_vars => BootstrapInv'
<1> SUFFICES ASSUME BootstrapInv, [Next]_vars PROVE BootstrapInv'
  OBVIOUS
<1>1. CASE Emit \/ EmitRefused \/ AuthorizeFails \/ SessionExpires
  BY <1>1, VaultSteps DEF VaultStep
<1>2. CASE Start
  BY <1>2, StartSteps
<1>3. CASE \E m \in Deliverable : Accept(m)
  BY <1>3, AcceptSteps
<1>4. CASE \E m \in Deliverable : AcceptRefuses(m)
  BY <1>4, RefuseSteps
<1>5. CASE \E m \in Deliverable, r \in BOOLEAN : AcceptFails(m, r)
  BY <1>5, RefuseSteps
<1>6. CASE \E m \in Deliverable : Admit(m)
  BY <1>6, AdmitSteps
<1>7. CASE Finalize
  BY <1>7, FinalizeSteps
<1>8. CASE \/ MarkReassembled \/ MarkReassemblyFailed
           \/ \E v \in DOMAIN vrs : MarkValidated(v)
           \/ \E v \in DOMAIN vrs : MarkValidationFailed(v)
  BY <1>8, MarkSteps
<1>9. CASE Expires \/ EndsSession \/ RotatesPolicy
  BY <1>9, QuietSteps DEF Expires, EndsSession, RotatesPolicy
<1>10. CASE \E d \in Dimensions : Validate(d)
  BY <1>10, ValidateSteps
<1>11. CASE ValidateFails
  BY <1>11, ValidateFailsSteps
<1>12. CASE Decide \/ DecideFails
  BY <1>12, DecideSteps
<1>13. CASE UNCHANGED vars
  BY <1>13, QuietSteps DEF vars
<1> QED BY <1>1, <1>2, <1>3, <1>4, <1>5, <1>6, <1>7, <1>8, <1>9, <1>10, <1>11, <1>12, <1>13
        DEF Next

-----------------------------------------------------------------------------
(* A reconstitution is accepted only with the descriptor's content at every *)
(* path, a signed manifest and every message on the vault's record, for any *)
(* number of components, whatever the vault sealed, the map and manifest of *)
(* the caller say, and in whatever order, how often or how altered the      *)
(* messages arrive (Accept, Admit, Finalize, RunOperational).               *)
THEOREM AcceptedIsGenuine == Spec => []AcceptedIsTheGenome
<1>1. BootstrapInv => AcceptedIsTheGenome
  BY InvIsEnough
<1> QED BY <1>1, InitBootstrap, NextBootstrap, PTL DEF Spec

(* No disclosure leaves the vault, and none is taken by the receiver,       *)
(* without its event, in the order of the sequence (emitAuditEvent before   *)
(* the message, chain.Append before the record).                            *)
THEOREM DisclosuresAreRecorded == Spec => []DisclosedOnRecord
<1>1. BootstrapInv => DisclosedOnRecord
  BY InvIsEnough
<1> QED BY <1>1, InitBootstrap, NextBootstrap, PTL DEF Spec

-----------------------------------------------------------------------------
(***************************************************************************)
(* KeyStore: the key files and escrow keys of the same hosts, for any      *)
(* hosts, families, secrets, images, boots and paths and any number of     *)
(* commands, deaths, copies, edits and reconfigurations.                   *)
(*                                                                         *)
(* A file is a bare key of its own path, or was sealed on some host as     *)
(* some secret in the layers that host has under some setting; what        *)
(* another hand can change are its clear fields, and the associated data   *)
(* of the box repeat them.  A Nitro enclave's file may be sealed in any    *)
(* layers for any image.  A file nobody else touched was sealed as its own *)
(* secret in layers its own host has, because the one about to be renamed  *)
(* over it was opened first or its image and KMS key are ones an enclave   *)
(* answers to.  An escrow file is never written over, so a published *)
(* key stays where it was when it was published.                           *)
(***************************************************************************)

(* What a host runs as. *)
Setups == [image : Images, boot : Boots, mode : Modes, escrowPath : Paths \cup {"unset"}]

(* A key file sealed on host g, running as m, as its secret n, with clear   *)
(* fields that name another family or another secret.                      *)
SealedAs(g, n, m, kind, tee, name) ==
    [form |-> "sealed", tee |-> tee, measurement |-> m.image, sealer |-> kind, name |-> name,
     box |-> Seal(SealerFor(g, m, kind), <<g, n>>, sealedSecretAAD(family[g], m.image, n, kind))]

(* f is host h's own sealed file of secret n. *)
SealedFor(f, h, n) ==
    \E m \in AnySetting : \E kind \in hostSealer(h, m) : f = SealedAs(h, n, m, kind, family[h], n)

(* f was sealed on some host as some secret; its clear fields may say else. *)
SealedByHost(f) ==
    \E g \in Hosts, n \in NameSet, m \in AnySetting, h \in Hosts, name \in NameSet :
        \E kind \in hostSealer(g, m) : f = SealedAs(g, n, m, kind, family[h], name)

(* A Nitro key file of host g's secret n, for any image and in any layers.  *)
NitroFile(g, n, image, layers, tee, name) ==
    [form |-> "sealed", tee |-> tee, measurement |-> image, sealer |-> "aws-kms-attested", name |-> name,
     box |-> Seal(layers, <<g, n>>, sealedSecretAAD(family[g], image, n, "aws-kms-attested"))]

SealedForImage(f) ==
    \E g \in Hosts, n \in NameSet, h \in Hosts, name \in NameSet : \E image, layers :
        f = NitroFile(g, n, image, layers, family[h], name)

SealedSomewhere(f) == SealedByHost(f) \/ SealedForImage(f)

(* The key files: bare ones hold their own path's key. *)
KeyFilesInv ==
    /\ DOMAIN files = Hosts
    /\ \A h \in Hosts :
          /\ DOMAIN files[h] = NameSet
          /\ \A n \in NameSet :
                /\ files[h][n] = Bare(h, n) \/ SealedSomewhere(files[h][n])
                /\ <<h, n>> \notin tampered \cup misdirected =>
                      files[h][n] = Bare(h, n) \/ SealedFor(files[h][n], h, n)

(* s is a file of escrow key k that host h can open. *)
HoldsKey(s, h, k) ==
    \/ s = [form |-> "plaintext", key |-> k]
    \/ \E m \in AnySetting : \E kind \in hostSealer(h, m) : s = SealKey(k, h, m, kind)

(* The escrow keys: a published one is where its publication says, and one *)
(* reported recoverable is in an envelope.                                 *)
EscrowInv ==
    /\ DOMAIN escrow = Hosts /\ \A h \in Hosts : DOMAIN escrow[h] = Paths
    /\ DOMAIN recovery = Paths
    /\ DOMAIN published = 1 .. MaxProvisions
    /\ \A k \in 1 .. MaxProvisions :
          published[k] # NoKey =>
              \E h \in Hosts, p \in Paths : published[k] = <<h, p>> /\ HoldsKey(escrow[h][p], h, k)
    /\ \A k \in reported : \E p \in Paths : recovery[p] = WrapRecovery(k)

(* seal-keys between two files, on a host that has a sealer; and with a    *)
(* sealed file ready to be renamed over the one it is at.                  *)
AtNext ==
    \E h \in Hosts, i \in Nat :
        /\ cmd = [at |-> "next", host |-> h, i |-> i]
        /\ hostSealer(h, machine[h]) # {}

Renaming(h, i, temp) ==
    /\ i \in Nat
    /\ cmd = [at |-> "rename", host |-> h, i |-> i, temp |-> temp]
    /\ hostSealer(h, machine[h]) # {}
    /\ SealedFor(temp, h, Names[i])

AtRename == \E h \in Hosts, i \in DOMAIN Names : \E temp : Renaming(h, i, temp)

(* The Nitro command between two files, and with a sealed file to rename.   *)
Nitro(h, i, pcr0, kms) ==
    /\ i \in Nat /\ family[h] = "aws-nitro"
    /\ kms = "usable" => pcr0 \in Images
    /\ cmd = [at |-> "nitro", host |-> h, i |-> i, pcr0 |-> pcr0, kms |-> kms]

AtNitro == \E h \in Hosts, i \in Nat, kms \in KMSKeys : \E pcr0 : Nitro(h, i, pcr0, kms)

NitroRenaming(h, i, pcr0, kms, temp) ==
    /\ i \in Nat /\ family[h] = "aws-nitro"
    /\ kms = "usable" => pcr0 \in Images
    /\ cmd = [at |-> "nitro rename", host |-> h, i |-> i, pcr0 |-> pcr0, kms |-> kms, temp |-> temp]
    /\ SealedForImage(temp)
    /\ kms = "usable" => SealedFor(temp, h, Names[i])

AtNitroRename ==
    \E h \in Hosts, i \in DOMAIN Names, kms \in KMSKeys : \E pcr0, temp :
        NitroRenaming(h, i, pcr0, kms, temp)

(* escrow-provision with a sealed file of the key; past its first write,   *)
(* with that file on the host's disk.                                      *)
Writing(at, h, k, out, rec, sealed) ==
    /\ cmd = [at |-> at, host |-> h, key |-> k, sealed |-> sealed, out |-> out, rec |-> rec]
    /\ HoldsKey(sealed, h, k) /\ sealed.form = "sealed"
    /\ at = "pub" => escrow[h][out] = sealed
    /\ at = "recovery" => rec \in Paths

Provisioning ==
    \E at \in {"out", "pub", "recovery"}, h \in Hosts, k \in 1 .. MaxProvisions, out \in Paths,
       rec \in Paths \cup {"none"} : \E sealed : Writing(at, h, k, out, rec, sealed)

CommandInv == cmd = Idle \/ AtNext \/ AtRename \/ AtNitro \/ AtNitroRename \/ Provisioning

KeyStoreInv ==
    /\ machine \in [Hosts -> Setups]
    /\ KeyFilesInv
    /\ EscrowInv
    /\ CommandInv

-----------------------------------------------------------------------------
(* A sealed file stays what it is: a host's family never changes.          *)
LEMMA SealerStays ==
    ASSUME family' = family, NEW h, NEW m, NEW kind
    PROVE  /\ SealerFor(h, m, kind)' = SealerFor(h, m, kind)
           /\ hostSealer(h, m)' = hostSealer(h, m)
BY DEF SealerFor, hostSealer, simulatedLayer, sevSealingLayer, vtpmLayer, nestedLayers, nitroLayer

LEMMA SealedStays ==
    ASSUME family' = family, NEW f, NEW h, NEW n
    PROVE  /\ SealedFor(f, h, n)' <=> SealedFor(f, h, n)
           /\ SealedSomewhere(f)' <=> SealedSomewhere(f)
           /\ SealedForImage(f)' <=> SealedForImage(f)
           /\ HoldsKey(f, h, n)' <=> HoldsKey(f, h, n)
<1>1. \A g, m : hostSealer(g, m)' = hostSealer(g, m)
  BY SealerStays
<1>2. \A g, m, kind : SealerFor(g, m, kind)' = SealerFor(g, m, kind)
  BY SealerStays
<1>3. \A g, x, m, kind, tee, name : SealedAs(g, x, m, kind, tee, name)' = SealedAs(g, x, m, kind, tee, name)
  BY <1>2 DEF SealedAs
<1>4. \A k, g, m, kind : SealKey(k, g, m, kind)' = SealKey(k, g, m, kind)
  BY <1>2 DEF SealKey
<1>5. SealedFor(f, h, n)' <=> SealedFor(f, h, n)
  BY <1>1, <1>3 DEF SealedFor
<1>6. SealedByHost(f)' <=> SealedByHost(f)
  BY <1>1, <1>3 DEF SealedByHost
<1>8. \A g, x, image, layers, tee, name :
          NitroFile(g, x, image, layers, tee, name)' = NitroFile(g, x, image, layers, tee, name)
  BY DEF NitroFile
<1>9. SealedForImage(f)' <=> SealedForImage(f)
  BY <1>8 DEF SealedForImage
<1>7. HoldsKey(f, h, n)' <=> HoldsKey(f, h, n)
  BY <1>1, <1>4 DEF HoldsKey
<1> QED BY <1>5, <1>6, <1>7, <1>9 DEF SealedSomewhere

(* What a sealer does depends on the image, the boot and the mode alone.    *)
LEMMA SettingOf ==
    ASSUME NEW m \in Setups, NEW h, NEW kind
    PROVE  \E s \in AnySetting :
              /\ s.image = m.image /\ hostSealer(h, s) = hostSealer(h, m)
              /\ SealerFor(h, s, kind) = SealerFor(h, m, kind)
<1> DEFINE s == [m EXCEPT !.escrowPath = "unset"]
<1>1. s \in AnySetting
  BY DEF AnySetting, Setups
<1>2. s.image = m.image /\ s.boot = m.boot /\ s.mode = m.mode
  BY DEF Setups
<1>3. hostSealer(h, s) = hostSealer(h, m)
  BY <1>2 DEF hostSealer
<1>4. SealerFor(h, s, kind) = SealerFor(h, m, kind)
  <2> HIDE DEF s
  <2> QED BY <1>2 DEF SealerFor, simulatedLayer, sevSealingLayer, vtpmLayer, nestedLayers, nitroLayer
<1> QED BY <1>1, <1>2, <1>3, <1>4

(* The kinds of sealer there are. *)
LEMMA KindsOfSealer ==
    ASSUME NEW h, NEW m
    PROVE  hostSealer(h, m) \subseteq {"simulated", "sev", "tpm2", "sev+tpm2", "aws-kms-attested"}
BY DEF hostSealer, SealerKindForProvider

-----------------------------------------------------------------------------
LEMMA InitKeyStore == KeyStoreInit => KeyStoreInv
<1> SUFFICES ASSUME KeyStoreInit PROVE KeyStoreInv
  OBVIOUS
<1>1. machine \in [Hosts -> Setups]
  <2>1. (CHOOSE i \in Images : TRUE) \in Images /\ (CHOOSE b \in Boots : TRUE) \in Boots
    BY KeyStoreAssumption
  <2> QED BY <2>1 DEF KeyStoreInit, Setups, Modes
<1>2. KeyFilesInv
  BY DEF KeyStoreInit, KeyFilesInv
<1>3. EscrowInv
  BY DEF KeyStoreInit, EscrowInv
<1>4. CommandInv
  BY DEF KeyStoreInit, CommandInv
<1> QED BY <1>1, <1>2, <1>3, <1>4 DEF KeyStoreInv

(* What keeps each part, when a step leaves its variables alone.            *)
LEMMA KeyFilesStay ==
    ASSUME KeyFilesInv, UNCHANGED <<family, files, tampered, misdirected>>
    PROVE  KeyFilesInv'
BY SealedStays DEF KeyFilesInv, Bare

LEMMA EscrowStays ==
    ASSUME EscrowInv, UNCHANGED <<family, escrow, recovery, published, reported>>
    PROVE  EscrowInv'
BY SealedStays DEF EscrowInv, WrapRecovery, NoKey

LEMMA CommandStays ==
    ASSUME CommandInv, UNCHANGED <<family, machine, cmd, escrow>>
    PROVE  CommandInv'
<1>1. \A h : hostSealer(h, machine[h])' = hostSealer(h, machine[h])
  BY DEF hostSealer
<1>2. ASSUME AtNext PROVE AtNext'
  BY <1>1, <1>2 DEF AtNext
<1>3. ASSUME AtRename PROVE AtRename'
  <2>1. PICK h \in Hosts, i \in DOMAIN Names : \E temp : Renaming(h, i, temp)
    BY <1>3 DEF AtRename
  <2>2. PICK temp : Renaming(h, i, temp)
    BY <2>1
  <2>3. Renaming(h, i, temp)'
    BY <2>2, <1>1, SealedStays DEF Renaming
  <2> QED BY <2>3 DEF AtRename
<1>4. ASSUME Provisioning PROVE Provisioning'
  <2>2. PICK at \in {"out", "pub", "recovery"}, h \in Hosts, k \in 1 .. MaxProvisions, out \in Paths,
             rec \in Paths \cup {"none"} : \E sealed : Writing(at, h, k, out, rec, sealed)
    BY <1>4 DEF Provisioning
  <2>3. PICK sealed : Writing(at, h, k, out, rec, sealed)
    BY <2>2
  <2>1. HoldsKey(sealed, h, k)'
    BY <2>3, SealedStays DEF Writing
  <2>4. Writing(at, h, k, out, rec, sealed)'
    BY <2>1, <2>3 DEF Writing
  <2> QED BY <2>4 DEF Provisioning
<1>5. ASSUME AtNitro PROVE AtNitro'
  BY <1>5 DEF AtNitro, Nitro
<1>6. ASSUME AtNitroRename PROVE AtNitroRename'
  <2>1. PICK h \in Hosts, i \in DOMAIN Names, kms \in KMSKeys :
            \E pcr0, temp : NitroRenaming(h, i, pcr0, kms, temp)
    BY <1>6 DEF AtNitroRename
  <2>2. PICK pcr0, temp : NitroRenaming(h, i, pcr0, kms, temp)
    BY <2>1
  <2>3. NitroRenaming(h, i, pcr0, kms, temp)'
    BY <2>2, SealedStays DEF NitroRenaming
  <2> QED BY <2>3 DEF AtNitroRename
<1> QED BY <1>2, <1>3, <1>4, <1>5, <1>6 DEF CommandInv, Idle

LEMMA IdleKept ==
    ASSUME cmd' = Idle
    PROVE  CommandInv'
BY DEF CommandInv, Idle

-----------------------------------------------------------------------------
(* seal-keys.                                                              *)

LEMMA SealStartSteps ==
    ASSUME KeyStoreInv, NEW h \in Hosts, SealKeysStart(h) \/ runSealKeys(h)
    PROVE  KeyStoreInv'
<1>1. /\ cmd' = [at |-> "next", host |-> h, i |-> 1] /\ hostSealer(h, machine[h]) # {}
      /\ UNCHANGED <<family, machine, files, tampered, misdirected, escrow, recovery, published, reported>>
  BY DEF SealKeysStart, runSealKeys, TEESealer, diskVars, escrowVars
<1>2. hostSealer(h, machine[h])' = hostSealer(h, machine[h])
  BY <1>1 DEF hostSealer
<1>3. CommandInv'
  BY <1>1, <1>2 DEF CommandInv, AtNext
<1> QED BY <1>1, <1>3, KeyFilesStay, EscrowStays DEF KeyStoreInv

(* Where a command is tells which it is.                                   *)
LEMMA CommandsApart ==
    /\ Idle.at = "idle"
    /\ AtNext => cmd.at = "next"
    /\ AtRename => cmd.at = "rename"
    /\ AtNitro => cmd.at = "nitro"
    /\ AtNitroRename => cmd.at = "nitro rename"
    /\ Provisioning => cmd.at \in {"out", "pub", "recovery"}
<1>1. Idle.at = "idle"
  BY DEF Idle
<1>2. AtNext => cmd.at = "next"
  BY DEF AtNext
<1>3. AtRename => cmd.at = "rename"
  BY DEF AtRename, Renaming
<1>4. AtNitro => cmd.at = "nitro"
  BY DEF AtNitro, Nitro
<1>5. AtNitroRename => cmd.at = "nitro rename"
  <2> SUFFICES ASSUME AtNitroRename PROVE cmd.at = "nitro rename"
    OBVIOUS
  <2>1. PICK h, i, kms, pcr0, temp : NitroRenaming(h, i, pcr0, kms, temp)
    BY DEF AtNitroRename
  <2>2. cmd = [at |-> "nitro rename", host |-> h, i |-> i, pcr0 |-> pcr0, kms |-> kms, temp |-> temp]
    BY <2>1, Zenon DEF NitroRenaming
  <2> QED BY <2>2
<1>6. Provisioning => cmd.at \in {"out", "pub", "recovery"}
  BY DEF Provisioning, Writing
<1> QED BY <1>1, <1>2, <1>3, <1>4, <1>5, <1>6

LEMMA NextIs ==
    ASSUME CommandInv, cmd.at = "next"
    PROVE  AtNext
BY CommandsApart DEF CommandInv

LEMMA SkipSteps ==
    ASSUME KeyStoreInv, AtFile("next"), SealKeysSkip(cmd.host, Names[cmd.i])
    PROVE  KeyStoreInv'
<1>1. /\ cmd' = [cmd EXCEPT !.i = @ + 1] \/ cmd' = Idle
      /\ UNCHANGED <<family, machine, files, tampered, misdirected, escrow, recovery, published, reported>>
  BY DEF SealKeysSkip, diskVars, escrowVars
<1>2. PICK h \in Hosts, i \in Nat :
          cmd = [at |-> "next", host |-> h, i |-> i] /\ hostSealer(h, machine[h]) # {}
  BY NextIs DEF KeyStoreInv, AtFile, AtNext
<1>3. hostSealer(h, machine[h])' = hostSealer(h, machine[h])
  BY <1>1 DEF hostSealer
<1>4. CASE cmd' = [cmd EXCEPT !.i = @ + 1]
  <2>1. cmd' = [at |-> "next", host |-> h, i |-> i + 1] /\ i + 1 \in Nat
    BY <1>2, <1>4
  <2>2. CommandInv'
    BY <2>1, <1>2, <1>3 DEF CommandInv, AtNext
  <2> QED BY <1>1, <2>2, KeyFilesStay, EscrowStays DEF KeyStoreInv
<1>5. CASE cmd' = Idle
  BY <1>1, <1>5, IdleKept, KeyFilesStay, EscrowStays DEF KeyStoreInv
<1> QED BY <1>1, <1>4, <1>5

(* A bare file holds the key of its own path.                              *)
LEMMA BareIsOwn ==
    ASSUME KeyFilesInv, NEW h \in Hosts, NEW n \in NameSet, files[h][n].form = "bare"
    PROVE  files[h][n].key = <<h, n>>
<1>1. PICK f : f = files[h][n]
  OBVIOUS
<1>2. f = Bare(h, n) \/ SealedSomewhere(f)
  BY <1>1 DEF KeyFilesInv
<1>3. SealedSomewhere(f) => f.form = "sealed"
  <2>1. SealedByHost(f) => f.form = "sealed"
    BY DEF SealedByHost, SealedAs
  <2>2. SealedForImage(f) => f.form = "sealed"
    BY DEF SealedForImage, NitroFile
  <2> QED BY <2>1, <2>2 DEF SealedSomewhere
<1> QED BY <1>1, <1>2, <1>3 DEF Bare

(* The file to rename was opened once: it is the host's own, whatever      *)
(* layers the sealer really made.                                          *)
LEMMA SealSteps ==
    ASSUME KeyStoreInv, AtFile("next"), NEW layers, SealKeysSeal(cmd.host, Names[cmd.i], layers)
    PROVE  KeyStoreInv'
<1>1. PICK h \in Hosts, i \in Nat :
          cmd = [at |-> "next", host |-> h, i |-> i] /\ hostSealer(h, machine[h]) # {}
  BY NextIs DEF KeyStoreInv, AtFile, AtNext
<1>2. i \in DOMAIN Names /\ cmd.host = h /\ cmd.i = i
  BY <1>1 DEF AtFile
<1> DEFINE n == Names[i]
           kind == CHOOSE kind \in TEESealer(h) : TRUE
           f == SealSecretWith(files[h][n].key, layers, kind, family[h], machine[h].image, n)
<1>3. /\ files[h][n].form = "bare"
      /\ cmd' = IF OpenSecretWith(f, h, machine[h], kind, n) # {}
                THEN [at |-> "rename", host |-> h, i |-> i, temp |-> f] ELSE Idle
      /\ UNCHANGED <<family, machine, files, tampered, misdirected, escrow, recovery, published, reported>>
  BY <1>2 DEF SealKeysSeal, diskVars, escrowVars
<1>4. CASE OpenSecretWith(f, h, machine[h], kind, n) # {}
  <2>1. layers = SealerFor(h, machine[h], kind)
    BY <1>4 DEF OpenSecretWith, Unseal, SealSecretWith, Seal
  <2>2. files[h][n].key = <<h, n>>
    <3>1. n \in NameSet
      BY <1>2 DEF NameSet
    <3> QED BY <3>1, <1>3, BareIsOwn DEF KeyStoreInv
  <2>3. kind \in hostSealer(h, machine[h])
    BY <1>1 DEF TEESealer
  <2>4. machine[h] \in Setups
    BY DEF KeyStoreInv
  <2> HIDE DEF kind
  <2>5. SealedFor(f, h, n)
    <3>1. PICK m \in AnySetting : /\ m.image = machine[h].image /\ hostSealer(h, m) = hostSealer(h, machine[h])
                                  /\ SealerFor(h, m, kind) = SealerFor(h, machine[h], kind)
      BY <2>4, SettingOf
    <3>2. f = SealedAs(h, n, m, kind, family[h], n)
      BY <3>1, <2>1, <2>2 DEF SealSecretWith, SealedAs
    <3> QED BY <3>1, <3>2, <2>3 DEF SealedFor
  <2>6. PICK temp : temp = f
    OBVIOUS
  <2>7. cmd' = [at |-> "rename", host |-> h, i |-> i, temp |-> temp] /\ SealedFor(temp, h, n)
    BY <1>3, <1>4, <2>5, <2>6 DEF kind
  <2>8. SealedFor(temp, h, n)' /\ hostSealer(h, machine[h])' # {}
    <3>1. hostSealer(h, machine[h])' = hostSealer(h, machine[h])
      BY <1>3 DEF hostSealer
    <3> QED BY <3>1, <2>7, <1>1, <1>3, SealedStays
  <2>9. CommandInv'
    BY <2>7, <2>8, <1>2 DEF CommandInv, AtRename, Renaming
  <2> QED BY <1>3, <2>9, KeyFilesStay, EscrowStays DEF KeyStoreInv
<1>5. CASE ~(OpenSecretWith(f, h, machine[h], kind, n) # {})
  <2>1. cmd' = Idle
    BY <1>3, <1>5
  <2> QED BY <1>3, <2>1, IdleKept, KeyFilesStay, EscrowStays DEF KeyStoreInv
<1> QED BY <1>4, <1>5

(* What h's own sealed file is, is sealed somewhere.                        *)
LEMMA OwnIsSomewhere ==
    ASSUME NEW f, NEW h \in Hosts, NEW n \in NameSet, SealedFor(f, h, n)
    PROVE  SealedSomewhere(f)
BY DEF SealedFor, SealedSomewhere, SealedByHost

(* One file put in place, and what is excepted only growing.                *)
LEMMA FilePutInPlace ==
    ASSUME KeyFilesInv, family' = family, NEW h \in Hosts, NEW n \in NameSet, NEW f,
           files' = [files EXCEPT ![h][n] = f], SealedSomewhere(f),
           tampered \subseteq tampered', misdirected \subseteq misdirected',
           \/ SealedFor(f, h, n)
           \/ <<h, n>> \in tampered' \cup misdirected'
    PROVE  KeyFilesInv'
<1>1. DOMAIN files = Hosts /\ \A g \in Hosts : DOMAIN files[g] = NameSet
  BY DEF KeyFilesInv
<1>2. DOMAIN files' = Hosts /\ \A g \in Hosts : DOMAIN files'[g] = NameSet
  BY <1>1
<1>3. \A g \in Hosts, x \in NameSet : files'[g][x] = IF g = h /\ x = n THEN f ELSE files[g][x]
  BY <1>1
<1>4. ASSUME NEW g \in Hosts, NEW x \in NameSet
      PROVE  /\ files'[g][x] = Bare(g, x) \/ SealedSomewhere(files[g][x])'
             /\ <<g, x>> \notin tampered' \cup misdirected' =>
                    files'[g][x] = Bare(g, x) \/ SealedFor(files[g][x], g, x)'
  <2>1. PICK now : now = files'[g][x]
    OBVIOUS
  <2>2. /\ SealedSomewhere(now)' <=> SealedSomewhere(now)
        /\ SealedFor(now, g, x)' <=> SealedFor(now, g, x)
    BY SealedStays
  <2>3. now = Bare(g, x) \/ SealedSomewhere(now)
    BY <1>3, <2>1 DEF KeyFilesInv
  <2>4. <<g, x>> \notin tampered' \cup misdirected' => now = Bare(g, x) \/ SealedFor(now, g, x)
    <3>1. CASE g = h /\ x = n
      BY <1>3, <2>1, <3>1
    <3>2. CASE ~(g = h /\ x = n)
      <4>1. now = files[g][x]
        BY <1>3, <2>1, <3>2
      <4>2. <<g, x>> \notin tampered' \cup misdirected' => <<g, x>> \notin tampered \cup misdirected
        OBVIOUS
      <4> QED BY <4>1, <4>2 DEF KeyFilesInv
    <3> QED BY <3>1, <3>2
  <2> QED BY <2>1, <2>2, <2>3, <2>4
<1> QED BY <1>2, <1>4 DEF KeyFilesInv, Bare

LEMMA RenameSteps ==
    ASSUME KeyStoreInv, AtFile("rename"), replaceFile(cmd.host, Names[cmd.i])
    PROVE  KeyStoreInv'
<1>0. PICK h \in Hosts, i \in DOMAIN Names : \E temp : Renaming(h, i, temp)
  <2>1. AtRename
    BY CommandsApart DEF KeyStoreInv, AtFile, CommandInv
  <2> QED BY <2>1 DEF AtRename
<1>1. PICK temp : Renaming(h, i, temp)
  BY <1>0
<1> DEFINE n == Names[i]
<1>2. /\ files' = [files EXCEPT ![h][n] = temp]
      /\ cmd' = [at |-> "next", host |-> h, i |-> i + 1]
      /\ UNCHANGED <<family, machine, tampered, misdirected, escrow, recovery, published, reported>>
  BY <1>1 DEF replaceFile, escrowVars, Renaming
<1>3. n \in NameSet
  BY DEF NameSet
<1>4. KeyFilesInv'
  <2>1. SealedFor(temp, h, n) /\ SealedSomewhere(temp)
    BY <1>1, <1>3, OwnIsSomewhere DEF Renaming
  <2> HIDE DEF n
  <2> QED BY <2>1, <1>2, <1>3, FilePutInPlace DEF KeyStoreInv
<1>5. CommandInv'
  <2>1. hostSealer(h, machine[h])' = hostSealer(h, machine[h])
    BY <1>2 DEF hostSealer
  <2>2. i + 1 \in Nat /\ hostSealer(h, machine[h]) # {}
    BY <1>1 DEF Renaming
  <2> QED BY <1>2, <2>1, <2>2 DEF CommandInv, AtNext
<1> QED BY <1>2, <1>4, <1>5, EscrowStays DEF KeyStoreInv

(* The Nitro command, file after file.                                     *)
LEMMA NitroStartSteps ==
    ASSUME KeyStoreInv, NEW h \in Hosts, NEW pcr0 \in Images \union {NoImage}, NEW kms \in KMSKeys,
           sealNitroKeys(h, pcr0, kms)
    PROVE  KeyStoreInv'
<1>1. /\ cmd' = [at |-> "nitro", host |-> h, i |-> 1, pcr0 |-> pcr0, kms |-> kms]
      /\ family[h] = "aws-nitro" /\ (kms = "usable" => pcr0 \in Images)
      /\ UNCHANGED <<family, machine, files, tampered, misdirected, escrow, recovery, published, reported>>
  BY DEF sealNitroKeys, diskVars, escrowVars
<1>2. Nitro(h, 1, pcr0, kms)'
  BY <1>1 DEF Nitro
<1>3. CommandInv'
  BY <1>2 DEF CommandInv, AtNitro
<1> QED BY <1>1, <1>3, KeyFilesStay, EscrowStays DEF KeyStoreInv

LEMMA NitroIs ==
    ASSUME CommandInv, cmd.at = "nitro"
    PROVE  AtNitro
BY CommandsApart DEF CommandInv

LEMMA NitroKeepSteps ==
    ASSUME KeyStoreInv, AtFile("nitro"), NitroKeep(cmd.host, Names[cmd.i])
    PROVE  KeyStoreInv'
<1>1. /\ cmd' = [cmd EXCEPT !.i = @ + 1] \/ cmd' = Idle
      /\ UNCHANGED <<family, machine, files, tampered, misdirected, escrow, recovery, published, reported>>
  BY DEF NitroKeep, diskVars, escrowVars
<1>2. PICK h \in Hosts, i \in Nat, kms \in KMSKeys : \E pcr0 : Nitro(h, i, pcr0, kms)
  BY NitroIs DEF KeyStoreInv, AtFile, AtNitro
<1>3. PICK pcr0 : Nitro(h, i, pcr0, kms)
  BY <1>2
<1>4. CASE cmd' = [cmd EXCEPT !.i = @ + 1]
  <2>1. /\ cmd' = [at |-> "nitro", host |-> h, i |-> i + 1, pcr0 |-> pcr0, kms |-> kms]
        /\ i + 1 \in Nat
    BY <1>3, <1>4 DEF Nitro
  <2>2. Nitro(h, i + 1, pcr0, kms)'
    BY <2>1, <1>1, <1>3 DEF Nitro
  <2>3. CommandInv'
    BY <2>1, <2>2 DEF CommandInv, AtNitro
  <2> QED BY <1>1, <2>3, KeyFilesStay, EscrowStays DEF KeyStoreInv
<1>5. CASE cmd' = Idle
  BY <1>1, <1>5, IdleKept, KeyFilesStay, EscrowStays DEF KeyStoreInv
<1> QED BY <1>1, <1>4, <1>5

(* What is sealed for an image that is there, under a usable key, is a file *)
(* its own enclave opens.                                                  *)
LEMMA NitroSealSteps ==
    ASSUME KeyStoreInv, AtFile("nitro"), NitroSeal(cmd.host, Names[cmd.i])
    PROVE  KeyStoreInv'
<1>1. PICK h \in Hosts, i \in Nat, kms \in KMSKeys : \E pcr0 : Nitro(h, i, pcr0, kms)
  BY NitroIs DEF KeyStoreInv, AtFile, AtNitro
<1>2. PICK pcr0 : Nitro(h, i, pcr0, kms)
  BY <1>1
<1>3. /\ i \in DOMAIN Names /\ cmd.host = h /\ cmd.i = i /\ cmd.pcr0 = pcr0 /\ cmd.kms = kms
      /\ family[h] = "aws-nitro" /\ (kms = "usable" => pcr0 \in Images)
  BY <1>2 DEF AtFile, Nitro
<1> DEFINE n == Names[i]
           layers == IF kms = "usable" THEN {nitroLayer(pcr0)} ELSE {}
<1>4. PICK temp : temp = SealSecretWith(files[h][n].key, layers, "aws-kms-attested", "aws-nitro", pcr0, n)
  OBVIOUS
<1>5. /\ files[h][n].form = "bare"
      /\ \/ cmd' = [at |-> "nitro rename", host |-> h, i |-> i, pcr0 |-> pcr0, kms |-> kms, temp |-> temp]
         \/ cmd' = Idle
      /\ UNCHANGED <<family, machine, files, tampered, misdirected, escrow, recovery, published, reported>>
  BY <1>3, <1>4 DEF NitroSeal, diskVars, escrowVars
<1>6. n \in NameSet
  BY <1>3 DEF NameSet
<1>7. files[h][n].key = <<h, n>>
  BY <1>5, <1>6, BareIsOwn DEF KeyStoreInv
<1>8. temp = NitroFile(h, n, pcr0, layers, family[h], n)
  BY <1>3, <1>4, <1>7 DEF SealSecretWith, NitroFile
<1> HIDE DEF n
<1>9. SealedForImage(temp)
  BY <1>6, <1>8 DEF SealedForImage
<1>10. ASSUME kms = "usable" PROVE SealedFor(temp, h, n)
  <2>1. machine[h] \in Setups
    BY DEF KeyStoreInv
  <2>2. PICK m \in AnySetting :
            m = [image |-> pcr0, boot |-> machine[h].boot, mode |-> "auto", escrowPath |-> "unset"]
    BY <2>1, <1>3, <1>10 DEF Setups, AnySetting, Modes
  <2>3. "aws-kms-attested" \in hostSealer(h, m)
    BY <2>2, <1>3 DEF hostSealer, SealerKindForProvider
  <2>4. m.image = pcr0 /\ SealerFor(h, m, "aws-kms-attested") = layers
    BY <2>2, <1>10 DEF SealerFor
  <2>5. temp = SealedAs(h, n, m, "aws-kms-attested", family[h], n)
    BY <2>4, <1>8 DEF NitroFile, SealedAs
  <2> QED BY <2>3, <2>5 DEF SealedFor
<1>11. CASE cmd' = [at |-> "nitro rename", host |-> h, i |-> i, pcr0 |-> pcr0, kms |-> kms, temp |-> temp]
  <2>1. SealedForImage(temp)' /\ (kms = "usable" => SealedFor(temp, h, n)')
    BY <1>5, <1>9, <1>10, SealedStays
  <2>2. NitroRenaming(h, i, pcr0, kms, temp)'
    BY <2>1, <1>3, <1>5, <1>11 DEF NitroRenaming, n
  <2>3. CommandInv'
    BY <2>2, <1>3 DEF CommandInv, AtNitroRename
  <2> QED BY <1>5, <2>3, KeyFilesStay, EscrowStays DEF KeyStoreInv
<1>12. CASE cmd' = Idle
  BY <1>5, <1>12, IdleKept, KeyFilesStay, EscrowStays DEF KeyStoreInv
<1> QED BY <1>5, <1>11, <1>12

LEMMA NextInNat == \A i \in Nat : i + 1 \in Nat
OBVIOUS

LEMMA NitroReplaceSteps ==
    ASSUME KeyStoreInv, AtFile("nitro rename"), NitroReplace(cmd.host, Names[cmd.i])
    PROVE  KeyStoreInv'
<1>1. PICK h \in Hosts, i \in DOMAIN Names, kms \in KMSKeys :
          \E pcr0, temp : NitroRenaming(h, i, pcr0, kms, temp)
  <2>1. AtNitroRename
    BY CommandsApart DEF KeyStoreInv, AtFile, CommandInv
  <2> QED BY <2>1 DEF AtNitroRename
<1>2. PICK pcr0, temp : NitroRenaming(h, i, pcr0, kms, temp)
  BY <1>1
<1> DEFINE n == Names[i]
<1>3. /\ files' = [files EXCEPT ![h][n] = temp]
      /\ misdirected' = IF kms = "usable" THEN misdirected ELSE misdirected \union {<<h, n>>}
      /\ cmd' = [at |-> "nitro", host |-> h, i |-> i + 1, pcr0 |-> pcr0, kms |-> kms]
      /\ UNCHANGED <<family, machine, tampered, escrow, recovery, published, reported>>
  BY <1>2 DEF NitroReplace, escrowVars, NitroRenaming
<1>4. n \in NameSet
  BY DEF NameSet
<1>5. KeyFilesInv'
  <2>1. SealedSomewhere(temp) /\ (kms = "usable" => SealedFor(temp, h, n))
    BY <1>2 DEF NitroRenaming, SealedSomewhere
  <2> HIDE DEF n
  <2>2. kms # "usable" => <<h, n>> \in misdirected'
    BY <1>3
  <2>3. misdirected \subseteq misdirected'
    BY <1>3
  <2> QED BY <2>1, <2>2, <2>3, <1>3, <1>4, FilePutInPlace DEF KeyStoreInv
<1>6. CommandInv'
  <2>2. /\ i + 1 \in Nat /\ family'[h] = "aws-nitro" /\ (kms = "usable" => pcr0 \in Images)
        /\ cmd' = [at |-> "nitro", host |-> h, i |-> i + 1, pcr0 |-> pcr0, kms |-> kms]
    <3>1. i \in Nat /\ family[h] = "aws-nitro" /\ (kms = "usable" => pcr0 \in Images)
      BY <1>2, Zenon DEF NitroRenaming
    <3>2. i + 1 \in Nat
      BY <3>1, NextInNat, Zenon
    <3>3. family' = family
      BY <1>3
    <3> QED BY <3>1, <3>2, <3>3, <1>3, Zenon
  <2>1. Nitro(h, i + 1, pcr0, kms)' /\ i + 1 \in Nat
    BY <2>2 DEF Nitro
  <2> QED BY <2>1 DEF CommandInv, AtNitro
<1> QED BY <1>3, <1>5, <1>6, EscrowStays DEF KeyStoreInv

-----------------------------------------------------------------------------
(* escrow-provision.                                                       *)

(* A key is sealed on a host that has a sealer, and the file opens there.   *)
LEMMA ProvisionStartSteps ==
    ASSUME KeyStoreInv, NEW h \in Hosts, NEW k \in 1 .. MaxProvisions, NEW out \in Paths,
           NEW rec \in Paths \cup {"none"}, ProvisionStart(h, k, out, rec)
    PROVE  KeyStoreInv'
<1> DEFINE kind == CHOOSE kind \in TEESealer(h) : TRUE
<1>1. PICK sealed : sealed = SealKey(k, h, machine[h], kind)
  OBVIOUS
<1>2. /\ cmd' = [at |-> "out", host |-> h, key |-> k, sealed |-> sealed, out |-> out, rec |-> rec]
      /\ kind \in hostSealer(h, machine[h])
      /\ UNCHANGED <<family, machine, files, tampered, misdirected, escrow, recovery, published, reported>>
  BY <1>1 DEF ProvisionStart, TEESealer, diskVars
<1> HIDE DEF kind
<1>3. HoldsKey(sealed, h, k)
  <2>1. machine[h] \in Setups
    BY DEF KeyStoreInv
  <2>2. PICK m \in AnySetting : /\ m.image = machine[h].image /\ hostSealer(h, m) = hostSealer(h, machine[h])
                                /\ SealerFor(h, m, kind) = SealerFor(h, machine[h], kind)
    BY <2>1, SettingOf
  <2>3. sealed = SealKey(k, h, m, kind)
    BY <1>1, <2>2 DEF SealKey
  <2> QED BY <1>2, <2>2, <2>3 DEF HoldsKey
<1>4. Writing("out", h, k, out, rec, sealed)'
  <2>1. sealed.form = "sealed"
    BY <1>1 DEF SealKey
  <2>2. HoldsKey(sealed, h, k)'
    BY <1>2, <1>3, SealedStays
  <2> QED BY <1>2, <2>1, <2>2 DEF Writing
<1>5. CommandInv'
  BY <1>4 DEF CommandInv, Provisioning
<1> QED BY <1>2, <1>5, KeyFilesStay, EscrowStays DEF KeyStoreInv

(* What escrow-provision has in hand between two of its writes.            *)
LEMMA ProvisioningIs ==
    ASSUME CommandInv, cmd.at \in {"out", "pub", "recovery"}
    PROVE  Provisioning
BY CommandsApart DEF CommandInv

(* A file once written is written over by nobody, so that what was         *)
(* published stays where it was published.                                 *)
LEMMA WrittenOnce ==
    ASSUME EscrowInv, NEW h \in Hosts, NEW p \in Paths, NEW s,
           escrow[h][p].form = "none", escrow' = [escrow EXCEPT ![h][p] = s],
           UNCHANGED <<family, recovery, reported>>
    PROVE  /\ DOMAIN escrow' = Hosts /\ \A g \in Hosts : DOMAIN escrow'[g] = Paths
           /\ \A k \in 1 .. MaxProvisions :
                 published[k] # NoKey =>
                     \E g \in Hosts, q \in Paths :
                         published[k] = <<g, q>> /\ HoldsKey(escrow[g][q], g, k)'
           /\ \A g \in Hosts, q \in Paths : escrow[g][q].form # "none" => escrow'[g][q] = escrow[g][q]
           /\ escrow'[h][p] = s
<1>1. DOMAIN escrow = Hosts /\ \A g \in Hosts : DOMAIN escrow[g] = Paths
  BY DEF EscrowInv
<1>2. DOMAIN escrow' = Hosts /\ \A g \in Hosts : DOMAIN escrow'[g] = Paths
  BY <1>1
<1>3. /\ \A g \in Hosts, q \in Paths : escrow[g][q].form # "none" => escrow'[g][q] = escrow[g][q]
      /\ escrow'[h][p] = s
  BY <1>1
<1>4. ASSUME NEW k \in 1 .. MaxProvisions, published[k] # NoKey
      PROVE  \E g \in Hosts, q \in Paths : published[k] = <<g, q>> /\ HoldsKey(escrow[g][q], g, k)'
  <2>1. PICK g \in Hosts, q \in Paths : published[k] = <<g, q>> /\ HoldsKey(escrow[g][q], g, k)
    BY <1>4 DEF EscrowInv
  <2>2. PICK f : f = escrow[g][q]
    OBVIOUS
  <2>3. HoldsKey(f, g, k) /\ f.form # "none"
    <3>1. HoldsKey(f, g, k)
      BY <2>1, <2>2
    <3> QED BY <3>1 DEF HoldsKey, SealKey
  <2>4. HoldsKey(f, g, k)' /\ f = escrow'[g][q]
    BY <2>2, <2>3, <1>3, SealedStays
  <2>5. HoldsKey(escrow[g][q], g, k)'
    BY <2>4
  <2> QED BY <2>1, <2>5
<1> QED BY <1>2, <1>3, <1>4

LEMMA ProvisionOutSteps ==
    ASSUME KeyStoreInv, ProvisionOut
    PROVE  KeyStoreInv'
<1>1. PICK at \in {"out", "pub", "recovery"}, h \in Hosts, k \in 1 .. MaxProvisions, out \in Paths,
           rec \in Paths \cup {"none"} : \E sealed : Writing(at, h, k, out, rec, sealed)
  BY ProvisioningIs DEF ProvisionOut, KeyStoreInv, Provisioning
<1>2. PICK sealed : Writing(at, h, k, out, rec, sealed)
  BY <1>1
<1>3. /\ cmd.at = "out" /\ cmd.host = h /\ cmd.out = out /\ cmd.sealed = sealed
      /\ cmd = [at |-> "out", host |-> h, key |-> k, sealed |-> sealed, out |-> out, rec |-> rec]
  BY <1>2 DEF ProvisionOut, Writing
<1>4. UNCHANGED <<family, machine, files, tampered, misdirected, recovery, published, reported>>
  BY DEF ProvisionOut, diskVars
<1>5. CASE escrow[h][out].form = "none"
  <2>1. /\ escrow' = [escrow EXCEPT ![h][out] = sealed]
        /\ cmd' = [at |-> "pub", host |-> h, key |-> k, sealed |-> sealed, out |-> out, rec |-> rec]
    BY <1>3, <1>5 DEF ProvisionOut, writeExclusive
  <2>2. /\ DOMAIN escrow' = Hosts /\ \A g \in Hosts : DOMAIN escrow'[g] = Paths
        /\ \A x \in 1 .. MaxProvisions :
              published[x] # NoKey =>
                  \E g \in Hosts, q \in Paths :
                      published[x] = <<g, q>> /\ HoldsKey(escrow[g][q], g, x)'
        /\ escrow'[h][out] = sealed
    BY <2>1, <1>4, <1>5, WrittenOnce DEF KeyStoreInv
  <2>3. EscrowInv'
    BY <2>2, <1>4 DEF KeyStoreInv, EscrowInv, NoKey, WrapRecovery
  <2>4. Writing("pub", h, k, out, rec, sealed)'
    <3>1. HoldsKey(sealed, h, k)' /\ sealed.form = "sealed"
      BY <1>2, <1>4, SealedStays DEF Writing
    <3> QED BY <2>1, <2>2, <3>1 DEF Writing
  <2>5. CommandInv'
    BY <2>4 DEF CommandInv, Provisioning
  <2> QED BY <1>4, <2>3, <2>5, KeyFilesStay DEF KeyStoreInv
<1>6. CASE escrow[h][out].form # "none"
  <2>1. cmd' = Idle /\ escrow' = escrow
    BY <1>3, <1>6 DEF ProvisionOut, writeExclusive
  <2> QED BY <1>4, <2>1, IdleKept, KeyFilesStay, EscrowStays DEF KeyStoreInv
<1> QED BY <1>5, <1>6

LEMMA ProvisionPubSteps ==
    ASSUME KeyStoreInv, ProvisionPub
    PROVE  KeyStoreInv'
<1>1. PICK at \in {"out", "pub", "recovery"}, h \in Hosts, k \in 1 .. MaxProvisions, out \in Paths,
           rec \in Paths \cup {"none"} : \E sealed : Writing(at, h, k, out, rec, sealed)
  BY ProvisioningIs DEF ProvisionPub, KeyStoreInv, Provisioning
<1>2. PICK sealed : Writing(at, h, k, out, rec, sealed)
  BY <1>1
<1>3. cmd = [at |-> "pub", host |-> h, key |-> k, sealed |-> sealed, out |-> out, rec |-> rec]
  BY <1>2 DEF ProvisionPub, Writing
<1>4. /\ published' = [published EXCEPT ![k] = IF @ = NoKey THEN <<h, out>> ELSE @]
      /\ cmd' = IF rec \in Paths THEN [cmd EXCEPT !.at = "recovery"] ELSE Idle
      /\ UNCHANGED <<family, machine, files, tampered, misdirected, escrow, recovery, reported>>
  BY <1>3 DEF ProvisionPub, diskVars
<1>5. HoldsKey(sealed, h, k) /\ sealed.form = "sealed" /\ escrow[h][out] = sealed
  BY <1>2, <1>3 DEF Writing
<1>6. EscrowInv'
  <2>1. DOMAIN published = 1 .. MaxProvisions
    BY DEF KeyStoreInv, EscrowInv
  <2>2. \A x \in 1 .. MaxProvisions :
            published'[x] = IF x = k /\ published[k] = NoKey THEN <<h, out>> ELSE published[x]
    BY <1>4, <2>1
  <2>3. ASSUME NEW x \in 1 .. MaxProvisions, published'[x] # NoKey
        PROVE  \E g \in Hosts, q \in Paths : published'[x] = <<g, q>> /\ HoldsKey(escrow[g][q], g, x)
    BY <2>2, <2>3, <1>5 DEF KeyStoreInv, EscrowInv
  <2>4. \A g \in Hosts, q \in Paths, x \in 1 .. MaxProvisions :
            HoldsKey(escrow[g][q], g, x) => HoldsKey(escrow[g][q], g, x)'
    <3> SUFFICES ASSUME NEW g \in Hosts, NEW q \in Paths, NEW x \in 1 .. MaxProvisions,
                        HoldsKey(escrow[g][q], g, x)
                 PROVE  HoldsKey(escrow[g][q], g, x)'
      OBVIOUS
    <3>1. PICK f : f = escrow[g][q]
      OBVIOUS
    <3> QED BY <3>1, <1>4, SealedStays
  <2>5. DOMAIN published' = 1 .. MaxProvisions
    BY <1>4, <2>1
  <2> QED BY <2>3, <2>4, <2>5, <1>4 DEF KeyStoreInv, EscrowInv, NoKey, WrapRecovery
<1>7. CommandInv'
  <2>1. CASE rec \in Paths
    <3>1. cmd' = [at |-> "recovery", host |-> h, key |-> k, sealed |-> sealed, out |-> out, rec |-> rec]
      BY <2>1, <1>3, <1>4
    <3>2. HoldsKey(sealed, h, k)'
      BY <1>4, <1>5, SealedStays
    <3>3. Writing("recovery", h, k, out, rec, sealed)'
      BY <3>1, <3>2, <1>5, <2>1 DEF Writing
    <3> QED BY <3>3 DEF CommandInv, Provisioning
  <2>2. CASE rec \notin Paths
    BY <2>2, <1>4, IdleKept
  <2> QED BY <2>1, <2>2
<1> QED BY <1>4, <1>6, <1>7, KeyFilesStay DEF KeyStoreInv

LEMMA ProvisionRecoverySteps ==
    ASSUME KeyStoreInv, ProvisionRecovery
    PROVE  KeyStoreInv'
<1>1. PICK at \in {"out", "pub", "recovery"}, h \in Hosts, k \in 1 .. MaxProvisions, out \in Paths,
           rec \in Paths \cup {"none"} : \E sealed : Writing(at, h, k, out, rec, sealed)
  BY ProvisioningIs DEF ProvisionRecovery, KeyStoreInv, Provisioning
<1>2. rec \in Paths /\ cmd.rec = rec /\ cmd.key = k
  BY <1>1 DEF ProvisionRecovery, Writing
<1>3. cmd' = Idle /\ UNCHANGED <<family, machine, files, tampered, misdirected, escrow, published>>
  BY DEF ProvisionRecovery, diskVars
<1>4. CASE recovery[rec].form = "none"
  <2>1. recovery' = [recovery EXCEPT ![rec] = WrapRecovery(k)] /\ reported' = reported \union {k}
    BY <1>2, <1>4 DEF ProvisionRecovery, writeExclusive
  <2>2. DOMAIN recovery = Paths
    BY DEF KeyStoreInv, EscrowInv
  <2>3. /\ DOMAIN recovery' = Paths /\ recovery'[rec] = WrapRecovery(k)
        /\ \A p \in Paths : p # rec => recovery'[p] = recovery[p]
    BY <1>2, <2>1, <2>2
  <2>4. \A x \in reported' : \E p \in Paths : recovery'[p] = WrapRecovery(x)
    <3>1. \A x : WrapRecovery(x).form # "none"
      BY DEF WrapRecovery
    <3> QED BY <3>1, <1>2, <1>4, <2>1, <2>3 DEF KeyStoreInv, EscrowInv
  <2>5. EscrowInv'
    BY <2>3, <2>4, <1>3, SealedStays DEF KeyStoreInv, EscrowInv, NoKey, WrapRecovery
  <2> QED BY <1>3, <2>5, IdleKept, KeyFilesStay DEF KeyStoreInv
<1>5. CASE recovery[rec].form # "none"
  <2>1. UNCHANGED <<recovery, reported>>
    BY <1>2, <1>5 DEF ProvisionRecovery, writeExclusive
  <2> QED BY <1>3, <2>1, IdleKept, KeyFilesStay, EscrowStays DEF KeyStoreInv
<1> QED BY <1>4, <1>5

LEMMA KeygenSteps ==
    ASSUME KeyStoreInv, NEW h \in Hosts, NEW out \in Paths, EscrowKeygen(h, out)
    PROVE  KeyStoreInv'
<1>1. PICK k, s : k = made + 1 /\ s = [form |-> "plaintext", key |-> k]
  OBVIOUS
<1>2. /\ escrow[h][out].form = "none" /\ escrow' = [escrow EXCEPT ![h][out] = s]
      /\ published' = [published EXCEPT ![k] = <<h, out>>]
      /\ cmd' = Idle /\ UNCHANGED <<family, machine, files, tampered, misdirected, recovery, reported>>
  BY <1>1 DEF EscrowKeygen, Command, writeExclusive, diskVars
<1>3. /\ DOMAIN escrow' = Hosts /\ \A g \in Hosts : DOMAIN escrow'[g] = Paths
      /\ \A x \in 1 .. MaxProvisions :
            published[x] # NoKey =>
                \E g \in Hosts, q \in Paths : published[x] = <<g, q>> /\ HoldsKey(escrow[g][q], g, x)'
      /\ escrow'[h][out] = s
  BY <1>2, WrittenOnce DEF KeyStoreInv
<1>4. HoldsKey(escrow[h][out], h, k)'
  BY <1>1, <1>3 DEF HoldsKey
<1>5. DOMAIN published = 1 .. MaxProvisions
  BY DEF KeyStoreInv, EscrowInv
<1>6. /\ DOMAIN published' = 1 .. MaxProvisions
      /\ \A x \in 1 .. MaxProvisions : published'[x] = IF x = k THEN <<h, out>> ELSE published[x]
  BY <1>2, <1>5
<1>7. EscrowInv'
  BY <1>2, <1>3, <1>4, <1>6 DEF KeyStoreInv, EscrowInv, NoKey, WrapRecovery
<1> QED BY <1>2, <1>7, IdleKept, KeyFilesStay DEF KeyStoreInv

-----------------------------------------------------------------------------
(* What happens to the machines and the disks.                             *)

LEMMA QuietKeyStore ==
    ASSUME KeyStoreInv, cmd' = Idle \/ UNCHANGED <<machine, cmd>>, machine' \in [Hosts -> Setups],
           UNCHANGED <<family, files, tampered, misdirected, escrow, recovery, published, reported>>
    PROVE  KeyStoreInv'
BY IdleKept, CommandStays, KeyFilesStay, EscrowStays DEF KeyStoreInv

LEMMA ReconfigureSteps ==
    ASSUME KeyStoreInv, NEW h \in Hosts, NEW m \in Settings(h), Reconfigure(h, m)
    PROVE  KeyStoreInv'
<1>1. machine[h] \in Setups
  BY DEF KeyStoreInv
<1>2. m \in Setups
  BY <1>1 DEF Settings, Setups
<1>3. machine' \in [Hosts -> Setups]
  BY <1>2 DEF Reconfigure, KeyStoreInv
<1> QED BY <1>3, QuietKeyStore DEF Reconfigure, diskVars, escrowVars

(* A sealed file whose clear fields are edited is the same file but for     *)
(* them.                                                                   *)
Relabel(f, name, tee) == [f EXCEPT !.name = name, !.tee = tee]

LEMMA RelabelledByHost ==
    ASSUME NEW f, SealedByHost(f), NEW n2, n2 \in NameSet, NEW to, to \in Hosts
    PROVE  SealedByHost(Relabel(f, n2, family[to]))
<1>1. PICK on, of, run, by, at, n1 :
          /\ on \in Hosts /\ of \in NameSet /\ run \in AnySetting /\ at \in Hosts /\ n1 \in NameSet
          /\ by \in hostSealer(on, run) /\ f = SealedAs(on, of, run, by, family[at], n1)
  BY DEF SealedByHost
<1>2. PICK b, i, t1, t2 :
        /\ i = run.image /\ t1 = family[at] /\ t2 = family[to]
        /\ b = Seal(SealerFor(on, run, by), <<on, of>>, sealedSecretAAD(family[on], run.image, of, by))
  OBVIOUS
<1>3. PICK s : s = [form |-> "sealed", tee |-> t1, measurement |-> i, sealer |-> by, name |-> n2, box |-> b]
  OBVIOUS
<1>4. f = [form |-> "sealed", tee |-> t1, measurement |-> i, sealer |-> by, name |-> n1, box |-> b]
  BY <1>1, <1>2 DEF SealedAs
<1>5. [f EXCEPT !.name = n2] = s
  BY <1>3, <1>4
<1>6. [s EXCEPT !.tee = t2] =
          [form |-> "sealed", tee |-> t2, measurement |-> i, sealer |-> by, name |-> n2, box |-> b]
  BY <1>3
<1>7. [f EXCEPT !.name = n2, !.tee = t2] = [[f EXCEPT !.name = n2] EXCEPT !.tee = t2]
  OBVIOUS
<1>8. SealedAs(on, of, run, by, t2, n2) =
          [form |-> "sealed", tee |-> t2, measurement |-> i, sealer |-> by, name |-> n2, box |-> b]
  BY <1>2 DEF SealedAs
<1>9. Relabel(f, n2, t2) = SealedAs(on, of, run, by, t2, n2)
  BY <1>5, <1>6, <1>7, <1>8 DEF Relabel
<1>10. Relabel(f, n2, family[to]) = SealedAs(on, of, run, by, family[to], n2)
  BY <1>2, <1>9
<1> QED BY <1>1, <1>10 DEF SealedByHost

LEMMA RelabelledForImage ==
    ASSUME NEW f, SealedForImage(f), NEW n2, n2 \in NameSet, NEW to, to \in Hosts
    PROVE  SealedForImage(Relabel(f, n2, family[to]))
<1>1. PICK on, of, at, n1, i, layers :
          /\ on \in Hosts /\ of \in NameSet /\ at \in Hosts /\ n1 \in NameSet
          /\ f = NitroFile(on, of, i, layers, family[at], n1)
  BY DEF SealedForImage
<1>2. PICK b, t1, t2, by :
        /\ t1 = family[at] /\ t2 = family[to] /\ by = "aws-kms-attested"
        /\ b = Seal(layers, <<on, of>>, sealedSecretAAD(family[on], i, of, "aws-kms-attested"))
  OBVIOUS
<1>3. PICK s : s = [form |-> "sealed", tee |-> t1, measurement |-> i, sealer |-> by, name |-> n2, box |-> b]
  OBVIOUS
<1>4. f = [form |-> "sealed", tee |-> t1, measurement |-> i, sealer |-> by, name |-> n1, box |-> b]
  BY <1>1, <1>2 DEF NitroFile
<1>5. [f EXCEPT !.name = n2] = s
  BY <1>3, <1>4
<1>6. [s EXCEPT !.tee = t2] =
          [form |-> "sealed", tee |-> t2, measurement |-> i, sealer |-> by, name |-> n2, box |-> b]
  BY <1>3
<1>7. [f EXCEPT !.name = n2, !.tee = t2] = [[f EXCEPT !.name = n2] EXCEPT !.tee = t2]
  OBVIOUS
<1>8. NitroFile(on, of, i, layers, t2, n2) =
          [form |-> "sealed", tee |-> t2, measurement |-> i, sealer |-> by, name |-> n2, box |-> b]
  BY <1>2 DEF NitroFile
<1>9. Relabel(f, n2, t2) = NitroFile(on, of, i, layers, t2, n2)
  BY <1>5, <1>6, <1>7, <1>8 DEF Relabel
<1>10. Relabel(f, n2, family[to]) = NitroFile(on, of, i, layers, family[to], n2)
  BY <1>2, <1>9
<1> QED BY <1>1, <1>10 DEF SealedForImage

LEMMA RelabelledStaysSealed ==
    ASSUME NEW f, SealedSomewhere(f), NEW n2, n2 \in NameSet, NEW to, to \in Hosts
    PROVE  SealedSomewhere(Relabel(f, n2, family[to]))
BY RelabelledByHost, RelabelledForImage DEF SealedSomewhere

(* Copied and relabelled as it may be, a sealed file stays one that was     *)
(* sealed somewhere.                                                       *)
LEMMA CopySteps ==
    ASSUME KeyStoreInv, NEW h \in Hosts, NEW n \in NameSet, NEW to \in Hosts, NEW as \in NameSet,
           NEW relabel \in BOOLEAN, CopyFile(h, n, to, as, relabel)
    PROVE  KeyStoreInv'
<1>1. PICK f : f = IF relabel THEN [files[h][n] EXCEPT !.name = as, !.tee = family[to]] ELSE files[h][n]
  OBVIOUS
<1>2. /\ cmd = Idle /\ files[h][n].form = "sealed"
      /\ files' = [files EXCEPT ![to][as] = f]
      /\ tampered' = tampered \union {<<to, as>>}
      /\ UNCHANGED <<family, machine, cmd, misdirected, escrow, recovery, published, reported>>
  BY <1>1 DEF CopyFile, escrowVars
<1>3. SealedSomewhere(f)
  <2>1. SealedSomewhere(files[h][n])
    <3>1. files[h][n] = Bare(h, n) \/ SealedSomewhere(files[h][n])
      BY DEF KeyStoreInv, KeyFilesInv
    <3> QED BY <3>1, <1>2 DEF Bare
  <2> QED BY <1>1, <2>1, RelabelledStaysSealed DEF Relabel
<1>4. KeyFilesInv'
  BY <1>2, <1>3, FilePutInPlace DEF KeyStoreInv
<1> QED BY <1>2, <1>4, IdleKept, EscrowStays DEF KeyStoreInv

LEMMA NextKeyStore == KeyStoreInv /\ [KeyStoreNext]_keyStoreVars => KeyStoreInv'
<1> SUFFICES ASSUME KeyStoreInv, [KeyStoreNext]_keyStoreVars PROVE KeyStoreInv'
  OBVIOUS
<1>1. CASE \E h \in Hosts : SealKeysStart(h) \/ runSealKeys(h)
  BY <1>1, SealStartSteps
<1>2. CASE AtFile("next") /\ SealKeysSkip(cmd.host, Names[cmd.i])
  BY <1>2, SkipSteps
<1>3. CASE AtFile("next") /\ \E broken \in BOOLEAN :
          SealKeysSeal(cmd.host, Names[cmd.i], IF broken THEN {} ELSE
              UNION {SealerFor(cmd.host, machine[cmd.host], kind) : kind \in TEESealer(cmd.host)})
  <2>1. PICK layers : SealKeysSeal(cmd.host, Names[cmd.i], layers)
    BY <1>3
  <2> QED BY <1>3, <2>1, SealSteps
<1>4. CASE AtFile("rename") /\ replaceFile(cmd.host, Names[cmd.i])
  BY <1>4, RenameSteps
<1>5. CASE \/ \E h \in Hosts, pcr0 \in Images \union {NoImage}, kms \in KMSKeys :
                 sealNitroKeys(h, pcr0, kms)
           \/ AtFile("nitro") /\ NitroKeep(cmd.host, Names[cmd.i])
           \/ AtFile("nitro") /\ NitroSeal(cmd.host, Names[cmd.i])
           \/ AtFile("nitro rename") /\ NitroReplace(cmd.host, Names[cmd.i])
  BY <1>5, NitroStartSteps, NitroKeepSteps, NitroSealSteps, NitroReplaceSteps
<1>6. CASE \E h \in Hosts, k \in 1 .. MaxProvisions, out \in Paths, rec \in Paths \union {"none"} :
          ProvisionStart(h, k, out, rec)
  BY <1>6, ProvisionStartSteps
<1>7. CASE ProvisionOut
  BY <1>7, ProvisionOutSteps
<1>8. CASE ProvisionPub
  BY <1>8, ProvisionPubSteps
<1>9. CASE ProvisionRecovery
  BY <1>9, ProvisionRecoverySteps
<1>10. CASE \E h \in Hosts, out \in Paths : EscrowKeygen(h, out)
  BY <1>10, KeygenSteps
<1>11. CASE SealKeysDone \/ Crash \/ (\E h \in Hosts : Lose(h)) \/ UNCHANGED keyStoreVars
  <2>1. /\ cmd' = Idle \/ UNCHANGED <<machine, cmd>>
        /\ UNCHANGED <<family, machine, files, tampered, misdirected, escrow, recovery, published, reported>>
    BY <1>11 DEF SealKeysDone, Crash, Lose, keyStoreVars, diskVars, escrowVars
  <2> QED BY <2>1, QuietKeyStore DEF KeyStoreInv
<1>12. CASE \E h \in Hosts : \E m \in Settings(h) : Reconfigure(h, m)
  BY <1>12, ReconfigureSteps
<1>13. CASE \E h \in Hosts, n \in NameSet, to \in Hosts, as \in NameSet, relabel \in BOOLEAN :
          CopyFile(h, n, to, as, relabel)
  BY <1>13, CopySteps
<1> QED BY <1>1, <1>2, <1>3, <1>4, <1>5, <1>6, <1>7, <1>8, <1>9, <1>10, <1>11, <1>12, <1>13
        DEF KeyStoreNext

-----------------------------------------------------------------------------
(* What opens, and what survives.                                          *)

(* Two hosts seal in the same layers only where the sealer is bound to     *)
(* something they share.                                                   *)
LEMMA SharedLayers ==
    ASSUME NEW g, NEW h, NEW m, NEW s, NEW kind \in hostSealer(g, m), family[g] = family[h],
           SealerFor(g, m, kind) = SealerFor(h, s, kind)
    PROVE  \/ g = h
           \/ kind \in {"simulated", "aws-kms-attested"}
           \/ family[h] = "aws-sev-snp" /\ kind = "sev"
<1>1. kind \in {"simulated", "sev", "tpm2", "sev+tpm2", "aws-kms-attested"}
  BY KindsOfSealer
<1>2. CASE kind = "tpm2"
  <2>1. {<<"tpm", g, m.boot>>} = {<<"tpm", h, s.boot>>}
    BY <1>2 DEF SealerFor, vtpmLayer
  <2>2. <<"tpm", g, m.boot>> = <<"tpm", h, s.boot>>
    BY <2>1, Zenon
  <2> QED BY <2>2
<1>3. CASE kind = "sev" /\ family[h] # "aws-sev-snp"
  <2>1. {<<"chip", g, m.image>>} = {<<"chip", h, s.image>>}
    BY <1>3 DEF SealerFor, sevSealingLayer
  <2>2. <<"chip", g, m.image>> = <<"chip", h, s.image>>
    BY <2>1, Zenon
  <2> QED BY <2>2
<1>4. CASE kind = "sev+tpm2"
  <2>1. nestedLayers(g, m) = nestedLayers(h, s)
    BY <1>4 DEF SealerFor
  <2>2. <<"tpm", g, m.boot>> \in {sevSealingLayer(h, s), <<"tpm", h, s.boot>>}
    BY <2>1 DEF nestedLayers, vtpmLayer
  <2>3. sevSealingLayer(h, s)[1] = "chip"
    BY DEF sevSealingLayer
  <2>4. <<"tpm", g, m.boot>> = <<"tpm", h, s.boot>>
    BY <2>2, <2>3
  <2> QED BY <2>4
<1> QED BY <1>1, <1>2, <1>3, <1>4

LEMMA OpensAsSealed == KeyStoreInv => OpensOnlyAsSealed
<1> SUFFICES ASSUME KeyStoreInv, NEW h \in Hosts, NEW n \in NameSet, files[h][n].form = "sealed",
                    NEW s \in AnySetting, NEW k \in readSecret(h, s, files[h][n], n)
             PROVE  /\ k[2] = n
                    /\ \/ k[1] = h
                       \/ family[k[1]] = family[h] /\ files[h][n].sealer \in {"simulated", "aws-kms-attested"}
                       \/ family[k[1]] = family[h] /\ family[h] = "aws-sev-snp" /\ files[h][n].sealer = "sev"
  BY DEF OpensOnlyAsSealed
<1>1. PICK f : f = files[h][n]
  OBVIOUS
<1>2. SealedSomewhere(f)
  <2>1. f = Bare(h, n) \/ SealedSomewhere(f)
    BY <1>1 DEF KeyStoreInv, KeyFilesInv
  <2> QED BY <1>1, <2>1 DEF Bare
<1>3. CASE SealedByHost(f)
  <2>3. PICK g \in Hosts, x \in NameSet, m \in AnySetting, at \in Hosts, name \in NameSet :
            \E kind \in hostSealer(g, m) : f = SealedAs(g, x, m, kind, family[at], name)
    BY <1>3 DEF SealedByHost
  <2>4. PICK kind \in hostSealer(g, m) : f = SealedAs(g, x, m, kind, family[at], name)
    BY <2>3
  <2>5. /\ f.form = "sealed" /\ f.sealer = kind /\ f.measurement = m.image
        /\ f.box.layers = SealerFor(g, m, kind) /\ f.box.key = <<g, x>>
        /\ f.box.aad = <<family[g], m.image, x, kind>>
    BY <2>4 DEF SealedAs, Seal, sealedSecretAAD
  <2>6. PICK y \in hostSealer(h, s) : k \in OpenSecretWith(f, h, s, y, n)
    BY <1>1, <2>5 DEF readSecret
  <2>7. /\ f.name = n /\ f.sealer = y /\ k = f.box.key /\ f.box.layers = SealerFor(h, s, y)
        /\ f.box.aad = <<family[h], f.measurement, f.name, f.sealer>>
    BY <2>6 DEF OpenSecretWith, Unseal, sealedSecretAAD
  <2>8. y = kind /\ x = n /\ family[g] = family[h] /\ k = <<g, n>>
    BY <2>5, <2>7
  <2>9. SealerFor(g, m, kind) = SealerFor(h, s, kind)
    BY <2>5, <2>7, <2>8
  <2>10. \/ g = h
         \/ kind \in {"simulated", "aws-kms-attested"}
         \/ family[h] = "aws-sev-snp" /\ kind = "sev"
    BY <2>8, <2>9, SharedLayers
  <2> QED BY <1>1, <2>5, <2>8, <2>10
<1>4. CASE SealedForImage(f)
  <2>1. PICK g \in Hosts, x \in NameSet, at \in Hosts, name \in NameSet : \E image, layers :
            f = NitroFile(g, x, image, layers, family[at], name)
    BY <1>4 DEF SealedForImage
  <2>2. PICK image, layers : f = NitroFile(g, x, image, layers, family[at], name)
    BY <2>1
  <2>3. /\ f.form = "sealed" /\ f.sealer = "aws-kms-attested" /\ f.box.key = <<g, x>>
        /\ f.box.aad = <<family[g], image, x, "aws-kms-attested">>
    BY <2>2 DEF NitroFile, Seal, sealedSecretAAD
  <2>4. PICK y \in hostSealer(h, s) : k \in OpenSecretWith(f, h, s, y, n)
    BY <1>1, <2>3 DEF readSecret
  <2>5. /\ f.name = n /\ k = f.box.key
        /\ f.box.aad = <<family[h], f.measurement, f.name, f.sealer>>
    BY <2>4 DEF OpenSecretWith, Unseal, sealedSecretAAD
  <2>6. x = n /\ family[g] = family[h] /\ k = <<g, n>>
    BY <2>3, <2>5
  <2> QED BY <1>1, <2>3, <2>6
<1> QED BY <1>2, <1>3, <1>4 DEF SealedSomewhere

LEMMA Survives == KeyStoreInv => KeySurvivesSealing
<1> SUFFICES ASSUME KeyStoreInv, NEW h \in Hosts, NEW n \in NameSet,
                    <<h, n>> \notin tampered \cup misdirected
             PROVE  \E m \in AnySetting : <<h, n>> \in readSecret(h, m, files[h][n], n)
  BY DEF KeySurvivesSealing
<1>1. PICK f : f = files[h][n]
  OBVIOUS
<1>2. f = Bare(h, n) \/ SealedFor(f, h, n)
  BY <1>1 DEF KeyStoreInv, KeyFilesInv
<1>3. CASE f = Bare(h, n)
  <2>1. PICK i \in Images, b \in Boots : TRUE
    BY KeyStoreAssumption
  <2>2. PICK m \in AnySetting : m = [image |-> i, boot |-> b, mode |-> "auto", escrowPath |-> "unset"]
    BY DEF AnySetting, Modes
  <2>3. <<h, n>> \in readSecret(h, m, f, n)
    BY <1>3 DEF readSecret, Bare
  <2> QED BY <1>1, <2>3
<1>4. CASE SealedFor(f, h, n)
  <2>1. PICK m \in AnySetting : \E kind \in hostSealer(h, m) : f = SealedAs(h, n, m, kind, family[h], n)
    BY <1>4 DEF SealedFor
  <2>2. PICK kind \in hostSealer(h, m) : f = SealedAs(h, n, m, kind, family[h], n)
    BY <2>1
  <2>3. OpenSecretWith(f, h, m, kind, n) = {<<h, n>>}
    BY <2>2 DEF SealedAs, OpenSecretWith, Unseal, Seal
  <2>4. f.form = "sealed"
    BY <2>2 DEF SealedAs
  <2>5. <<h, n>> \in readSecret(h, m, f, n)
    BY <2>3, <2>4 DEF readSecret
  <2> QED BY <1>1, <2>5
<1> QED BY <1>2, <1>3, <1>4

LEMMA CanBeOpened == KeyStoreInv => PublishedCanBeOpened
<1> SUFFICES ASSUME KeyStoreInv, NEW k \in 1 .. MaxProvisions, published[k] # NoKey
             PROVE  LET h == published[k][1]
                        s == escrow[h][published[k][2]]
                    IN /\ \/ s = [form |-> "plaintext", key |-> k]
                          \/ \E m \in AnySetting : \E x \in loadEscrowKey(h, m, s) : EscrowOpen(EscrowSeal(k), x)
                       /\ k \in reported => \E x \in RecoveredKeys : EscrowOpen(EscrowSeal(k), x)
  BY DEF PublishedCanBeOpened
<1>1. PICK h \in Hosts, p \in Paths : published[k] = <<h, p>> /\ HoldsKey(escrow[h][p], h, k)
  BY DEF KeyStoreInv, EscrowInv
<1>2. published[k][1] = h /\ published[k][2] = p
  BY <1>1
<1>3. PICK s : s = escrow[h][p]
  OBVIOUS
<1>4. \/ s = [form |-> "plaintext", key |-> k]
      \/ \E m \in AnySetting : \E x \in loadEscrowKey(h, m, s) : EscrowOpen(EscrowSeal(k), x)
  <2>1. HoldsKey(s, h, k)
    BY <1>1, <1>3
  <2>2. ASSUME NEW m \in AnySetting, NEW kind \in hostSealer(h, m), s = SealKey(k, h, m, kind)
        PROVE  k \in loadEscrowKey(h, m, s)
    <3>1. k \in OpenKey(s, h, m, kind)
      BY <2>2 DEF SealKey, OpenKey, Unseal, Seal
    <3>2. s.form = "sealed"
      BY <2>2 DEF SealKey
    <3> QED BY <3>1, <3>2 DEF loadEscrowKey
  <2>3. EscrowOpen(EscrowSeal(k), k)
    BY DEF EscrowOpen, EscrowSeal
  <2> QED BY <2>1, <2>2, <2>3 DEF HoldsKey
<1>5. k \in reported => \E x \in RecoveredKeys : EscrowOpen(EscrowSeal(k), x)
  <2> SUFFICES ASSUME k \in reported PROVE k \in RecoveredKeys
    BY DEF EscrowOpen, EscrowSeal
  <2>1. PICK q \in Paths : recovery[q] = WrapRecovery(k)
    BY DEF KeyStoreInv, EscrowInv
  <2>2. k \in RecoveryOpen(recovery[q])
    BY <2>1 DEF RecoveryOpen, WrapRecovery
  <2> QED BY <2>2 DEF RecoveredKeys
<1> QED BY <1>2, <1>3, <1>4, <1>5

(* A sealed key file opens only as the secret it was sealed as and, unless *)
(* its sealer is bound to an image or a fleet, only on the host it was     *)
(* sealed on: for any hosts, families, images, boots and secrets, however  *)
(* often files are copied, relabelled and sealed again and hosts are       *)
(* reconfigured (OpenSecretWith, SealerFor).                                *)
THEOREM SealedFilesOpenAsSealed == KeyStoreSpec => []OpensOnlyAsSealed
<1> QED BY InitKeyStore, NextKeyStore, OpensAsSealed, PTL DEF KeyStoreSpec

(* Sealing loses no key by itself, wherever a command dies: a path nobody   *)
(* else touched has the bare key or a file its own host can open.  The     *)
(* commands that open what they sealed keep it whatever the sealer makes   *)
(* (SealKeysSeal, replaceFile); the Nitro command, which cannot, for an     *)
(* image that is there and a KMS key its enclave can use, file by file     *)
(* (sealNitroKeys, NitroSeal, NitroReplace).                               *)
THEOREM SealingKeepsKeys == KeyStoreSpec => []KeySurvivesSealing
<1> QED BY InitKeyStore, NextKeyStore, Survives, PTL DEF KeyStoreSpec

(* A published escrow key is at its host's path in a file that opens, and  *)
(* once reported, in a recovery envelope too, for any number of keys,      *)
(* paths, commands and deaths between two writes (runEscrowProvisionCmd,    *)
(* writeExclusive).                                                        *)
THEOREM PublishedKeysOpen == KeyStoreSpec => []PublishedCanBeOpened
<1> QED BY InitKeyStore, NextKeyStore, CanBeOpened, PTL DEF KeyStoreSpec
=============================================================================
