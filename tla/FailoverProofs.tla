--------------------------- MODULE FailoverProofs ---------------------------
(***************************************************************************)
(* What TLAPS proves of the sentinel and of failover, for any number of    *)
(* executors, any policies and any bounds: the records of the outbox form  *)
(* one chain of genomes that check out, a policy fails over once, and the  *)
(* genome a failover chooses was committed before the intrusion.           *)
(*                                                                         *)
(* Everything rests on two facts about the primary, kept apart because the *)
(* second one alone needs the outbox to sync: what is recorded was sealed  *)
(* as it is recorded (PrimaryInv), and the next seal takes the first free  *)
(* generation (ChainInv).                                                  *)
(***************************************************************************)
EXTENDS Failover, WellFoundedInduction, TLAPS

Steps == {"check", "seal", "commit", "beat"}
Rec == [gen : Generations, bundle : Nat, payload : Int, at : Nat, parent : Nat]
MaybeRec == Rec \cup {NoRecord}
Links == [gen : Generations, bundle : Nat, at : Nat] \cup {NoLink}
Beats1 == [seq : Nat \ {0}, at : Nat,
           status : {"watching", "stopped", "compromised"}, last : Links]
Reports == [at : Nat, last : Links]
Outboxes == [records : [Generations -> MaybeRec],
             bundles : [Generations -> Nat], escrows : [Generations -> Nat],
             beat : Beats1 \cup {NoBeat}, report : Reports \cup {NoReport}]

\* A record names the seal it was made by.
Known(r) == r.bundle \in 1..Len(sealed) /\ sealed[r.bundle] = r

PrimaryType ==
    /\ now \in Nat /\ content \in Int /\ sealed \in Seq(Rec)
    /\ out \in Outboxes
    /\ sen \in [step : Steps, seq : Nat, last : MaybeRec, stage : MaybeRec]
                  \cup {Down}

SealsNumbered ==
    /\ Len(sealed) <= MaxSeals
    /\ \A b \in 1..Len(sealed) : sealed[b].bundle = b /\ sealed[b].gen < b

RecordsKnown ==
    \A g \in Generations : out.records[g] # NoRecord =>
        Known(out.records[g]) /\ out.records[g].gen = g

SentinelKnows ==
    sen # Down =>
        /\ sen.last # NoRecord => Known(sen.last)
        /\ sen.step = "commit" => sen.stage # NoRecord /\ Known(sen.stage)

PrimaryInv == PrimaryType /\ SealsNumbered /\ RecordsKnown /\ SentinelKnows

PrimaryNext ==
    \/ Change \/ Intrude \/ Crash \/ Start \/ CheckWires \/ WireFires
    \/ NothingSealed \/ PlaceBundle \/ PlaceFails \/ AttestFails \/ Commit
    \/ CommitFails \/ Heartbeat \/ Stop

-----------------------------------------------------------------------------
(* Least and greatest elements: what Min and Max of the code's loops over   *)
(* generations return.                                                      *)

LEMMA LeastExists ==
  ASSUME NEW S \in SUBSET Nat, S # {}
  PROVE  \E x \in S : \A y \in S : x <= y
<1> DEFINE R == OpToRel(<, Nat)
<1>1. IsWellFoundedOn(R, Nat)
  BY NatLessThanWellFounded
<1> HIDE DEF R
<1>2. PICK x \in S : \A y \in S : <<y, x>> \notin R
  BY <1>1, WFMin
<1>3. \A y \in S : ~(y < x)
  BY <1>2 DEF R, OpToRel
<1> QED BY <1>3

LEMMA MaxIsGreatest ==
  ASSUME NEW n \in Nat, NEW S \in SUBSET (0..n), S # {}
  PROVE  Max(S) \in S /\ \A y \in S : y <= Max(S)
<1> DEFINE T == {x \in 0..n : n - x \in S}
<1>1. T \in SUBSET Nat /\ T # {}
  <2>1. PICK x \in S : TRUE
    OBVIOUS
  <2>2. n - x \in T
    BY <2>1
  <2>3. T \subseteq Nat
    OBVIOUS
  <2> HIDE DEF T
  <2> QED BY <2>2, <2>3
<1> HIDE DEF T
<1>2. PICK m \in T : \A y \in T : m <= y
  BY <1>1, LeastExists
<1>3. n - m \in S /\ \A y \in S : n - m >= y
  <2>1. n - m \in S
    BY DEF T
  <2>2. ASSUME NEW y \in S
        PROVE  n - m >= y
    <3>1. y \in 0..n /\ n - (n - y) = y
      OBVIOUS
    <3>2. n - y \in T
      BY <3>1 DEF T
    <3>3. m <= n - y /\ m \in 0..n
      BY <1>2, <3>2 DEF T
    <3> QED BY <3>1, <3>3
  <2> QED BY <2>1, <2>2
<1>4. Max(S) \in S /\ \A y \in S : Max(S) >= y
  BY <1>3 DEF Max
<1>5. \A y \in S : y <= Max(S)
  BY <1>4
<1> QED BY <1>4, <1>5

-----------------------------------------------------------------------------
(* PrimaryInv.                                                              *)

LEMMA PrimaryInitially == SentinelInit => PrimaryInv
<1> SUFFICES ASSUME SentinelInit PROVE PrimaryInv
  OBVIOUS
<1>1. PrimaryType
  BY SentinelBounds DEF SentinelInit, PrimaryType, Outboxes, EmptyOutbox,
     MaybeRec, NoBeat, NoReport
<1>2. SealsNumbered
  BY SentinelBounds DEF SentinelInit, SealsNumbered
<1>3. RecordsKnown
  BY DEF SentinelInit, RecordsKnown, EmptyOutbox
<1>4. SentinelKnows
  BY DEF SentinelInit, SentinelKnows
<1> QED BY <1>1, <1>2, <1>3, <1>4 DEF PrimaryInv

\* What a step at one of the sentinel's own steps may take for granted.
LEMMA Running ==
  ASSUME PrimaryInv, NEW s \in Steps, At(s)
  PROVE  /\ sen # Down
         /\ sen \in [step : Steps, seq : Nat, last : MaybeRec, stage : MaybeRec]
         /\ sen.last # NoRecord => Known(sen.last) /\ sen.last \in Rec
         /\ s = "commit" => /\ sen.stage # NoRecord /\ Known(sen.stage)
                            /\ sen.stage \in Rec
<1>1. sen # Down
  BY DEF At, Down, Steps
<1>2. sen \in [step : Steps, seq : Nat, last : MaybeRec, stage : MaybeRec]
  BY <1>1 DEF PrimaryInv, PrimaryType
<1>3. sen.last \in MaybeRec /\ sen.stage \in MaybeRec
  BY <1>2
<1> QED
  BY <1>1, <1>2, <1>3 DEF PrimaryInv, SentinelKnows, MaybeRec, At

LEMMA LinkType ==
  ASSUME NEW r \in MaybeRec
  PROVE  Link(r) \in Links
BY DEF Link, Links, MaybeRec, Rec

\* A seal is the next of its line and fits in the outbox.
LEMMA GenomeIsNext ==
  ASSUME PrimaryInv, At("seal"), Len(sealed) < MaxSeals
  PROVE  /\ Genome \in Rec /\ Genome # NoRecord
         /\ Genome.bundle = Len(sealed) + 1 /\ Genome.gen < Genome.bundle
         /\ Genome.gen = NextOf(sen.last)
<1>1. sen \in [step : Steps, seq : Nat, last : MaybeRec, stage : MaybeRec]
         /\ (sen.last # NoRecord => Known(sen.last) /\ sen.last \in Rec)
  BY Running DEF Steps
<1>2. Len(sealed) \in Nat /\ now \in Nat /\ content \in Int
  BY DEF PrimaryInv, PrimaryType
<1>3. NextOf(sen.last) \in 0..Len(sealed)
  <2>1. CASE sen.last = NoRecord
    BY <2>1, <1>2 DEF NextOf
  <2>2. CASE sen.last # NoRecord
    <3>1. sen.last.bundle \in 1..Len(sealed) /\ sealed[sen.last.bundle] = sen.last
      BY <2>2, <1>1 DEF Known
    <3>2. sen.last.gen < sen.last.bundle /\ sen.last.gen \in Nat
      BY <3>1, <1>1, <2>2, SentinelBounds
         DEF PrimaryInv, SealsNumbered, Rec, Generations
    <3> QED BY <2>2, <3>1, <3>2, <1>2 DEF NextOf
  <2> QED BY <2>1, <2>2
<1>4. NextOf(sen.last) \in Generations
  BY <1>2, <1>3, SentinelBounds DEF Generations
<1>5. ParentOf(sen.last) \in Nat
  BY <1>1 DEF ParentOf, MaybeRec, Rec, NoRecord
<1>6. Genome \in Rec
  BY <1>2, <1>4, <1>5 DEF Genome, Rec
<1>7. Genome.bundle = Len(sealed) + 1 /\ Genome.gen = NextOf(sen.last)
  BY DEF Genome
<1>8. Genome # NoRecord
  BY <1>2, <1>7 DEF NoRecord
<1> QED BY <1>2, <1>3, <1>6, <1>7, <1>8

\* What was known stays known when a genome is sealed.
LEMMA SealKeepsKnown ==
  ASSUME PrimaryInv, Seals
  PROVE  /\ sealed' \in Seq(Rec) /\ SealsNumbered'
         /\ Genome.bundle \in 1..Len(sealed') /\ sealed'[Genome.bundle] = Genome
         /\ \A r : Known(r) => r.bundle \in 1..Len(sealed')
                               /\ sealed'[r.bundle] = r
<1>1. At("seal") /\ Len(sealed) < MaxSeals /\ sealed' = Append(sealed, Genome)
  BY DEF Seals
<1> DEFINE G == Genome
<1>2. G \in Rec /\ G.bundle = Len(sealed) + 1 /\ G.gen < G.bundle
  BY <1>1, GenomeIsNext
<1>3. sealed \in Seq(Rec)
  BY DEF PrimaryInv, PrimaryType
<1>4. sealed' = Append(sealed, G)
  BY <1>1
<1> HIDE DEF G
<1>5. /\ sealed' \in Seq(Rec) /\ Len(sealed') = Len(sealed) + 1
      /\ sealed'[Len(sealed) + 1] = G
      /\ \A b \in 1..Len(sealed) : sealed'[b] = sealed[b]
  BY <1>2, <1>3, <1>4
<1>6. SealsNumbered'
  <2>1. Len(sealed') <= MaxSeals
    BY <1>1, <1>3, <1>5, SentinelBounds
  <2>2. ASSUME NEW b \in 1..Len(sealed')
        PROVE  sealed'[b].bundle = b /\ sealed'[b].gen < b
    <3>1. CASE b = Len(sealed) + 1
      BY <3>1, <1>2, <1>5
    <3>2. CASE b # Len(sealed) + 1
      <4>1. b \in 1..Len(sealed)
        BY <3>2, <1>3, <1>5
      <4> QED BY <4>1, <1>5 DEF PrimaryInv, SealsNumbered
    <3> QED BY <3>1, <3>2
  <2> QED BY <2>1, <2>2 DEF SealsNumbered
<1>7. G.bundle \in 1..Len(sealed') /\ sealed'[G.bundle] = G
  BY <1>2, <1>3, <1>5
<1>8. ASSUME NEW r, Known(r)
      PROVE  r.bundle \in 1..Len(sealed') /\ sealed'[r.bundle] = r
  BY <1>3, <1>5, <1>8 DEF Known
<1> QED BY <1>5, <1>6, <1>7, <1>8 DEF G

LEMMA BeatType ==
  ASSUME PrimaryInv, NEW s \in Steps, At(s),
         NEW status \in {"watching", "stopped", "compromised"},
         NEW box \in Outboxes, NEW b \in Beats(box, status)
  PROVE  b \in Outboxes /\ b.records = box.records
         /\ b.bundles = box.bundles /\ b.escrows = box.escrows
<1>1. sen.seq \in Nat /\ Link(sen.last) \in Links /\ now \in Nat
  BY Running, LinkType DEF PrimaryInv, PrimaryType
<1>2. Beat(status) \in Beats1
  BY <1>1 DEF Beat, Beats1
<1>3. CASE b = box
  BY <1>3
<1>4. CASE b = [box EXCEPT !.beat = Beat(status)]
  <2> DEFINE B == Beat(status)
  <2> HIDE DEF B
  <2> QED BY <1>2, <1>4 DEF Outboxes, B
<1> QED BY <1>3, <1>4 DEF Beats

LEMMA NewestKnown ==
  ASSUME PrimaryInv
  PROVE  Newest(out) \in MaybeRec
         /\ (Newest(out) # NoRecord => Known(Newest(out)))
<1>1. CASE Chain(out) = {}
  BY <1>1 DEF Newest, MaybeRec
<1>2. CASE Chain(out) # {}
  <2>1. Chain(out) \in SUBSET Generations
    BY DEF Chain, Present
  <2>2. MaxSeals - 1 \in Nat
    BY <1>2, <2>1, SentinelBounds DEF Generations
  <2>3. Max(Chain(out)) \in Generations
    BY <1>2, <2>1, <2>2, MaxIsGreatest DEF Generations
  <2>4. out.records \in [Generations -> MaybeRec]
    BY DEF PrimaryInv, PrimaryType, Outboxes
  <2> QED BY <1>2, <2>3, <2>4 DEF Newest, PrimaryInv, RecordsKnown
<1> QED BY <1>1, <1>2

\* Steps that leave the seals alone keep the invariant when the outbox and
\* the sentinel's memory stay known.
LEMMA KnownStep ==
  ASSUME PrimaryInv, sealed' = sealed, now' \in Nat, content' \in Int,
         out' \in Outboxes, RecordsKnown', SentinelKnows',
         sen' \in [step : Steps, seq : Nat, last : MaybeRec, stage : MaybeRec]
                    \cup {Down}
  PROVE  PrimaryInv'
BY DEF PrimaryInv, PrimaryType, SealsNumbered

LEMMA MachineStep ==
  ASSUME PrimaryInv, Change \/ Intrude \/ Crash \/ Start \/ CheckWires
                     \/ NothingSealed
  PROVE  PrimaryInv'
<1>0. now \in Nat /\ content \in Int /\ out \in Outboxes
  BY DEF PrimaryInv, PrimaryType
<1>1. now' = now /\ out' = out /\ sealed' = sealed /\ content' \in Int
  BY <1>0 DEF Change, Intrude, Crash, Start, CheckWires, NothingSealed
<1>2. RecordsKnown'
  BY <1>1 DEF PrimaryInv, RecordsKnown, Known
<1>3. SentinelKnows'
      /\ sen' \in [step : Steps, seq : Nat, last : MaybeRec, stage : MaybeRec]
                    \cup {Down}
  <2>1. CASE sen' = sen
    BY <2>1, <1>1 DEF PrimaryInv, PrimaryType, SentinelKnows, Known
  <2>2. CASE Crash
    BY <2>2 DEF Crash, SentinelKnows
  <2>3. CASE Start
    <3>1. sen' = [step |-> "check", seq |-> out.beat.seq, last |-> Newest(out),
                  stage |-> NoRecord]
      BY <2>3 DEF Start, FirstSeq
    <3>2. out.beat.seq \in Nat
      BY <1>0 DEF Outboxes, Beats1, NoBeat
    <3>3. Newest(out) \in MaybeRec
          /\ (Newest(out) # NoRecord => Known(Newest(out)))
      BY NewestKnown
    <3> QED BY <3>1, <3>2, <3>3, <1>1 DEF SentinelKnows, Steps, MaybeRec, Known
  <2>4. CASE CheckWires \/ NothingSealed
    <3>1. PICK s \in {"check", "seal"}, t \in {"seal", "beat"} :
              At(s) /\ sen' = [sen EXCEPT !.step = t]
      BY <2>4 DEF CheckWires, NothingSealed, GoTo
    <3>2. sen \in [step : Steps, seq : Nat, last : MaybeRec, stage : MaybeRec]
          /\ (sen.last # NoRecord => Known(sen.last))
      BY <3>1, Running DEF Steps
    <3> QED BY <3>1, <3>2, <1>1 DEF SentinelKnows, Steps, Known
  <2> QED BY <2>1, <2>2, <2>3, <2>4 DEF Change, Intrude
<1> QED BY <1>0, <1>1, <1>2, <1>3, KnownStep

LEMMA BeatStep ==
  ASSUME PrimaryInv, WireFires \/ Heartbeat \/ Stop
  PROVE  PrimaryInv' /\ out'.records = out.records
         /\ out'.bundles = out.bundles /\ out'.escrows = out.escrows
<1>0. now \in Nat /\ content \in Int /\ out \in Outboxes
  BY DEF PrimaryInv, PrimaryType
<1>1. PICK s \in {"check", "beat"} : At(s)
  BY DEF WireFires, Heartbeat, Stop
<1>2. sen \in [step : Steps, seq : Nat, last : MaybeRec, stage : MaybeRec]
      /\ (sen.last # NoRecord => Known(sen.last)) /\ Link(sen.last) \in Links
  BY <1>1, Running, LinkType DEF Steps
<1>3. now' = now /\ content' = content /\ sealed' = sealed
  BY DEF WireFires, Heartbeat, Stop
<1> DEFINE R == [at |-> now, last |-> Link(sen.last)]
<1>4. [out EXCEPT !.report = R] \in Outboxes
  <2>1. R \in Reports
    BY <1>0, <1>2 DEF Reports
  <2> HIDE DEF R
  <2> QED BY <2>1, <1>0 DEF Outboxes
<1>5. out' \in Outboxes /\ out'.records = out.records
      /\ out'.bundles = out.bundles /\ out'.escrows = out.escrows
  <2>1. CASE WireFires
    <3>1. out' \in Beats([out EXCEPT !.report = R], "compromised")
      BY <2>1 DEF WireFires
    <3>2. out' \in Outboxes
          /\ out'.records = [out EXCEPT !.report = R].records
          /\ out'.bundles = [out EXCEPT !.report = R].bundles
          /\ out'.escrows = [out EXCEPT !.report = R].escrows
      <4> HIDE DEF R
      <4> QED BY <3>1, <1>1, <1>4, BeatType DEF Steps
    <3> QED BY <3>2, <1>0 DEF Outboxes
  <2>2. CASE Heartbeat \/ Stop
    <3>1. \E status \in {"watching", "stopped"} : out' \in Beats(out, status)
      BY <2>2 DEF Heartbeat, Stop
    <3> QED BY <3>1, <1>0, <1>1, BeatType DEF Steps
  <2> QED BY <2>1, <2>2
<1>6. RecordsKnown'
  BY <1>3, <1>5 DEF PrimaryInv, RecordsKnown, Known
<1>7. SentinelKnows'
      /\ sen' \in [step : Steps, seq : Nat, last : MaybeRec, stage : MaybeRec]
                    \cup {Down}
  <2>1. CASE sen' = Down
    BY <2>1 DEF SentinelKnows
  <2>2. CASE Heartbeat
    <3>1. PICK n \in Nat : sen' = [sen EXCEPT !.step = "check", !.seq = n]
      <4>1. sen' = [sen EXCEPT !.step = "check",
                               !.seq = IF out' = out THEN @ ELSE @ + 1]
        BY <2>2 DEF Heartbeat
      <4>2. (IF out' = out THEN sen.seq ELSE sen.seq + 1) \in Nat
        BY <1>2
      <4> QED BY <4>1, <4>2
    <3> QED BY <3>1, <1>2, <1>3 DEF SentinelKnows, Steps, Known
  <2> QED BY <2>1, <2>2 DEF WireFires, Stop
<1> QED BY <1>0, <1>3, <1>5, <1>6, <1>7, KnownStep

LEMMA PlaceStep ==
  ASSUME PrimaryInv, PlaceBundle \/ PlaceFails
  PROVE  /\ PrimaryInv' /\ out'.records = out.records
         /\ out'.escrows = [out.escrows EXCEPT ![Genome.gen] = Genome.bundle]
         /\ PlaceBundle =>
               out'.bundles = [out.bundles EXCEPT ![Genome.gen] = Genome.bundle]
         /\ ~PlaceBundle => sen'.step # "commit"
         /\ \/ out'.bundles = out.bundles
            \/ out'.bundles = [out.bundles EXCEPT ![Genome.gen] = Genome.bundle]
         /\ sen'.last = sen.last /\ sen' # Down
         /\ sen'.step = "commit" => sen'.stage = Genome
<1>0. out \in Outboxes /\ now' = now /\ content' = content
      /\ now \in Nat /\ content \in Int
  BY DEF PrimaryInv, PrimaryType, PlaceBundle, PlaceFails
<1>1. Seals /\ At("seal") /\ Len(sealed) < MaxSeals
  BY DEF PlaceBundle, PlaceFails, Seals
<1> DEFINE G == Genome
<1>2. G \in Rec /\ G # NoRecord /\ G.gen \in Generations /\ G.bundle \in Nat
  BY <1>1, GenomeIsNext DEF Rec
<1>3. /\ sealed' \in Seq(Rec) /\ SealsNumbered'
      /\ G.bundle \in 1..Len(sealed') /\ sealed'[G.bundle] = G
      /\ \A r : Known(r) => r.bundle \in 1..Len(sealed') /\ sealed'[r.bundle] = r
  BY <1>1, SealKeepsKnown
<1>4. sen \in [step : Steps, seq : Nat, last : MaybeRec, stage : MaybeRec]
      /\ (sen.last # NoRecord => Known(sen.last))
  BY <1>1, Running DEF Steps
<1>5. /\ PlaceBundle =>
           /\ out' = [out EXCEPT !.escrows[G.gen] = G.bundle,
                                 !.bundles[G.gen] = G.bundle]
           /\ sen' = [sen EXCEPT !.step = "commit", !.stage = G]
      /\ PlaceFails =>
           /\ out' = [out EXCEPT !.escrows[G.gen] = G.bundle]
           /\ sen' = [sen EXCEPT !.step = "beat"]
  BY DEF PlaceBundle, PlaceFails, GoTo
<1> HIDE DEF G
<1>6. /\ out' \in Outboxes /\ out'.records = out.records
      /\ out'.escrows = [out.escrows EXCEPT ![G.gen] = G.bundle]
      /\ PlaceBundle => out'.bundles = [out.bundles EXCEPT ![G.gen] = G.bundle]
      /\ PlaceFails => out'.bundles = out.bundles
  <2>1. CASE PlaceBundle /\ ~PlaceFails
    <3> DEFINE E == [out.escrows EXCEPT ![G.gen] = G.bundle]
               B == [out.bundles EXCEPT ![G.gen] = G.bundle]
    <3>0. E \in [Generations -> Nat] /\ B \in [Generations -> Nat]
      BY <1>0, <1>2 DEF Outboxes
    <3>3. out' = [out EXCEPT !.escrows = E, !.bundles = B]
      BY <1>0, <1>5, <2>1 DEF Outboxes
    <3>1. out' \in Outboxes /\ out'.records = out.records
          /\ out'.escrows = E
      <4> HIDE DEF E, B
      <4> QED BY <1>0, <3>0, <3>3 DEF Outboxes
    <3>2. out'.bundles = [out.bundles EXCEPT ![G.gen] = G.bundle]
      BY <1>0, <1>5, <2>1 DEF Outboxes
    <3> QED BY <3>1, <3>2, <2>1
  <2>2. CASE PlaceFails /\ ~PlaceBundle
    <3>1. out' \in Outboxes /\ out'.records = out.records
          /\ out'.escrows = [out.escrows EXCEPT ![G.gen] = G.bundle]
      BY <1>0, <1>2, <1>5, <2>2 DEF Outboxes
    <3>2. out'.bundles = out.bundles
      BY <1>0, <1>5, <2>2 DEF Outboxes
    <3> QED BY <3>1, <3>2, <2>2
  <2>3. CASE PlaceFails /\ PlaceBundle
    BY <1>4, <1>5, <2>3
  <2> QED BY <2>1, <2>2, <2>3
<1>7. /\ sen' \in [step : Steps, seq : Nat, last : MaybeRec, stage : MaybeRec]
      /\ sen'.last = sen.last
      /\ sen'.step = "commit" => sen'.stage = G /\ PlaceBundle
      /\ PlaceBundle => sen'.step = "commit"
  BY <1>2, <1>4, <1>5 DEF MaybeRec, Steps
<1>8. RecordsKnown'
  BY <1>3, <1>6 DEF PrimaryInv, RecordsKnown, Known
<1>9. SentinelKnows'
  BY <1>2, <1>3, <1>4, <1>7 DEF SentinelKnows, Known
<1>10. PrimaryInv'
  BY <1>0, <1>3, <1>6, <1>7, <1>8, <1>9 DEF PrimaryInv, PrimaryType
<1>11. sen' # Down
  BY <1>7 DEF Down, Steps
<1> QED BY <1>6, <1>7, <1>10, <1>11 DEF G

LEMMA AttestFailsStep ==
  ASSUME PrimaryInv, AttestFails
  PROVE  /\ PrimaryInv' /\ out'.records = out.records
         /\ out'.escrows = [out.escrows EXCEPT ![sen.stage.gen] = 0]
         /\ out'.bundles = [out.bundles EXCEPT ![sen.stage.gen] = 0]
         /\ sen'.last = sen.last /\ sen'.step = "beat"
<1>0. out \in Outboxes /\ now \in Nat /\ content \in Int
      /\ now' = now /\ content' = content /\ sealed' = sealed
  BY DEF PrimaryInv, PrimaryType, AttestFails
<1>1. /\ sen \in [step : Steps, seq : Nat, last : MaybeRec, stage : MaybeRec]
      /\ sen.last # NoRecord => Known(sen.last)
      /\ sen.stage \in Rec
  BY Running DEF AttestFails, Steps
<1>2. sen' = [sen EXCEPT !.step = "beat", !.stage = NoRecord]
  BY DEF AttestFails
<1> DEFINE g == sen.stage.gen
<1>3. g \in Generations
  BY <1>1 DEF Rec
<1>4. out' = [out EXCEPT !.bundles[g] = 0, !.escrows[g] = 0]
  BY DEF AttestFails
<1> HIDE DEF g
<1>5. out' \in Outboxes /\ out'.records = out.records
      /\ out'.escrows = [out.escrows EXCEPT ![g] = 0]
  BY <1>0, <1>3, <1>4 DEF Outboxes
<1>6. out'.bundles = [out.bundles EXCEPT ![g] = 0]
  BY <1>0, <1>4 DEF Outboxes
<1>7. /\ sen' \in [step : Steps, seq : Nat, last : MaybeRec, stage : MaybeRec]
      /\ sen'.last = sen.last /\ sen'.step = "beat"
  BY <1>1, <1>2 DEF MaybeRec, Steps
<1>8. RecordsKnown' /\ SentinelKnows'
  BY <1>0, <1>1, <1>5, <1>7 DEF PrimaryInv, RecordsKnown, SentinelKnows, Known
<1> QED BY <1>0, <1>5, <1>6, <1>7, <1>8, KnownStep DEF g

LEMMA CommitStep ==
  ASSUME PrimaryInv, Commit \/ CommitFails
  PROVE  /\ PrimaryInv'
         /\ sen.stage \in Rec
         /\ out'.bundles = out.bundles /\ out'.escrows = out.escrows
         /\ \/ out'.records = out.records
            \/ /\ Commit \/ SyncFails
               /\ out.records[sen.stage.gen] = NoRecord
               /\ out'.records = [out.records EXCEPT ![sen.stage.gen] = sen.stage]
<1>0. out \in Outboxes /\ now \in Nat /\ content \in Int
      /\ now' = now /\ content' = content /\ sealed' = sealed
  BY DEF PrimaryInv, PrimaryType, Commit, CommitFails
<1>1. /\ sen \in [step : Steps, seq : Nat, last : MaybeRec, stage : MaybeRec]
      /\ sen.last # NoRecord => Known(sen.last)
      /\ sen.stage \in Rec /\ Known(sen.stage)
  BY Running DEF Commit, CommitFails, Steps
<1>2. \/ sen' = [sen EXCEPT !.step = "beat", !.last = sen.stage, !.stage = NoRecord]
      \/ sen' = [sen EXCEPT !.step = "beat", !.stage = NoRecord]
  BY DEF Commit, CommitFails
<1> DEFINE r == sen.stage
<1>3. \/ out' = out
      \/ /\ Commit \/ SyncFails
         /\ out.records[r.gen] = NoRecord
         /\ out' = [out EXCEPT !.records[r.gen] = r]
  BY DEF Commit, CommitFails
<1>4. r \in Rec /\ r.gen \in Generations /\ Known(r)
  BY <1>1 DEF Rec
<1> HIDE DEF r
<1>5. out' \in Outboxes
      /\ out'.bundles = out.bundles /\ out'.escrows = out.escrows
  BY <1>0, <1>3, <1>4 DEF Outboxes, MaybeRec
<1>6. \/ out'.records = out.records
      \/ /\ Commit \/ SyncFails
         /\ out.records[r.gen] = NoRecord
         /\ out'.records = [out.records EXCEPT ![r.gen] = r]
  BY <1>0, <1>3 DEF Outboxes
<1>7. RecordsKnown'
  <2>1. SUFFICES ASSUME NEW g \in Generations, out'.records[g] # NoRecord
                 PROVE  (Known(out.records[g]) /\ out.records[g].gen = g)'
    BY DEF RecordsKnown
  <2>2. CASE out'.records[g] = out.records[g]
    BY <2>1, <2>2, <1>0 DEF PrimaryInv, RecordsKnown, Known
  <2>3. CASE g = r.gen /\ out'.records[g] = r
    BY <2>3, <1>0, <1>4 DEF Known
  <2>4. out'.records[g] = out.records[g] \/ (g = r.gen /\ out'.records[g] = r)
    BY <1>0, <1>4, <1>6 DEF Outboxes
  <2> QED BY <2>2, <2>3, <2>4
<1>8. /\ sen' \in [step : Steps, seq : Nat, last : MaybeRec, stage : MaybeRec]
      /\ sen'.last \in {sen.last, r} /\ sen'.step = "beat"
  BY <1>1, <1>2 DEF MaybeRec, Steps, r
<1>9. SentinelKnows'
  BY <1>0, <1>1, <1>4, <1>8 DEF SentinelKnows, Known
<1> QED BY <1>0, <1>1, <1>5, <1>6, <1>7, <1>8, <1>9, KnownStep DEF r

\* Nothing the primary does takes a record or a seal back.
LEMMA PrimaryStep ==
  ASSUME PrimaryInv, PrimaryNext
  PROVE  /\ PrimaryInv'
         /\ \A g \in Generations : out.records[g] # NoRecord
                                     => out'.records[g] = out.records[g]
         /\ \A b \in 1..Len(sealed) : b \in 1..Len(sealed')
                                        /\ sealed'[b] = sealed[b]
<1>1. CASE Change \/ Intrude \/ Crash \/ Start \/ CheckWires \/ NothingSealed
  <2>1. out' = out /\ sealed' = sealed
    BY <1>1 DEF Change, Intrude, Crash, Start, CheckWires, NothingSealed
  <2> QED BY <1>1, <2>1, MachineStep
<1>2. CASE WireFires \/ Heartbeat \/ Stop
  <2>1. sealed' = sealed
    BY <1>2 DEF WireFires, Heartbeat, Stop
  <2> QED BY <1>2, <2>1, BeatStep
<1>3. CASE PlaceBundle \/ PlaceFails
  <2>1. sealed' = Append(sealed, Genome) /\ Genome \in Rec
    BY <1>3, GenomeIsNext DEF PlaceBundle, PlaceFails, Seals
  <2>2. sealed \in Seq(Rec)
    BY DEF PrimaryInv, PrimaryType
  <2> DEFINE G == Genome
  <2>3. G \in Rec /\ sealed' = Append(sealed, G)
    BY <2>1
  <2> HIDE DEF G
  <2>4. \A b \in 1..Len(sealed) : b \in 1..Len(sealed') /\ sealed'[b] = sealed[b]
    BY <2>2, <2>3
  <2> QED BY <1>3, <2>4, PlaceStep
<1>4. CASE AttestFails
  <2>1. sealed' = sealed
    BY <1>4 DEF AttestFails
  <2> QED BY <1>4, <2>1, AttestFailsStep
<1>5. CASE Commit \/ CommitFails
  <2>1. sealed' = sealed
    BY <1>5 DEF Commit, CommitFails
  <2>2. out.records \in [Generations -> MaybeRec]
    BY DEF PrimaryInv, PrimaryType, Outboxes
  <2> QED BY <1>5, <2>1, <2>2, CommitStep
<1> QED BY <1>1, <1>2, <1>3, <1>4, <1>5 DEF PrimaryNext

-----------------------------------------------------------------------------
(* ChainInv: the generations recorded are 0 to k - 1, each the child of the *)
(* one before and whole; a running sentinel builds on the last of them, and *)
(* the genome it is about to commit is generation k.                        *)

OneChain(k) ==
    /\ Present(out) = 0..(k - 1)
    /\ \A g \in 1..(k - 1) : out.records[g].parent = out.records[g - 1].bundle
    /\ \A g \in 0..(k - 1) : CheckGenome(out, g)
    /\ sen # Down => sen.last = (IF k = 0 THEN NoRecord ELSE out.records[k - 1])
    /\ sen.step = "commit" =>
         /\ sen.stage.gen = k /\ sen.stage.parent = ParentOf(sen.last)
         /\ out.bundles[k] = sen.stage.bundle
         /\ out.escrows[k] = sen.stage.bundle

ChainInv == \E k \in 0..MaxSeals : OneChain(k)

LEMMA ChainInitially == SentinelInit => ChainInv
<1> SUFFICES ASSUME SentinelInit PROVE OneChain(0)
  BY SentinelBounds DEF ChainInv
<1>1. Present(out) = {}
  BY DEF SentinelInit, EmptyOutbox, Present
<1> QED BY <1>1 DEF SentinelInit, OneChain, Down

\* ReadChain reads all of it, and its newest genome is the last.
LEMMA WholeChain ==
  ASSUME PrimaryInv, NEW k \in 0..MaxSeals, OneChain(k)
  PROVE  /\ Chain(out) = Present(out)
         /\ Newest(out) = (IF k = 0 THEN NoRecord ELSE out.records[k - 1])
<1>0. k \in Nat /\ Present(out) = 0..(k - 1)
  BY SentinelBounds DEF OneChain
<1>1. CASE k = 0
  <2>1. Present(out) = {}
    BY <1>0, <1>1
  <2>2. Chain(out) = {}
    BY <2>1 DEF Chain
  <2> QED BY <1>1, <2>1, <2>2 DEF Newest
<1>2. CASE k # 0
  <2>1. Min(Present(out)) = 0
    BY <1>0, <1>2 DEF Min
  <2>2. ASSUME NEW g \in Present(out), NEW h \in 1..g
        PROVE  h \in Present(out) /\ Follows(out, h)
    <3>1. h \in 0..(k - 1) /\ h - 1 \in 0..(k - 1) /\ h \in 1..(k - 1)
      BY <1>0, <2>2
    <3>2. h \in Present(out) /\ h - 1 \in Present(out)
      BY <1>0, <3>1
    <3>3. out.records[h - 1] # NoRecord
      BY <3>2 DEF Present
    <3>4. out.records[h].parent = out.records[h - 1].bundle
      BY <3>1 DEF OneChain
    <3> QED BY <3>2, <3>3, <3>4 DEF Follows
  <2>3. Chain(out) = Present(out)
    <3>1. ASSUME NEW g \in Present(out)
          PROVE  g \in Chain(out)
      <4>1. \A h \in (0 + 1)..g : h \in Present(out) /\ Follows(out, h)
        BY <2>2
      <4> QED BY <4>1, <2>1 DEF Chain
    <3>2. Chain(out) \subseteq Present(out)
      BY DEF Chain
    <3> QED BY <3>1, <3>2
  <2>4. Max(Chain(out)) = k - 1
    BY <1>0, <1>2, <2>3 DEF Max
  <2>5. Chain(out) # {}
    <3>1. k - 1 \in Chain(out)
      BY <1>0, <1>2, <2>3
    <3> QED BY <3>1
  <2> QED BY <1>2, <2>3, <2>4, <2>5 DEF Newest
<1> QED BY <1>1, <1>2

\* A step that leaves records and files alone, and the sentinel where it was
\* or outside of a commit.
LEMMA ChainKept ==
  ASSUME NEW k \in 0..MaxSeals, OneChain(k), out'.records = out.records,
         out'.bundles = out.bundles, out'.escrows = out.escrows,
         sen' # Down =>
            sen'.last = (IF k = 0 THEN NoRecord ELSE out.records[k - 1]),
         sen'.step # "commit" \/ sen' = sen
  PROVE  OneChain(k)'
<1>1. Present(out)' = Present(out)
  BY DEF Present
<1>2. \A g : CheckGenome(out, g)' <=> CheckGenome(out, g)
  BY DEF CheckGenome
<1> QED BY <1>1, <1>2 DEF OneChain

LEMMA ChainMachineStep ==
  ASSUME PrimaryInv, ChainInv,
         \/ Change \/ Intrude \/ Crash \/ Start \/ CheckWires \/ NothingSealed
         \/ WireFires \/ Heartbeat \/ Stop
  PROVE  ChainInv'
<1>1. PICK k \in 0..MaxSeals : OneChain(k)
  BY DEF ChainInv
<1>2. out'.records = out.records /\ out'.bundles = out.bundles
      /\ out'.escrows = out.escrows
  BY BeatStep DEF Change, Intrude, Crash, Start, CheckWires, NothingSealed
<1>3. \/ sen' = sen \/ sen' = Down
      \/ Start /\ sen'.last = Newest(out) /\ sen'.step = "check"
      \/ sen # Down /\ sen'.last = sen.last /\ sen'.step # "commit"
  <2>1. CASE Change \/ Intrude \/ Crash \/ Start \/ WireFires \/ Stop
    BY <2>1 DEF Change, Intrude, Crash, Start, WireFires, Stop
  <2>2. CASE CheckWires \/ NothingSealed \/ Heartbeat
    <3>1. PICK s \in Steps : At(s)
      BY <2>2 DEF CheckWires, NothingSealed, Heartbeat, Steps
    <3>2. sen # Down
          /\ sen \in [step : Steps, seq : Nat, last : MaybeRec, stage : MaybeRec]
      BY <3>1, Running
    <3> QED BY <2>2, <3>2 DEF CheckWires, NothingSealed, Heartbeat, GoTo
  <2> QED BY <2>1, <2>2
<1>4. /\ sen' # Down =>
            sen'.last = (IF k = 0 THEN NoRecord ELSE out.records[k - 1])
      /\ sen'.step # "commit" \/ sen' = sen
  BY <1>1, <1>3, WholeChain DEF OneChain, Down
<1>5. OneChain(k)'
  BY <1>1, <1>2, <1>4, ChainKept
<1> QED BY <1>5 DEF ChainInv

\* A seal is of the first free generation.
LEMMA SealsNextFree ==
  ASSUME PrimaryInv, NEW k \in 0..MaxSeals, OneChain(k), At("seal"),
         Len(sealed) < MaxSeals
  PROVE  Genome.gen = k
<1>1. sen # Down /\ Genome.gen = NextOf(sen.last)
  BY Running, GenomeIsNext DEF Steps
<1>2. CASE k = 0
  BY <1>1, <1>2 DEF OneChain, NextOf
<1>3. CASE k # 0
  <2>1. k - 1 \in Present(out) /\ sen.last = out.records[k - 1]
    BY <1>1, <1>3, SentinelBounds DEF OneChain
  <2>2. sen.last # NoRecord /\ sen.last.gen = k - 1
    BY <2>1 DEF Present, PrimaryInv, RecordsKnown
  <2> QED BY <1>1, <2>2, SentinelBounds DEF NextOf
<1> QED BY <1>2, <1>3

LEMMA ChainPlaceStep ==
  ASSUME PrimaryInv, ChainInv, PlaceBundle \/ PlaceFails
  PROVE  ChainInv'
<1>1. PICK k \in 0..MaxSeals : OneChain(k)
  BY DEF ChainInv
<1>2. At("seal") /\ Len(sealed) < MaxSeals
  BY DEF PlaceBundle, PlaceFails, Seals
<1>3. Genome.gen = k /\ Genome.parent = ParentOf(sen.last) /\ k \in Generations
  <2>1. Genome.parent = ParentOf(sen.last)
    BY DEF Genome
  <2>2. Genome.gen \in Generations
    BY <1>2, GenomeIsNext DEF Rec
  <2> QED BY <1>1, <1>2, <2>1, <2>2, SealsNextFree
<1>4. /\ out'.records = out.records
      /\ out'.escrows = [out.escrows EXCEPT ![k] = Genome.bundle]
      /\ \/ out'.bundles = out.bundles
         \/ out'.bundles = [out.bundles EXCEPT ![k] = Genome.bundle]
      /\ sen'.step = "commit" =>
            out'.bundles = [out.bundles EXCEPT ![k] = Genome.bundle]
      /\ sen'.last = sen.last
      /\ sen'.step = "commit" => sen'.stage = Genome
  BY <1>3, PlaceStep
<1>5. out.bundles \in [Generations -> Nat] /\ out.escrows \in [Generations -> Nat]
  BY DEF PrimaryInv, PrimaryType, Outboxes
<1>6. Present(out)' = Present(out)
  BY <1>4 DEF Present
<1>7. ASSUME NEW g \in 0..(k - 1)
      PROVE  CheckGenome(out, g)'
  <2>1. g # k /\ CheckGenome(out, g)
    BY <1>1, SentinelBounds DEF OneChain
  <2>2. g \in Generations
    BY <1>1, <1>7 DEF OneChain, Present
  <2> QED BY <1>4, <1>5, <2>1, <2>2 DEF CheckGenome
<1>8. sen # Down
  BY <1>2, Running DEF Steps
<1> DEFINE G == Genome
<1>9. sen'.step = "commit" =>
         /\ sen'.stage.gen = k /\ sen'.stage.parent = ParentOf(sen'.last)
         /\ out'.bundles[k] = sen'.stage.bundle
         /\ out'.escrows[k] = sen'.stage.bundle
  <2>1. /\ G.gen = k /\ G.parent = ParentOf(sen.last) /\ k \in Generations
        /\ out'.escrows = [out.escrows EXCEPT ![k] = G.bundle]
        /\ sen'.step = "commit" =>
              out'.bundles = [out.bundles EXCEPT ![k] = G.bundle]
        /\ sen'.last = sen.last
        /\ sen'.step = "commit" => sen'.stage = G
    BY <1>3, <1>4
  <2> HIDE DEF G
  <2> QED BY <2>1, <1>5
<1>10. OneChain(k)'
  <2>1. sen'.last = (IF k = 0 THEN NoRecord ELSE out'.records[k - 1])
    BY <1>1, <1>4, <1>8 DEF OneChain
  <2>2. \A g \in 1..(k - 1) : out'.records[g].parent = out'.records[g - 1].bundle
    BY <1>1, <1>4 DEF OneChain
  <2>3. Present(out)' = 0..(k - 1)
    BY <1>1, <1>6 DEF OneChain
  <2>4. ParentOf(sen.last)' = ParentOf(sen'.last)
    BY DEF ParentOf
  <2> QED BY <2>1, <2>2, <2>3, <2>4, <1>7, <1>9 DEF OneChain
<1> QED BY <1>10 DEF ChainInv

LEMMA ChainAttestFails ==
  ASSUME PrimaryInv, ChainInv, AttestFails
  PROVE  ChainInv'
<1>1. PICK k \in 0..MaxSeals : OneChain(k)
  BY DEF ChainInv
<1>2. sen.step = "commit" /\ sen # Down
  BY DEF AttestFails, At, Down
<1>3. sen.stage.gen = k
  BY <1>1, <1>2 DEF OneChain
<1>4. /\ out'.records = out.records
      /\ out'.escrows = [out.escrows EXCEPT ![k] = 0]
      /\ out'.bundles = [out.bundles EXCEPT ![k] = 0]
      /\ sen'.last = sen.last /\ sen'.step = "beat"
  BY <1>3, AttestFailsStep
<1>5. out.bundles \in [Generations -> Nat] /\ out.escrows \in [Generations -> Nat]
  BY DEF PrimaryInv, PrimaryType, Outboxes
<1>6. Present(out)' = Present(out)
  BY <1>4 DEF Present
<1>7. ASSUME NEW g \in 0..(k - 1)
      PROVE  CheckGenome(out, g)'
  <2>1. g # k /\ CheckGenome(out, g)
    BY <1>1, SentinelBounds DEF OneChain
  <2>2. g \in Generations
    BY <1>1, <1>7 DEF OneChain, Present
  <2> QED BY <1>4, <1>5, <2>1, <2>2 DEF CheckGenome
<1>8. OneChain(k)'
  BY <1>1, <1>2, <1>4, <1>6, <1>7 DEF OneChain
<1> QED BY <1>8 DEF ChainInv

\* Where the outbox syncs, a record in place is one the sentinel knows of.
LEMMA ChainCommitStep ==
  ASSUME PrimaryInv, ChainInv, SyncFails = FALSE, Commit \/ CommitFails
  PROVE  ChainInv'
<1>1. PICK k \in 0..MaxSeals : OneChain(k)
  BY DEF ChainInv
<1>2. sen.step = "commit" /\ sen # Down
      /\ sen \in [step : Steps, seq : Nat, last : MaybeRec, stage : MaybeRec]
  BY Running DEF Commit, CommitFails, At, Down, Steps
<1>3. sen.stage.gen = k /\ sen.stage \in Rec /\ sen.stage # NoRecord
      /\ k \in Generations
  <2>1. sen.stage.gen = k
    BY <1>1, <1>2 DEF OneChain
  <2>2. sen.stage \in Rec /\ sen.stage # NoRecord
    BY Running DEF Commit, CommitFails, Steps
  <2> QED BY <2>1, <2>2 DEF Rec
<1>4. out'.bundles = out.bundles /\ out'.escrows = out.escrows
  BY CommitStep
<1>5. CASE CommitFails
  <2>1. out' = out /\ sen' = [sen EXCEPT !.step = "beat", !.stage = NoRecord]
    BY <1>5 DEF CommitFails
  <2>2. sen'.last = sen.last /\ sen'.step = "beat"
    BY <1>2, <2>1
  <2>3. OneChain(k)'
    BY <1>1, <1>2, <2>1, <2>2, ChainKept DEF OneChain
  <2> QED BY <2>3 DEF ChainInv
<1>6. CASE Commit
  <2> DEFINE r == sen.stage
  <2>1. out' = [out EXCEPT !.records[r.gen] = r]
        /\ sen' = [sen EXCEPT !.step = "beat", !.last = r, !.stage = NoRecord]
    BY <1>6 DEF Commit
  <2>2. r.gen = k /\ r \in Rec /\ r # NoRecord /\ r.parent = ParentOf(sen.last)
        /\ out.bundles[k] = r.bundle /\ out.escrows[k] = r.bundle
    BY <1>1, <1>2, <1>3 DEF OneChain
  <2>3. out \in Outboxes
    BY DEF PrimaryInv, PrimaryType
  <2> HIDE DEF r
  <2>4. out'.records = [out.records EXCEPT ![k] = r]
        /\ out.records \in [Generations -> MaybeRec]
    BY <2>1, <2>2, <2>3 DEF Outboxes
  <2>5. sen'.step = "beat" /\ sen'.last = r
    BY <1>2, <2>1
  <2>6. k \in Nat /\ k + 1 \in 0..MaxSeals
    BY <1>1, <1>3, SentinelBounds DEF Generations
  <2>7. \A g \in Generations :
           out'.records[g] = IF g = k THEN r ELSE out.records[g]
    BY <2>4
  <2>8. Present(out)' = 0..k
    <3>1. Present(out) = 0..(k - 1)
      BY <1>1 DEF OneChain
    <3>2. \A g \in Generations : g \in Present(out)' <=> (g \in Present(out) \/ g = k)
      BY <2>2, <2>7 DEF Present
    <3>3. Present(out)' \subseteq Generations /\ Present(out) \subseteq Generations
      BY DEF Present
    <3>4. \A g \in Generations : g \in 0..k <=> (g \in 0..(k - 1) \/ g = k)
      BY <2>6, SentinelBounds DEF Generations
    <3>5. 0..k \subseteq Generations
      BY <2>6, <1>3, SentinelBounds DEF Generations
    <3> HIDE DEF Present
    <3> QED BY <3>1, <3>2, <3>3, <3>4, <3>5
  <2>9. ASSUME NEW g \in 0..k
        PROVE  CheckGenome(out, g)'
    <3>1. CASE g = k
      BY <3>1, <2>2, <2>7, <1>3, <1>4 DEF CheckGenome
    <3>2. CASE g # k
      <4>1. g \in 0..(k - 1)
        BY <3>2, <2>6
      <4>2. CheckGenome(out, g) /\ g \in Generations
        BY <4>1, <1>1 DEF OneChain, Present
      <4> QED BY <3>2, <4>2, <2>7, <1>4 DEF CheckGenome
    <3> QED BY <3>1, <3>2
  <2>10. ASSUME NEW g \in 1..k
         PROVE  out'.records[g].parent = out'.records[g - 1].bundle
    <3>0. g \in Generations /\ g - 1 \in Generations /\ g - 1 # k
      BY <2>6, <1>3, SentinelBounds DEF Generations
    <3>1. CASE g = k
      <4>1. sen.last = out.records[k - 1]
        BY <3>1, <1>1, <1>2, <2>6 DEF OneChain
      <4> QED BY <3>0, <3>1, <4>1, <2>2, <2>7 DEF ParentOf
    <3>2. CASE g # k
      <4>1. g \in 1..(k - 1)
        BY <3>2, <2>6
      <4> QED BY <3>0, <3>2, <4>1, <1>1, <2>7 DEF OneChain
    <3> QED BY <3>1, <3>2
  <2>11. OneChain(k + 1)'
    <3>1. (k + 1) - 1 = k /\ k + 1 # 0
      BY <2>6
    <3>2. sen'.last = out'.records[k]
      BY <1>3, <2>5, <2>7
    <3> QED BY <2>5, <2>8, <2>9, <2>10, <3>1, <3>2 DEF OneChain
  <2> QED BY <2>6, <2>11 DEF ChainInv
<1> QED BY <1>5, <1>6

LEMMA ChainStep ==
  ASSUME PrimaryInv, ChainInv, SyncFails = FALSE, PrimaryNext
  PROVE  ChainInv'
BY ChainMachineStep, ChainPlaceStep, ChainAttestFails, ChainCommitStep
   DEF PrimaryNext

\* Every step is one of the primary, or leaves its outbox and its seals alone.
LEMMA StepsOfThePrimary ==
  ASSUME [Next]_vars
  PROVE  PrimaryNext \/ (UNCHANGED <<content, sen, out, sealed>>
                         /\ (now' = now \/ now' = now + 1))
<1>1. CASE UNCHANGED vars
  BY <1>1 DEF vars, primary
<1>2. CASE Next
  <2>1. CASE \E e \in Executors, s \in Serials : Arm(e, s)
    BY <2>1 DEF Arm
  <2>2. ASSUME NEW e \in Executors, Act(e)
        PROVE  UNCHANGED primary
    BY <2>2 DEF Act, ObserveReport, ObserveBeat, ObserveSilence, Spent,
       DecideFailover, Decline, CarryOut
  <2>3. ASSUME NEW e \in Executors, Leave(e)
        PROVE  UNCHANGED primary
    BY <2>3 DEF Leave
  <2>4. CASE Pass
    BY <2>4 DEF Pass
  <2> QED BY <1>2, <2>1, <2>2, <2>3, <2>4 DEF Next, PrimaryNext, primary
<1> QED BY <1>1, <1>2

LEMMA PrimaryInvStep ==
  ASSUME PrimaryInv, [Next]_vars
  PROVE  PrimaryInv'
<1>1. CASE PrimaryNext
  BY <1>1, PrimaryStep
<1>2. CASE UNCHANGED <<content, sen, out, sealed>> /\ (now' = now \/ now' = now + 1)
  <2>1. RecordsKnown' /\ SentinelKnows' /\ SealsNumbered'
    BY <1>2 DEF PrimaryInv, RecordsKnown, SentinelKnows, SealsNumbered, Known
  <2> QED BY <1>2, <2>1 DEF PrimaryInv, PrimaryType
<1> QED BY <1>1, <1>2, StepsOfThePrimary

LEMMA ChainInvStep ==
  ASSUME PrimaryInv, ChainInv, SyncFails = FALSE, [Next]_vars
  PROVE  ChainInv'
<1>1. CASE PrimaryNext
  BY <1>1, ChainStep
<1>2. CASE UNCHANGED <<content, sen, out, sealed>>
  <2>1. PICK k \in 0..MaxSeals : OneChain(k)
    BY DEF ChainInv
  <2>2. OneChain(k)'
    BY <1>2, <2>1, ChainKept DEF OneChain
  <2> QED BY <2>2 DEF ChainInv
<1> QED BY <1>1, <1>2, StepsOfThePrimary

\* Once a generation is recorded its bundle and its escrow envelope are the
\* ones the record describes, and the records are one unbroken chain from the
\* first: after any crash, failed seal, failed attestation or restart of the
\* sentinel (seal, New, ReadChain).  Where writeAtomic reports a failure it has
\* not renamed the record into place, that is.
THEOREM RecordedGenomesCheckOut ==
  ASSUME SyncFails = FALSE
  PROVE  Spec => []RecordedGenomeChecksOut
<1>1. Init => PrimaryInv /\ ChainInv
  BY PrimaryInitially, ChainInitially DEF Init
<1>2. PrimaryInv /\ ChainInv /\ [Next]_vars => (PrimaryInv /\ ChainInv)'
  BY PrimaryInvStep, ChainInvStep
<1>3. PrimaryInv /\ ChainInv => RecordedGenomeChecksOut
  <2> SUFFICES ASSUME PrimaryInv, ChainInv PROVE RecordedGenomeChecksOut
    OBVIOUS
  <2>1. PICK k \in 0..MaxSeals : OneChain(k)
    BY DEF ChainInv
  <2>2. Chain(out) = Present(out)
    BY <2>1, WholeChain
  <2>3. \A g \in Present(out) : CheckGenome(out, g)
    BY <2>1 DEF OneChain
  <2> QED BY <2>2, <2>3 DEF RecordedGenomeChecksOut
<1> QED BY <1>1, <1>2, <1>3, PTL DEF Spec

-----------------------------------------------------------------------------
(* The authority: DecisionInv.  A failover on the record is of a genome     *)
(* that is in the outbox and was sealed by the cutoff.                      *)

Kinds == {"compromise-report", "heartbeat-timeout", "stopped-overdue"}
Armed == [pc : {"watching"}, serial : Serials, hb : Beats1 \cup {NoBeat}]
Triggered == [pc : {"triggered"}, serial : Serials, kind : Kinds, at : Nat,
              last : Links]
Releasing == [pc |-> "release"]
Declined == [decision : {"declined"}, serial : Serials]
FailedOver == [decision : {"failover"}, serial : Serials, trigger : Kinds,
               at : Nat, last : Links, gen : Generations, bundle : Nat]

AuthorityType ==
    /\ intruded \in Int
    /\ exec \in [Executors -> Armed \cup Triggered \cup {Off, Releasing}]
    /\ log \in Seq(Declined \cup FailedOver)

Justified(d) ==
    /\ out.records[d.gen] # NoRecord /\ out.records[d.gen].bundle = d.bundle
    /\ d.gen <= d.last.gen
    /\ out.records[d.gen].at <= d.at - Policies[d.serial].quarantine

DecisionInv ==
    /\ AuthorityType /\ OneFailoverPerSerial
    /\ \A i \in Failovers : log[i] \in FailedOver /\ Justified(log[i])

LEMMA DecisionInitially == Init => DecisionInv
<1> SUFFICES ASSUME Init PROVE DecisionInv
  OBVIOUS
<1>1. log = <<>> /\ intruded \in Int /\ exec = [e \in Executors |-> Off]
  BY SentinelBounds DEF Init, SentinelInit, Never
<1>2. AuthorityType
  BY <1>1 DEF AuthorityType
<1> QED BY <1>1, <1>2 DEF DecisionInv, OneFailoverPerSerial, Failovers

\* Choose returns a generation of the outbox itself, however much of it has
\* been replicated.
LEMMA ChosenIsThere ==
  ASSUME PrimaryInv, NEW t \in Triggered, NEW box \in Replicas,
         Candidates(box, t) # {}
  PROVE  LET g == Chosen(box, t) IN
         /\ g \in Generations /\ g <= t.last.gen
         /\ out.records[g] # NoRecord /\ box.records[g] = out.records[g]
         /\ out.records[g].at <= t.at - Policies[t.serial].quarantine
<1>1. PICK R \in SUBSET Generations, F \in SUBSET Generations :
          box = Replica(R, F)
  BY DEF Replicas
<1>2. out \in Outboxes
  BY DEF PrimaryInv, PrimaryType
<1>3. box.records = [g \in Generations |-> IF g \in R THEN out.records[g]
                                           ELSE NoRecord]
  BY <1>1, <1>2 DEF Replica, Outboxes
<1>4. Candidates(box, t) = {g \in Vouched(box, t) : ByCutoff(box, t, g)
                                                    /\ CheckGenome(box, g)}
  BY DEF Candidates
<1>5. Candidates(box, t) \in SUBSET Generations
  BY <1>4 DEF Vouched, Chain, Present
<1> DEFINE g == Chosen(box, t)
<1>6. g \in Candidates(box, t)
  <2>1. MaxSeals - 1 \in Nat
    BY <1>5, SentinelBounds DEF Generations
  <2> QED BY <1>5, <2>1, MaxIsGreatest DEF Generations, Chosen
<1>7. g \in Present(box) /\ g <= t.last.gen /\ ByCutoff(box, t, g)
  BY <1>4, <1>6 DEF Vouched, Chain
<1> HIDE DEF g
<1>8. box.records[g] # NoRecord /\ g \in Generations
  BY <1>7 DEF Present
<1>9. box.records[g] = out.records[g]
  BY <1>3, <1>8
<1> QED BY <1>7, <1>8, <1>9 DEF ByCutoff, g

\* Appending a decision of a serial that is not spent.
LEMMA NotSpentAppends ==
  ASSUME DecisionInv, NEW d \in Declined \cup FailedOver, NotSpent(d.serial),
         log' = Append(log, d), intruded' \in Int,
         exec' \in [Executors -> Armed \cup Triggered \cup {Off, Releasing}],
         out' = out, d.decision = "failover" => d \in FailedOver /\ Justified(d)
  PROVE  DecisionInv'
<1>1. log \in Seq(Declined \cup FailedOver)
  BY DEF DecisionInv, AuthorityType
<1>2. /\ log' \in Seq(Declined \cup FailedOver) /\ Len(log') = Len(log) + 1
      /\ log'[Len(log) + 1] = d
      /\ \A i \in 1..Len(log) : log'[i] = log[i]
  BY <1>1
<1>3. \A i \in 1..Len(log) : log[i].serial \in Nat
  <2>1. ASSUME NEW i \in 1..Len(log)
        PROVE  log[i].serial \in Serials
    <3>1. log[i] \in Declined \cup FailedOver
      BY <1>1
    <3> QED BY <3>1 DEF Declined, FailedOver
  <2> QED BY <2>1, FailoverAssumption DEF Serials
<1>4. d.serial \in Nat
  <2>1. d.serial \in Serials
    BY DEF Declined, FailedOver
  <2> QED BY <2>1, FailoverAssumption DEF Serials
<1>5. OneFailoverPerSerial'
  <2> SUFFICES ASSUME NEW i \in 1..Len(log'), NEW j \in 1..Len(log'), i < j
               PROVE  /\ log'[i].serial <= log'[j].serial
                      /\ log'[i].decision = "failover"
                            => log'[i].serial < log'[j].serial
    BY <1>2 DEF OneFailoverPerSerial, Failovers
  <2>1. i \in 1..Len(log) /\ log'[i] = log[i]
    BY <1>1, <1>2
  <2>2. CASE j \in 1..Len(log)
    BY <1>1, <1>2, <2>1, <2>2 DEF DecisionInv, OneFailoverPerSerial, Failovers
  <2>3. CASE j = Len(log) + 1
    <3>1. log'[j] = d
      BY <1>2, <2>3
    <3>2. log[i].serial <= d.serial
          /\ (log[i].decision = "failover" => log[i].serial # d.serial)
      BY <1>1, <2>1 DEF NotSpent, Failovers
    <3> QED BY <3>1, <3>2, <2>1, <1>3, <1>4
  <2> QED BY <1>1, <1>2, <2>2, <2>3
<1>6. ASSUME NEW i \in 1..Len(log'), log'[i].decision = "failover"
      PROVE  log'[i] \in FailedOver /\ Justified(log[i])'
  <2>1. CASE i = Len(log) + 1
    BY <2>1, <1>2, <1>6 DEF Justified
  <2>2. CASE i # Len(log) + 1
    <3>1. i \in 1..Len(log)
      BY <2>2, <1>1, <1>2
    <3>2. i \in Failovers
      BY <3>1, <1>1, <1>2, <1>6 DEF Failovers
    <3> QED BY <3>1, <3>2, <1>2 DEF DecisionInv, Justified
  <2> QED BY <2>1, <2>2
<1>7. \A i \in Failovers' : log'[i] \in FailedOver /\ Justified(log[i])'
  BY <1>2, <1>6 DEF Failovers
<1>8. AuthorityType'
  BY <1>2 DEF AuthorityType
<1> QED BY <1>5, <1>7, <1>8 DEF DecisionInv

\* Steps that add no decision keep those on the record.
LEMMA DecisionKept ==
  ASSUME PrimaryInv, DecisionInv, log' = log, intruded' \in Int,
         exec' \in [Executors -> Armed \cup Triggered \cup {Off, Releasing}],
         \A g \in Generations : out.records[g] # NoRecord
                                  => out'.records[g] = out.records[g]
  PROVE  DecisionInv'
<1>1. AuthorityType' /\ OneFailoverPerSerial'
  BY DEF DecisionInv, AuthorityType, OneFailoverPerSerial, Failovers
<1>2. ASSUME NEW i \in Failovers'
      PROVE  log'[i] \in FailedOver /\ Justified(log[i])'
  <2>1. i \in Failovers /\ log'[i] = log[i]
    BY <1>2 DEF Failovers
  <2>2. log[i] \in FailedOver /\ Justified(log[i])
    BY <2>1 DEF DecisionInv
  <2>3. log[i].gen \in Generations
    BY <2>2 DEF FailedOver
  <2> QED BY <2>1, <2>2, <2>3 DEF Justified
<1> QED BY <1>1, <1>2 DEF DecisionInv

LEMMA ExecutorAt ==
  ASSUME DecisionInv, NEW e \in Executors
  PROVE  /\ exec[e].pc = "watching" => exec[e] \in Armed
         /\ exec[e].pc = "triggered" => exec[e] \in Triggered
         /\ \A x \in Armed \cup Triggered \cup {Off, Releasing} :
               [exec EXCEPT ![e] = x]
                  \in [Executors -> Armed \cup Triggered \cup {Off, Releasing}]
<1>1. exec \in [Executors -> Armed \cup Triggered \cup {Off, Releasing}]
  BY DEF DecisionInv, AuthorityType
<1>2. exec[e] \in Armed \cup Triggered \cup {Off, Releasing}
  BY <1>1
<1>3. /\ exec[e].pc = "watching" => exec[e] \in Armed
      /\ exec[e].pc = "triggered" => exec[e] \in Triggered
  BY <1>2 DEF Armed, Triggered, Off, Releasing
<1> QED BY <1>1, <1>3

LEMMA TriggerType ==
  ASSUME DecisionInv, NEW e \in Executors, exec[e] \in Armed,
         NEW kind \in Kinds, NEW at \in Nat, NEW last \in Links,
         Trigger(e, kind, at, last)
  PROVE  exec' \in [Executors -> Armed \cup Triggered \cup {Off, Releasing}]
<1> DEFINE x == [pc |-> "triggered", serial |-> exec[e].serial, kind |-> kind,
                 at |-> at, last |-> last]
<1>1. x \in Triggered
  BY DEF Triggered, Armed
<1>2. exec' = [exec EXCEPT ![e] = x]
  BY DEF Trigger
<1> HIDE DEF x
<1> QED BY <1>1, <1>2, ExecutorAt

\* What an executor reads in the outbox makes a trigger.
LEMMA ObserveStep ==
  ASSUME PrimaryInv, DecisionInv, NEW e \in Executors,
         ObserveReport(e) \/ ObserveBeat(e) \/ ObserveSilence(e)
  PROVE  exec' \in [Executors -> Armed \cup Triggered \cup {Off, Releasing}]
<1>1. exec[e] \in Armed
  BY ExecutorAt DEF ObserveReport, ObserveBeat, ObserveSilence, Watching
<1>2. out.beat \in Beats1 \cup {NoBeat} /\ out.report \in Reports \cup {NoReport}
  BY DEF PrimaryInv, PrimaryType, Outboxes
<1>3. exec[e].hb \in Beats1 \cup {NoBeat}
  BY <1>1 DEF Armed
<1>4. CASE ObserveReport(e)
  <2>1. out.report.at \in Nat /\ out.report.last \in Links
    BY <1>2, <1>4 DEF ObserveReport, Reported, Reports
  <2> QED BY <1>1, <1>4, <2>1, TriggerType DEF ObserveReport, Kinds
<1>5. CASE ObserveBeat(e)
  <2>1. out.beat \in Beats1
    <3>1. out.beat.seq > exec[e].hb.seq /\ exec[e].hb.seq \in Nat
      BY <1>3, <1>5 DEF ObserveBeat, Rises, Beats1, NoBeat
    <3> QED BY <3>1, <1>2 DEF NoBeat
  <2>2. CASE Trigger(e, "compromise-report", out.beat.at, out.beat.last)
    <3>1. out.beat.at \in Nat /\ out.beat.last \in Links
      BY <2>1 DEF Beats1
    <3> QED BY <1>1, <2>2, <3>1, TriggerType DEF Kinds
  <2>3. CASE exec' = [exec EXCEPT ![e].hb = out.beat]
    <3> DEFINE x == [exec[e] EXCEPT !.hb = out.beat]
    <3>1. x \in Armed
      BY <1>1, <2>1 DEF Armed
    <3>2. exec' = [exec EXCEPT ![e] = x]
      BY <2>3
    <3> HIDE DEF x
    <3> QED BY <3>1, <3>2, ExecutorAt
  <2> QED BY <1>5, <2>2, <2>3 DEF ObserveBeat
<1>6. CASE ObserveSilence(e)
  <2>1. exec[e].hb \in Beats1
    BY <1>3, <1>6 DEF ObserveSilence
  <2>2. exec[e].hb.at \in Nat /\ exec[e].hb.last \in Links
    BY <2>1 DEF Beats1
  <2>3. \E kind \in Kinds : Trigger(e, kind, exec[e].hb.at, exec[e].hb.last)
    BY <1>6 DEF ObserveSilence, Kinds
  <2> QED BY <1>1, <2>2, <2>3, TriggerType
<1> QED BY <1>4, <1>5, <1>6

LEMMA FailoverStep ==
  ASSUME PrimaryInv, DecisionInv, NEW e \in Executors, NEW box \in Replicas,
         DecideFailover(e, box)
  PROVE  DecisionInv'
<1> DEFINE t == exec[e]
           g == Chosen(box, t)
           d == [decision |-> "failover", serial |-> t.serial,
                 trigger |-> t.kind, at |-> t.at, last |-> t.last, gen |-> g,
                 bundle |-> box.records[g].bundle]
<1>1. Deciding(e) /\ Qualifies(box, t)
  BY DEF DecideFailover
<1>2. t \in Triggered /\ NotSpent(t.serial)
  BY <1>1, ExecutorAt DEF Deciding, Reopens
<1>3. Candidates(box, t) # {}
  BY <1>1 DEF Qualifies
<1>4. /\ g \in Generations /\ g <= t.last.gen
      /\ out.records[g] # NoRecord /\ box.records[g] = out.records[g]
      /\ out.records[g].at <= t.at - Policies[t.serial].quarantine
  <2> HIDE DEF t
  <2> QED BY <1>2, <1>3, ChosenIsThere
<1>5. log' = Append(log, d)
      /\ exec' = [exec EXCEPT ![e] = Releasing] /\ UNCHANGED primary
  BY DEF DecideFailover, Releasing
<1> HIDE DEF g
<1>6. box.records[g].bundle \in Nat
  <2>1. out.records[g] \in MaybeRec
    BY <1>4 DEF PrimaryInv, PrimaryType, Outboxes
  <2> QED BY <1>4, <2>1 DEF MaybeRec, Rec
<1> HIDE DEF t
<1>7. d \in FailedOver /\ d.serial = t.serial /\ d.decision = "failover"
  BY <1>2, <1>4, <1>6 DEF FailedOver, Triggered
<1>8. Justified(d)
  BY <1>4 DEF Justified
<1> HIDE DEF d
<1>9. exec' \in [Executors -> Armed \cup Triggered \cup {Off, Releasing}]
  BY <1>5, ExecutorAt
<1>10. out' = out /\ intruded' \in Int
  BY <1>5 DEF primary, DecisionInv, AuthorityType
<1> QED BY <1>2, <1>5, <1>7, <1>8, <1>9, <1>10, NotSpentAppends

LEMMA DeclineStep ==
  ASSUME PrimaryInv, DecisionInv, NEW e \in Executors, NEW box \in Replicas,
         Decline(e, box)
  PROVE  DecisionInv'
<1> DEFINE t == exec[e]
           d == [decision |-> "declined", serial |-> t.serial]
<1>1. t \in Triggered /\ NotSpent(t.serial)
  BY ExecutorAt DEF Decline, Deciding, Reopens
<1>2. log' = Append(log, d) /\ exec' = [exec EXCEPT ![e] = Off]
      /\ UNCHANGED primary
  BY DEF Decline
<1> HIDE DEF t
<1>3. d \in Declined /\ d.serial = t.serial /\ d.decision # "failover"
  BY <1>1 DEF Declined, Triggered
<1> HIDE DEF d
<1>4. exec' \in [Executors -> Armed \cup Triggered \cup {Off, Releasing}]
  BY <1>2, ExecutorAt
<1>5. out' = out /\ intruded' \in Int
  BY <1>2 DEF primary, DecisionInv, AuthorityType
<1> QED BY <1>1, <1>2, <1>3, <1>4, <1>5, NotSpentAppends

LEMMA DecisionStep ==
  ASSUME PrimaryInv, DecisionInv, [Next]_vars
  PROVE  DecisionInv'
<1>0. exec \in [Executors -> Armed \cup Triggered \cup {Off, Releasing}]
      /\ intruded \in Int /\ now \in Nat
  BY DEF PrimaryInv, PrimaryType, DecisionInv, AuthorityType
<1>1. CASE UNCHANGED vars
  BY <1>0, <1>1, DecisionKept DEF vars, primary, authority
<1>2. CASE PrimaryNext /\ UNCHANGED authority
  <2>1. intruded' \in Int
    BY <1>0, <1>2 DEF PrimaryNext, Change, Intrude, Crash, Start, CheckWires,
       WireFires, NothingSealed, PlaceBundle, PlaceFails, AttestFails, Commit,
       CommitFails, Heartbeat, Stop
  <2>2. log' = log /\ exec' = exec
    BY <1>2 DEF authority
  <2> QED BY <1>0, <1>2, <2>1, <2>2, PrimaryStep, DecisionKept
<1>3. ASSUME NEW e \in Executors, NEW s \in Serials, Arm(e, s)
      PROVE  DecisionInv'
  <2> DEFINE x == [pc |-> "watching", serial |-> s, hb |-> NoBeat]
  <2>1. x \in Armed
    BY DEF Armed
  <2>2. exec' = [exec EXCEPT ![e] = x] /\ log' = log /\ out' = out
        /\ intruded' = intruded
    BY <1>3 DEF Arm
  <2> HIDE DEF x
  <2> QED BY <1>0, <2>1, <2>2, ExecutorAt, DecisionKept
<1>4. ASSUME NEW e \in Executors, Act(e) \/ Leave(e)
      PROVE  DecisionInv'
  <2>1. CASE ObserveReport(e) \/ ObserveBeat(e) \/ ObserveSilence(e)
    <3>1. log' = log /\ out' = out /\ intruded' = intruded
      BY <2>1 DEF ObserveReport, ObserveBeat, ObserveSilence, primary
    <3> QED BY <1>0, <2>1, <3>1, ObserveStep, DecisionKept
  <2>2. CASE Spent(e) \/ CarryOut(e) \/ Leave(e)
    <3>1. log' = log /\ out' = out /\ intruded' = intruded
          /\ exec' = [exec EXCEPT ![e] = Off]
      BY <2>2 DEF Spent, CarryOut, Leave, primary
    <3> QED BY <1>0, <3>1, ExecutorAt, DecisionKept
  <2> QED BY <1>4, <2>1, <2>2, FailoverStep, DeclineStep DEF Act
<1>5. CASE Pass
  <2>1. log' = log /\ out' = out /\ intruded' = intruded /\ exec' = exec
    BY <1>5 DEF Pass, authority
  <2> QED BY <1>0, <2>1, DecisionKept
<1> QED BY <1>1, <1>2, <1>3, <1>4, <1>5 DEF Next, PrimaryNext

LEMMA AuthorityInvariant == Spec => [](PrimaryInv /\ DecisionInv)
<1>1. Init => PrimaryInv /\ DecisionInv
  BY PrimaryInitially, DecisionInitially DEF Init
<1>2. PrimaryInv /\ DecisionInv /\ [Next]_vars => (PrimaryInv /\ DecisionInv)'
  BY PrimaryInvStep, DecisionStep
<1> QED BY <1>1, <1>2, PTL DEF Spec

-----------------------------------------------------------------------------
\* "One policy serial performs at most one failover", and no decision is taken
\* under a policy older than one already decided under: for any number of
\* executors arming, deciding and dying in any order (CheckNotSpent).
THEOREM PolicyFailsOverOnce == Spec => []OneFailoverPerSerial
<1>1. DecisionInv => OneFailoverPerSerial
  BY DEF DecisionInv
<1> QED BY <1>1, AuthorityInvariant, PTL

\* The genome a failover chose is a record of the primary's own outbox, no
\* newer than the trigger vouches for, whichever files had been replicated and
\* whatever the primary did since, syncing or not (Choose).
THEOREM ChosenIsCommitted == Spec => []ChosenWasCommitted
<1>1. DecisionInv => ChosenWasCommitted
  BY DEF DecisionInv, ChosenWasCommitted, Justified
<1> QED BY <1>1, AuthorityInvariant, PTL

\* An intrusion reported within the policy's quarantine left no trace in the
\* genome that is restored (tick, Choose).
THEOREM RestoredGenomeIsClean == Spec => []RestoredIsClean
<1>1. PrimaryInv /\ DecisionInv => RestoredIsClean
  <2> SUFFICES ASSUME PrimaryInv, DecisionInv, NEW i \in Failovers,
                      log[i].at - intruded < Policies[log[i].serial].quarantine
               PROVE  sealed[log[i].bundle].at < intruded
    BY DEF RestoredIsClean
  <2>1. log[i] \in FailedOver /\ Justified(log[i]) /\ intruded \in Int
    BY DEF DecisionInv, AuthorityType
  <2> DEFINE d == log[i]
             r == out.records[d.gen]
  <2>2. d.gen \in Generations /\ d.at \in Nat /\ d.serial \in Serials
    BY <2>1 DEF FailedOver
  <2>3. r # NoRecord /\ r.bundle = d.bundle
        /\ r.at <= d.at - Policies[d.serial].quarantine
    BY <2>1 DEF Justified
  <2>4. sealed[d.bundle] = r /\ r \in Rec
    BY <2>2, <2>3 DEF PrimaryInv, RecordsKnown, Known, PrimaryType, Outboxes,
       MaybeRec
  <2>5. Policies[d.serial].quarantine \in Nat /\ r.at \in Nat
    BY <2>2, <2>4, FailoverAssumption DEF Serials, Rec
  <2>6. d.at - intruded < Policies[d.serial].quarantine
    OBVIOUS
  <2> HIDE DEF d, r
  <2>7. r.at < intruded
    BY <2>1, <2>2, <2>3, <2>5, <2>6
  <2> QED BY <2>4, <2>7 DEF d
<1> QED BY <1>1, AuthorityInvariant, PTL
=============================================================================
