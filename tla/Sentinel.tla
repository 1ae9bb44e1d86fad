------------------------------ MODULE Sentinel ------------------------------
(***************************************************************************)
(* The sentinel of the primary (ADR 0012, 0017): internal/genome/sentinel  *)
(* run by acpctl sentinel watch.  Every tick checks the tripwires, seals   *)
(* the state if it settled into something new, and writes a heartbeat; a   *)
(* wire that fires ends in a compromise report.  All of it goes to the     *)
(* outbox, a directory that outlives the process.                          *)
(*                                                                         *)
(* A state is a number (its digest and its fingerprint), a bundle is the   *)
(* number of the seal that made it: every seal has a key of its own, so    *)
(* two seals of one state are two bundles.  An escrow envelope is named by *)
(* the bundle whose key it holds.  What the sentinel signs verifies.       *)
(***************************************************************************)
EXTENDS Integers, Sequences, FiniteSets, FiniteSetsExt

CONSTANTS
    SyncFails,      \* the directory's sync may fail after a rename
    MaxTime, MaxStates, MaxSeals, MaxBeats,
    MaxStarts       \* processes started; all of these bound the model

ASSUME SentinelBounds ==
    /\ SyncFails \in BOOLEAN
    /\ MaxTime \in Nat /\ MaxStates \in Nat /\ MaxSeals \in Nat
    /\ MaxBeats \in Nat /\ MaxStarts \in Nat

VARIABLES
    now,        \* the time
    content,    \* the state kept sealed
    intruded,   \* when the machine was broken into; Never before
    wires,      \* the wires were armed on the machine as it is now
    starts,     \* how many processes were started, sentinels and executors
    sen,        \* the sentinel's process
    out,        \* the outbox
    sealed      \* every bundle made, in order (history)

primary == <<now, content, intruded, wires, starts, sen, out, sealed>>

-----------------------------------------------------------------------------
Never == MaxTime + 1
Generations == 0..(MaxSeals - 1)
NoLink == [bundle |-> 0]
NoRecord == [bundle |-> 0]
NoBeat == [seq |-> 0]
NoReport == [at |-> Never]
Down == [step |-> "down"]
EmptyOutbox ==
    [records |-> [g \in Generations |-> NoRecord],
     bundles |-> [g \in Generations |-> 0],
     escrows |-> [g \in Generations |-> 0],
     beat |-> NoBeat, report |-> NoReport]

At(step) == sen.step = step
GoTo(step) == sen' = [sen EXCEPT !.step = step]

\* SealRecord.Link, lastLink
Link(rec) == IF rec = NoRecord THEN NoLink
             ELSE [gen |-> rec.gen, bundle |-> rec.bundle, at |-> rec.at]

\* ReadChain: from the lowest generation present, each the parent of the next.
Follows(box, g) ==
    /\ box.records[g - 1] # NoRecord
    /\ box.records[g].parent = box.records[g - 1].bundle

Present(box) == {g \in Generations : box.records[g] # NoRecord}

Chain(box) ==
    {g \in Present(box) :
        \A h \in (Min(Present(box)) + 1)..g : h \in Present(box)
                                             /\ Follows(box, h)}

Newest(box) == IF Chain(box) = {} THEN NoRecord
               ELSE box.records[Max(Chain(box))]

\* CheckGenome: bundle and envelope are the ones the record describes.
CheckGenome(box, g) ==
    /\ box.bundles[g] = box.records[g].bundle
    /\ box.escrows[g] = box.records[g].bundle

-----------------------------------------------------------------------------
(* The machine.                                                             *)

Change ==
    /\ content < MaxStates
    /\ content' = content + 1
    /\ UNCHANGED <<now, intruded, wires, starts, sen, out, sealed>>

\* Something the wires watch is touched, and the state with it.
Intrude ==
    /\ intruded = Never /\ content < MaxStates
    /\ intruded' = now
    /\ content' = content + 1
    /\ wires' = FALSE
    /\ UNCHANGED <<now, starts, sen, out, sealed>>

\* The process or the machine dies.
Crash ==
    /\ ~At("down")
    /\ sen' = Down
    /\ UNCHANGED <<now, content, intruded, wires, starts, out, sealed>>

-----------------------------------------------------------------------------
(* New.                                                                     *)

\* Heartbeats keep rising across restarts.
FirstSeq == out.beat.seq

\* No compromise report, no record outside the chain, the newest genome
\* whole.
Opens ==
    /\ out.report = NoReport
    /\ Chain(out) = Present(out)
    /\ Chain(out) # {} => CheckGenome(out, Max(Chain(out)))

\* The wires are armed on what is there.
Start ==
    /\ At("down") /\ starts < MaxStarts
    /\ Opens
    /\ starts' = starts + 1
    /\ wires' = TRUE
    /\ sen' = [step |-> "check", seq |-> FirstSeq, last |-> Newest(out),
               stage |-> NoRecord]
    /\ UNCHANGED <<now, content, intruded, out, sealed>>

-----------------------------------------------------------------------------
(* tick: the wires, the seal, the heartbeat.                                *)

Beat(status) ==
    [seq |-> sen.seq + 1, at |-> now, status |-> status,
     last |-> Link(sen.last)]

\* heartbeat: written, or not (the TEE does not vouch for it, a closing one
\* cannot be written) and then the sequence does not move.
Beats(box, status) ==
    {box} \cup (IF sen.seq < MaxBeats
               THEN {[box EXCEPT !.beat = Beat(status)]} ELSE {})

\* compromised: the report first; the closing heartbeat is a courtesy.
WireFires ==
    /\ At("check") /\ ~wires
    /\ out' \in Beats([out EXCEPT !.report = [at |-> now,
                                              last |-> Link(sen.last)]],
                     "compromised")
    /\ sen' = Down
    /\ UNCHANGED <<now, content, intruded, wires, starts, sealed>>

CheckWires ==
    /\ At("check") /\ wires
    /\ GoTo("seal")
    /\ UNCHANGED <<now, content, intruded, wires, starts, out, sealed>>

\* maybeSeal: the state is as sealed, unreadable, or not settled yet; or it
\* changed while it was read.
NothingSealed ==
    /\ At("seal")
    /\ GoTo("beat")
    /\ UNCHANGED <<now, content, intruded, wires, starts, out, sealed>>

\* Mutant of NextOf: a seal takes the number of the newest genome.
NextOfSame(last) == IF last = NoRecord THEN 0 ELSE last.gen

NextOf(last) == IF last = NoRecord THEN 0 ELSE last.gen + 1

ParentOf(last) == last.bundle

\* The state as Describe and SealFile both read it, numbered after the newest
\* genome and dated.
Genome ==
    [gen |-> NextOf(sen.last), bundle |-> Len(sealed) + 1, payload |-> content,
     at |-> now, parent |-> ParentOf(sen.last)]

\* seal: the state is not the newest genome's; a bundle is made of it.
Seals ==
    /\ At("seal") /\ Len(sealed) < MaxSeals
    /\ sen.last # NoRecord => sen.last.payload # content
    /\ sealed' = Append(sealed, Genome)

\* The envelope, then the bundle into place.
PlaceBundle ==
    /\ Seals
    /\ out' = [out EXCEPT !.escrows[Genome.gen] = Genome.bundle,
                          !.bundles[Genome.gen] = Genome.bundle]
    /\ sen' = [sen EXCEPT !.step = "commit", !.stage = Genome]
    /\ UNCHANGED <<now, content, intruded, wires, starts>>

\* The envelope is written and the bundle cannot be.
PlaceFails ==
    /\ Seals
    /\ out' = [out EXCEPT !.escrows[Genome.gen] = Genome.bundle]
    /\ GoTo("beat")
    /\ UNCHANGED <<now, content, intruded, wires, starts>>

\* The TEE will not vouch for the record: bundle and envelope go.
AttestFails ==
    /\ At("commit")
    /\ out' = [out EXCEPT !.bundles[sen.stage.gen] = 0,
                          !.escrows[sen.stage.gen] = 0]
    /\ sen' = [sen EXCEPT !.step = "beat", !.stage = NoRecord]
    /\ UNCHANGED <<now, content, intruded, wires, starts, sealed>>

\* The record, never over another: the commit point.
Commit ==
    /\ At("commit") /\ out.records[sen.stage.gen] = NoRecord
    /\ out' = [out EXCEPT !.records[sen.stage.gen] = sen.stage]
    /\ sen' = [sen EXCEPT !.step = "beat", !.last = sen.stage,
                          !.stage = NoRecord]
    /\ UNCHANGED <<now, content, intruded, wires, starts, sealed>>

\* writeAtomic fails: the record exists already, it cannot be written, or it
\* is in place and the directory will not sync.
CommitFails ==
    /\ At("commit")
    /\ \/ out' = out
       \/ /\ SyncFails /\ out.records[sen.stage.gen] = NoRecord
          /\ out' = [out EXCEPT !.records[sen.stage.gen] = sen.stage]
    /\ sen' = [sen EXCEPT !.step = "beat", !.stage = NoRecord]
    /\ UNCHANGED <<now, content, intruded, wires, starts, sealed>>

Heartbeat ==
    /\ At("beat")
    /\ out' \in Beats(out, "watching")
    /\ sen' = [sen EXCEPT !.step = "check",
                          !.seq = IF out' = out THEN @ ELSE @ + 1]
    /\ UNCHANGED <<now, content, intruded, wires, starts, sealed>>

\* The context ended.
Stop ==
    /\ At("check")
    /\ out' \in Beats(out, "stopped")
    /\ sen' = Down
    /\ UNCHANGED <<now, content, intruded, wires, starts, sealed>>

-----------------------------------------------------------------------------
SentinelInit ==
    /\ now = 0 /\ content = 1 /\ intruded = Never /\ wires = TRUE
    /\ starts = 0 /\ sen = Down /\ out = EmptyOutbox /\ sealed = <<>>

-----------------------------------------------------------------------------
SentinelTypeOK ==
    /\ now \in 0..MaxTime /\ content \in 1..MaxStates
    /\ intruded \in 0..Never /\ wires \in BOOLEAN /\ starts \in 0..MaxStarts
    /\ sen.step \in {"down", "check", "seal", "commit", "beat"}
    /\ out.bundles \in [Generations -> 0..MaxSeals]
    /\ out.escrows \in [Generations -> 0..MaxSeals]

(* Once a generation is recorded, its files are the ones the record         *)
(* describes, whatever crash comes after: the record is the commit point    *)
(* and nothing is sealed over a committed generation; and the records form  *)
(* one chain, across crashes, retries and restarts (seal, ReadChain).       *)
RecordedGenomeChecksOut ==
    /\ \A g \in Present(out) : CheckGenome(out, g)
    /\ Chain(out) = Present(out)
=============================================================================
