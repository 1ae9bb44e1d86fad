------------------------------ MODULE AuditLog ------------------------------
(***************************************************************************)
(* The Return Path audit log of sagvd: a hash-linked chain kept in a live  *)
(* bbolt file and in closed segments moved to an archive directory (ADR    *)
(* 0027).  The module follows                                              *)
(*   cmd/sagvd/audit_returnpath.go    openReturnPathAudit, rotateIfDue,    *)
(*                                    countingChain.Append;                *)
(*   cmd/sagvd/crosscloud_emitter.go  chainAuditEmitter.build;             *)
(*   internal/audit/chain/persistent.go  PersistentChain;                  *)
(*   internal/audit/store/segment.go  Rotate, Create, OpenLive,            *)
(*                                    continueFrom.                        *)
(*                                                                         *)
(* Every effect on the file system is an action of its own, so the process *)
(* may die between any two of them, and every one of them may fail.  A     *)
(* bbolt transaction is atomic.  The chain's lock is held from the first   *)
(* step of a rotation to its last: while pc is a rotation step no writer   *)
(* appends.                                                                *)
(*                                                                         *)
(* An event's hash is abstracted to the order in which the event was       *)
(* stored, which no two stored events share; genesis is 0.  Signatures,    *)
(* payloads, times and the events' kinds other than AUDIT_SEGMENT_CLOSED   *)
(* are left out.                                                           *)
(***************************************************************************)
EXTENDS Naturals, Sequences

CONSTANTS Writers,         \* goroutines that append to the log
          SegmentEvents,   \* audit.segment_events; 0 is off
          ClosesByAge,     \* audit.segment_max_age_seconds is set
          ShipsUnrecorded, \* the operator moves archives without looking
          MaxEvents,       \* bound: the length up to which writers append
          MaxIds           \* bound: event ids the emitter hands out in a life

\* Config.validate refuses segment_events = 1 (cmd/sagvd/config.go).
ASSUME ConfigAssumption ==
    /\ SegmentEvents \in Nat \ {1}
    /\ ClosesByAge \in BOOLEAN
    /\ ShipsUnrecorded \in BOOLEAN
ASSUME BoundAssumption == MaxEvents \in Nat /\ MaxIds \in Nat

VARIABLES
    \* the disk
    present,   \* a file exists at audit.log_path
    live,      \* what that file holds
    archives,  \* closed segments in audit.archive_dir
    shipped,   \* closed segments the operator moved elsewhere
    \* the process
    pc,        \* "down", "up", or the step of a rotation under way
    booting,   \* the steps are openReturnPathAudit's, not a rotation's
    target,    \* the closed segment being continued
    handle,    \* BBoltStore.db is open
    unrecorded,\* PersistentChain.unrecorded is set
    base, n, tip, \* PersistentChain's
    counter,   \* chainAuditEmitter.counter
    writer,    \* where each writer is in countingChain.Append
    eventId,   \* the id of the event a writer has built
    \* history
    log        \* every event stored, in order

disk == <<present, live, archives, shipped>>
chain == <<base, n, tip>>
vars == <<disk, pc, booting, target, handle, unrecorded, chain, counter,
          writer, eventId, log>>

-----------------------------------------------------------------------------

Name == [first : Nat, last : Nat]
NoSegment == [first |-> 0, last |-> 0]
Event == [hash : Nat, prev : Nat, closes : BOOLEAN, segment : Name, id : Nat]

\* A store file: hasStart says whether the segment_start bucket is there;
\* BBoltStore.Start answers index 0 and the genesis hash when it is not.
File == [hasStart : BOOLEAN, first : Nat, prev : Nat, prevSegment : Name,
         events : Seq(Event)]
Archive == [name : Name, file : File]

EmptyFile == [hasStart |-> FALSE, first |-> 0, prev |-> 0,
              prevSegment |-> NoSegment, events |-> <<>>]

\* Mutant of StartFile: the new segment starts at the last index of the old.
StartFileOffByOne(name, prevTip) ==
    [hasStart |-> TRUE, first |-> name.last, prev |-> prevTip,
     prevSegment |-> name, events |-> <<>>]

\* The file Create makes: a segment start that continues the archive name
\* after the hash prevTip.
StartFile(name, prevTip) ==
    [hasStart |-> TRUE, first |-> name.last + 1, prev |-> prevTip,
     prevSegment |-> name, events |-> <<>>]

NextHash == Len(log) + 1

TypeOK ==
    /\ present \in BOOLEAN
    /\ live \in File
    /\ archives \subseteq Archive
    /\ shipped \subseteq Archive
    /\ pc \in {"down", "up", "rename", "create", "start", "record"}
    /\ booting \in BOOLEAN
    /\ target \in Name
    /\ handle \in BOOLEAN
    /\ unrecorded \in BOOLEAN
    /\ base \in Nat /\ n \in Nat /\ tip \in Nat
    /\ counter \in Nat
    /\ writer \in [Writers -> {"idle", "built", "check", "rotate"}]
    /\ eventId \in [Writers -> Nat]
    /\ log \in Seq(Event)

Init ==
    /\ present = FALSE /\ live = EmptyFile
    /\ archives = {} /\ shipped = {}
    /\ pc = "down" /\ booting = FALSE /\ target = NoSegment
    /\ handle = FALSE /\ unrecorded = FALSE
    /\ base = 0 /\ n = 0 /\ tip = 0
    /\ counter = 0
    /\ writer = [w \in Writers |-> "idle"]
    /\ eventId = [w \in Writers |-> 0]
    /\ log = <<>>

-----------------------------------------------------------------------------
(* The writers: Emit builds an event, countingChain.Append appends it and   *)
(* then looks whether the segment is due.                                   *)

\* chainAuditEmitter.build: the counter moves under the emitter's own lock,
\* before the chain's is taken.
Build(w) ==
    /\ pc # "down" /\ ~booting
    /\ writer[w] = "idle"
    /\ counter < MaxIds
    /\ counter' = counter + 1
    /\ writer' = [writer EXCEPT ![w] = "built"]
    /\ eventId' = [eventId EXCEPT ![w] = counter + 1]
    /\ UNCHANGED <<disk, pc, booting, target, handle, unrecorded, chain, log>>

\* Mutant of Store: the key does not advance, the last event is overwritten.
StoreOverwrites(event) ==
    /\ live' = [live EXCEPT !.events =
                    IF @ = <<>> THEN <<event>> ELSE [@ EXCEPT ![Len(@)] = event]]
    /\ log' = Append(log, event)
    /\ n' = n + 1
    /\ tip' = event.hash

\* PersistentChain.appendLocked on an open store: the event is sealed to the
\* tip and stored, and only then does the chain advance.
Store(event) ==
    /\ live' = [live EXCEPT !.events = Append(@, event)]
    /\ log' = Append(log, event)
    /\ n' = n + 1
    /\ tip' = event.hash

PlainEvent(id) ==
    [hash |-> NextHash, prev |-> tip, closes |-> FALSE,
     segment |-> NoSegment, id |-> id]

\* Mutant of ClosingEvent: it names the segment it opens.
ClosingEventNamesNew(id) ==
    [hash |-> NextHash, prev |-> tip, closes |-> TRUE,
     segment |-> [first |-> n, last |-> n], id |-> id]

ClosingEvent(id) ==
    [hash |-> NextHash, prev |-> tip, closes |-> TRUE,
     segment |-> target, id |-> id]

AppendEvent(w) ==
    /\ pc = "up" /\ writer[w] = "built"
    /\ ~unrecorded /\ handle
    /\ Len(log) < MaxEvents
    /\ Store(PlainEvent(eventId[w]))
    /\ writer' = [writer EXCEPT ![w] = "check"]
    /\ UNCHANGED <<present, archives, shipped, pc, booting, target, handle,
                   unrecorded, base, counter, eventId>>

\* The chain refuses (a closing is off the record, the store is closed) or
\* the disk does; nothing changes but the id that was used up.
AppendFails(w) ==
    /\ pc = "up" /\ writer[w] = "built"
    /\ writer' = [writer EXCEPT ![w] = "idle"]
    /\ UNCHANGED <<disk, pc, booting, target, handle, unrecorded, chain,
                   counter, eventId, log>>

-----------------------------------------------------------------------------
(* Rotation: rotateIfDue, PersistentChain.Rotate and store.Rotate.          *)

LiveName == [first |-> base, last |-> n - 1]

\* segmentDue; whether the first event is old enough is the clock's choice.
SegmentDue(live_events, aged) ==
    /\ live_events > 0
    /\ \/ SegmentEvents > 0 /\ live_events >= SegmentEvents
       \/ ClosesByAge /\ live_events >= 2 /\ aged

Finish(w) == writer' = [writer EXCEPT ![w] = "idle"]

\* rotateIfDue finds nothing to do: rotation is off, the segment is not due,
\* the closing of an earlier one is off the record, or store.Rotate refuses
\* before it touches the file (closed store, archive already there, archive
\* directory not to be made).
CheckNotDue(w) ==
    /\ pc = "up" /\ writer[w] = "check"
    /\ Finish(w)
    /\ UNCHANGED <<disk, pc, booting, target, handle, unrecorded, chain,
                   counter, eventId, log>>

\* store.Rotate up to s.Close.
CloseLive(w) ==
    /\ pc = "up" /\ writer[w] = "check"
    /\ ~unrecorded /\ handle
    /\ \E aged \in BOOLEAN : SegmentDue(n - base, aged)
    /\ \A a \in archives : a.name # LiveName
    /\ handle' = FALSE
    /\ pc' = "rename"
    /\ target' = LiveName
    /\ writer' = [writer EXCEPT ![w] = "rotate"]
    /\ UNCHANGED <<disk, booting, unrecorded, chain, counter, eventId, log>>

\* Mutant of Rename: one archive name, so a later segment replaces the one
\* before it.
RenameReplaces ==
    /\ pc = "rename"
    /\ archives' = {[name |-> target, file |-> live]}
    /\ present' = FALSE /\ live' = EmptyFile
    /\ pc' = "create"
    /\ UNCHANGED <<shipped, booting, target, handle, unrecorded, chain,
                   counter, writer, eventId, log>>

Rename ==
    /\ pc = "rename"
    /\ archives' = archives \cup {[name |-> target, file |-> live]}
    /\ present' = FALSE /\ live' = EmptyFile
    /\ pc' = "create"
    /\ UNCHANGED <<shipped, booting, target, handle, unrecorded, chain,
                   counter, writer, eventId, log>>

\* The close or the move fails: the live file is opened again where it is, if
\* it can be (it is not after a failed close).
RenameFails(w) ==
    /\ pc = "rename" /\ writer[w] = "rotate"
    /\ handle' \in BOOLEAN
    /\ pc' = "up"
    /\ Finish(w)
    /\ UNCHANGED <<disk, booting, target, unrecorded, chain, counter,
                   eventId, log>>

\* Create, first half: bbolt.Open makes the file.
CreateFile ==
    /\ pc = "create"
    /\ present' = TRUE /\ live' = EmptyFile
    /\ pc' = "start"
    /\ UNCHANGED <<archives, shipped, booting, target, handle, unrecorded,
                   chain, counter, writer, eventId, log>>

\* Create, second half: one transaction writes the segment start.  A rotation
\* goes on with the chain's own count and tip (Rotate moves base to n); a
\* start reads them from the file (OpenPersistentChain on an empty store),
\* and the emitter's counter with them.
WriteStart ==
    /\ pc = "start"
    /\ live' = StartFile(target, tip)
    /\ base' = target.last + 1
    /\ n' = target.last + 1
    /\ handle' = TRUE
    /\ counter' = IF booting THEN target.last + 1 ELSE counter
    /\ pc' = "record"
    /\ UNCHANGED <<present, archives, shipped, booting, target, unrecorded,
                   tip, writer, eventId, log>>

\* The process is gone and its memory with it.
ProcessGone ==
    /\ pc' = "down" /\ booting' = FALSE
    /\ handle' = FALSE /\ unrecorded' = FALSE
    /\ base' = 0 /\ n' = 0 /\ tip' = 0 /\ counter' = 0
    /\ target' = NoSegment
    /\ writer' = [w \in Writers |-> "idle"]
    /\ eventId' = [w \in Writers |-> 0]

\* A rotation ends, with its error or without: the lock is released, and the
\* writer that carried it out has its event stored all the same.
Release ==
    /\ pc' = "up" /\ booting' = FALSE
    /\ writer' = [w \in Writers |->
                    IF writer[w] = "rotate" THEN "idle" ELSE writer[w]]

\* describeArchive, or bbolt.Open of the fresh file, fails in a rotation: the
\* daemon runs on with a closed store.  In a start the process ends (Crash).
CreateFails ==
    /\ pc = "create" /\ ~booting
    /\ Release
    /\ UNCHANGED <<disk, target, handle, unrecorded, chain, counter, eventId,
                   log>>

\* The transaction fails: Create removes the file, unless that fails too.
StartFails ==
    /\ pc = "start"
    /\ present' \in BOOLEAN
    /\ \/ ~booting /\ Release
          /\ UNCHANGED <<target, handle, unrecorded, chain, counter, eventId>>
       \/ booting /\ ProcessGone
    /\ UNCHANGED <<live, archives, shipped, log>>

\* The closing is the first event of the new segment: appended by
\* PersistentChain.Rotate under the lock, or by openReturnPathAudit before it
\* returns.
Record ==
    /\ pc = "record"
    /\ Store(ClosingEvent(counter + 1))
    /\ counter' = counter + 1
    /\ Release
    /\ UNCHANGED <<present, archives, shipped, target, handle, unrecorded,
                   base, eventId>>

\* A rotation whose closing is not stored refuses every append from then on.
\* In a start the process ends (Crash).
RecordFails ==
    /\ pc = "record" /\ ~booting
    /\ Release
    /\ counter' = counter + 1
    /\ unrecorded' = TRUE
    /\ UNCHANGED <<disk, target, handle, chain, eventId, log>>

-----------------------------------------------------------------------------
(* Start: OpenLive, then OpenPersistentChain.  A case that OpenLive refuses *)
(* with an error leaves everything as it was and is no action.              *)

\* Mutant of NewestArchive: whichever archive the directory lists.
AnyArchive(a) == a \in archives

NewestArchive(a) ==
    /\ a \in archives
    /\ \A b \in archives : b.name.first <= a.name.first

\* continueFrom's checks: the archive is as its name says.
AsNamed(a) ==
    /\ a.file.first = a.name.first
    /\ a.file.events # <<>>
    /\ a.name.first + Len(a.file.events) = a.name.last + 1

LastHash(file) ==
    IF file.events = <<>> THEN file.prev
                          ELSE file.events[Len(file.events)].hash

\* walkVerify: every event links to the one before it, the first to the hash
\* the segment starts at.
Linked(file) ==
    \A i \in 1..Len(file.events) :
        file.events[i].prev = IF i = 1 THEN file.prev
                                       ELSE file.events[i - 1].hash

\* Mutant of OpenChain: the emitter continues from the last event's index.
OpenChainLastIndex(file) ==
    /\ Linked(file)
    /\ base' = file.first
    /\ n' = file.first + Len(file.events)
    /\ tip' = LastHash(file)
    /\ counter' = file.first + Len(file.events) - 1
    /\ handle' = TRUE

\* OpenPersistentChain on the live file, and the daemon is up.
OpenChain(file) ==
    /\ Linked(file)
    /\ base' = file.first
    /\ n' = file.first + Len(file.events)
    /\ tip' = LastHash(file)
    /\ counter' = file.first + Len(file.events)
    /\ handle' = TRUE

\* No live file and no archive: a new log.
StartFresh ==
    /\ pc = "down" /\ ~present /\ archives = {}
    /\ present' = TRUE /\ live' = EmptyFile
    /\ OpenChain(EmptyFile)
    /\ pc' = "up"
    /\ UNCHANGED <<archives, shipped, booting, target, unrecorded, writer,
                   eventId, log>>

\* A live file with events and a start, or with no start and no archives.
StartResume ==
    /\ pc = "down" /\ present
    /\ IF live.hasStart THEN live.events # <<>> ELSE archives = {}
    /\ OpenChain(live)
    /\ pc' = "up"
    /\ UNCHANGED <<disk, booting, target, unrecorded, writer, eventId, log>>

\* A live file with a start and no event: the archive it continues must be
\* in the directory and end where the file starts.
StartUnrecorded ==
    /\ pc = "down" /\ present /\ live.hasStart /\ live.events = <<>>
    /\ \E a \in archives : a.name = live.prevSegment
    /\ live.prevSegment.last + 1 = live.first
    /\ OpenChain(live)
    /\ target' = live.prevSegment
    /\ pc' = "record" /\ booting' = TRUE
    /\ UNCHANGED <<disk, unrecorded, writer, eventId, log>>

\* Mutant of StartContinue: an empty file without a start is not removed.
StartContinueNoFile ==
    /\ pc = "down" /\ ~present
    /\ \E a \in archives :
        /\ NewestArchive(a) /\ AsNamed(a)
        /\ target' = a.name
        /\ tip' = LastHash(a.file)
    /\ live' = EmptyFile
    /\ pc' = "create" /\ booting' = TRUE
    /\ UNCHANGED <<present, archives, shipped, handle, unrecorded, base, n,
                   counter, writer, eventId, log>>

\* Archives beside no live file, or beside one that is empty and has no start
\* (which is removed): continueFrom the newest archive.
StartContinue ==
    /\ pc = "down"
    /\ present => ~live.hasStart /\ live.events = <<>>
    /\ \E a \in archives :
        /\ NewestArchive(a) /\ AsNamed(a)
        /\ target' = a.name
        /\ tip' = LastHash(a.file)
    /\ present' = FALSE /\ live' = EmptyFile
    /\ pc' = "create" /\ booting' = TRUE
    /\ UNCHANGED <<archives, shipped, handle, unrecorded, base, n, counter,
                   writer, eventId, log>>

\* The process dies, between any two steps, or a step of its start fails.
Crash ==
    /\ pc # "down"
    /\ ProcessGone
    /\ UNCHANGED <<disk, log>>

-----------------------------------------------------------------------------
(* The operator ships closed segments away and may put them back.  One who   *)
(* follows the ADR ships a segment only when the record of its closing,      *)
(* which holds the tip to note down, is there to be read.                    *)

ClosingOnRecord(name) ==
    \/ present /\ live.hasStart /\ live.events # <<>> /\ live.prevSegment = name
    \/ \E b \in archives \cup shipped :
         b.file.hasStart /\ b.file.prevSegment = name

Ship(a) ==
    /\ a \in archives
    /\ ShipsUnrecorded \/ ClosingOnRecord(a.name)
    /\ archives' = archives \ {a}
    /\ shipped' = shipped \cup {a}
    /\ UNCHANGED <<present, live, pc, booting, target, handle, unrecorded,
                   chain, counter, writer, eventId, log>>

PutBack(a) ==
    /\ a \in shipped
    /\ \A b \in archives : b.name # a.name
    /\ archives' = archives \cup {a}
    /\ shipped' = shipped \ {a}
    /\ UNCHANGED <<present, live, pc, booting, target, handle, unrecorded,
                   chain, counter, writer, eventId, log>>

-----------------------------------------------------------------------------

Write == \E w \in Writers : Build(w) \/ AppendEvent(w) \/ AppendFails(w)
Rotate ==
    \/ \E w \in Writers : CheckNotDue(w) \/ CloseLive(w) \/ RenameFails(w)
    \/ Rename \/ CreateFile \/ CreateFails \/ WriteStart \/ StartFails
    \/ Record \/ RecordFails
OpenLive == StartFresh \/ StartResume \/ StartUnrecorded \/ StartContinue
Operator == \E a \in archives \cup shipped : Ship(a) \/ PutBack(a)

Next == Write \/ Rotate \/ OpenLive \/ Crash \/ Operator

Spec == Init /\ [][Next]_vars

\* A supervisor starts the daemon again, a process that runs takes its next
\* step, and a disk does not fail for ever: a step that keeps being tried
\* succeeds.
Fairness ==
    /\ SF_vars(OpenLive)
    /\ SF_vars(CreateFile) /\ SF_vars(WriteStart) /\ SF_vars(Record)

FairSpec == Spec /\ Fairness

-----------------------------------------------------------------------------
(* Correctness.                                                             *)

ClosedFiles == {a.file : a \in archives \cup shipped}
Segments == ClosedFiles \cup (IF present THEN {live} ELSE {})

HashAt(i) == IF i = 0 THEN 0 ELSE log[i].hash

\* The file holds the stretch of the log that its start says it holds.
HoldsItsStretch(file) ==
    /\ file.first + Len(file.events) <= Len(log)
    /\ file.prev = HashAt(file.first)
    /\ \A i \in 1..Len(file.events) : file.events[i] = log[file.first + i]

\* No fork: whatever step a rotation or a start was interrupted at, each
\* segment on disk holds exactly the events the log had at its indices
\* (store.Rotate, OpenLive, continueFrom).
NoFork == \A file \in Segments : HoldsItsStretch(file)

\* Every event is in a segment.
Covered ==
    \A i \in 1..Len(log) : \E file \in Segments :
        file.first < i /\ i <= file.first + Len(file.events)

\* No loss: every event that was ever stored is still in some segment, and a
\* daemon that accepts appends appends after the last of them
\* (PersistentChain.n and tip, "the software itself never destroys").
NoLoss ==
    /\ Covered
    /\ pc = "up" /\ handle => n = Len(log) /\ tip = HashAt(n)

\* Event ids continue across segments and restarts (ADR 0027, 1): no two
\* events of the log carry the same id.
EventIdsUnique ==
    \A i, j \in 1..Len(log) : i # j => log[i].id # log[j].id

\* "Closing a segment survives a crash at any step": whenever the daemon is
\* down it comes up again, with the closing of every segment on the record;
\* no state an interrupted step leaves is one that OpenLive refuses.
Recovers == pc = "down" ~> pc = "up"

-----------------------------------------------------------------------------
(* The inductive invariant behind NoFork and NoLoss, for an operator who     *)
(* ships recorded segments only.                                            *)

Closed == archives \cup shipped

\* A closed segment is as its name says, and holds its stretch of the log.
ClosedWell ==
    \A a \in Closed :
        /\ AsNamed(a)
        /\ HoldsItsStretch(a.file)
        /\ a.file.hasStart => a.file.prevSegment.last + 1 = a.file.first

\* No two closed segments overlap.
Disjoint ==
    \A a, b \in Closed :
        a = b \/ a.name.last < b.name.first \/ b.name.last < a.name.first

\* The live file is the end of the log.
LiveWhole ==
    /\ present
    /\ HoldsItsStretch(live)
    /\ live.first + Len(live.events) = Len(log)
    /\ \A a \in Closed : a.name.last < live.first
    /\ IF live.hasStart THEN live.prevSegment.last + 1 = live.first
                        ELSE live.first = 0
    /\ live.hasStart /\ live.events = <<>> =>
            \E a \in archives : a.name = live.prevSegment

\* A rotation stopped after the move: the segment that ends the log is closed
\* and at hand, and nothing lives after it.
Interrupted ==
    /\ live = EmptyFile
    /\ \E a \in archives : a.name.last + 1 = Len(log)

\* No daemon has started yet.
Unborn == ~present /\ live = EmptyFile /\ Closed = {} /\ log = <<>>

\* What the process knows agrees with the disk, at every step of a rotation.
ProcessKnows ==
    /\ pc = "down" => ~handle
    /\ pc = "up" =>
        /\ n = Len(log) /\ tip = Len(log)
        /\ handle => LiveWhole /\ base = live.first
    /\ pc = "rename" =>
        /\ n = Len(log) /\ tip = Len(log)
        /\ LiveWhole /\ base = live.first /\ live.events # <<>>
        /\ target = LiveName /\ ~handle
    /\ pc \in {"create", "start"} =>
        /\ live = EmptyFile /\ ~handle /\ (pc = "start" => present)
        /\ tip = Len(log) /\ (~booting => n = Len(log))
        /\ target.last + 1 = Len(log)
        /\ \E a \in archives : a.name = target
    /\ pc = "record" =>
        /\ LiveWhole /\ handle
        /\ n = Len(log) /\ tip = Len(log) /\ base = live.first

\* An event's hash is its place in the log.
HashIsPlace == \A i \in 1..Len(log) : log[i].hash = i

\* The disk is in a state that a start can go on from.
DiskInv ==
    /\ HashIsPlace /\ Covered /\ ClosedWell /\ Disjoint
    /\ LiveWhole \/ Interrupted \/ Unborn

\* The invariant that PersistentChain, store.Rotate and OpenLive keep together,
\* at every step of a rotation and of a start: the disk is one a start can go
\* on from, and the process knows where the log ends.
LogInv == DiskInv /\ ProcessKnows
=============================================================================
