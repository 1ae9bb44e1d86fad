--------------------------- MODULE AuditLogProofs ---------------------------
(***************************************************************************)
(* Theorems about AuditLog, for every set of writers, every rotation       *)
(* trigger and every bound: its invariants, that the files implement an    *)
(* append-only log, and what the verifier finds in them.                   *)
(***************************************************************************)
EXTENDS AuditVerify, WellFoundedInduction, TLAPS

-----------------------------------------------------------------------------
(* Type correctness.                                                        *)

LEMMA EmptyFileType == EmptyFile \in File
BY DEF EmptyFile, File, NoSegment, Name

LEMMA StartFileType ==
    ASSUME NEW name \in Name, NEW prevTip \in Nat
    PROVE  StartFile(name, prevTip) \in File
BY DEF StartFile, File, Name

LEMMA EventTypes ==
    ASSUME TypeOK, NEW id \in Nat
    PROVE  PlainEvent(id) \in Event /\ ClosingEvent(id) \in Event
BY DEF TypeOK, PlainEvent, ClosingEvent, Event, NextHash, NoSegment, Name

LEMMA StoreType ==
    ASSUME TypeOK, NEW event \in Event, Store(event)
    PROVE  /\ live' \in File /\ log' \in Seq(Event)
           /\ n' \in Nat /\ tip' \in Nat
<1>1. live.events \in Seq(Event)
  BY DEF TypeOK, File
<1>2. ASSUME NEW s \in Seq(Event)
      PROVE  [live EXCEPT !.events = s] \in File
  BY DEF TypeOK, File
<1>3. live' \in File
  <2>1. Append(live.events, event) \in Seq(Event)
    BY <1>1
  <2>2. live' = [live EXCEPT !.events = Append(live.events, event)]
    BY DEF Store
  <2> QED
    BY <1>2, <2>1, <2>2
<1> QED
  BY <1>3 DEF TypeOK, Store, Event

LEMMA LastHashType ==
    ASSUME NEW file \in File
    PROVE  LastHash(file) \in Nat
<1>1. CASE file.events = <<>>
  BY <1>1 DEF LastHash, File
<1>2. CASE file.events # <<>>
  <2>1. Len(file.events) \in 1..Len(file.events)
    BY <1>2 DEF File
  <2>2. file.events[Len(file.events)] \in Event
    BY <2>1 DEF File
  <2> QED
    BY <1>2, <2>2 DEF LastHash, Event
<1> QED
  BY <1>1, <1>2

LEMMA OpenChainType ==
    ASSUME NEW file \in File, OpenChain(file)
    PROVE  /\ base' \in Nat /\ n' \in Nat /\ tip' \in Nat
           /\ counter' \in Nat /\ handle' \in BOOLEAN
<1>1. LastHash(file) \in Nat
  BY LastHashType
<1> QED
  BY <1>1 DEF OpenChain, File

LEMMA ReleaseType ==
    ASSUME TypeOK, Release
    PROVE  /\ pc' = "up" /\ booting' \in BOOLEAN
           /\ writer' \in [Writers -> {"idle", "built", "check", "rotate"}]
BY DEF TypeOK, Release

LEMMA ProcessGoneType ==
    ASSUME ProcessGone
    PROVE  /\ pc' = "down"
           /\ booting' \in BOOLEAN /\ handle' \in BOOLEAN
           /\ unrecorded' \in BOOLEAN
           /\ base' \in Nat /\ n' \in Nat /\ tip' \in Nat /\ counter' \in Nat
           /\ target' \in Name
           /\ writer' \in [Writers -> {"idle", "built", "check", "rotate"}]
           /\ eventId' \in [Writers -> Nat]
<1>1. booting' \in BOOLEAN /\ handle' \in BOOLEAN /\ unrecorded' \in BOOLEAN
  BY Zenon DEF ProcessGone
<1> QED
  BY <1>1 DEF ProcessGone, NoSegment, Name

\* Every step keeps every variable in its type, whatever Writers is.
LEMMA TypeStep ==
    ASSUME TypeOK, [Next]_vars
    PROVE  TypeOK'
<1> USE DEF TypeOK
<1>1. ASSUME NEW w \in Writers, Build(w)
      PROVE  TypeOK'
  BY <1>1 DEF Build, disk, chain
<1>2. ASSUME NEW w \in Writers, AppendEvent(w)
      PROVE  TypeOK'
  <2>1. PlainEvent(eventId[w]) \in Event
    BY EventTypes
  <2>2. Store(PlainEvent(eventId[w]))
    BY <1>2 DEF AppendEvent
  <2>3. /\ live' \in File /\ log' \in Seq(Event) /\ n' \in Nat /\ tip' \in Nat
    BY <2>1, <2>2, StoreType
  <2> QED
    BY <1>2, <2>3 DEF AppendEvent
<1>3. ASSUME NEW w \in Writers, AppendFails(w)
      PROVE  TypeOK'
  BY <1>3 DEF AppendFails, disk, chain
<1>4. ASSUME NEW w \in Writers, CheckNotDue(w)
      PROVE  TypeOK'
  BY <1>4 DEF CheckNotDue, Finish, disk, chain
<1>5. ASSUME NEW w \in Writers, CloseLive(w)
      PROVE  TypeOK'
  <2>1. PICK aged \in BOOLEAN : SegmentDue(n - base, aged)
    BY <1>5 DEF CloseLive
  <2>2. n - 1 \in Nat
    BY <2>1 DEF SegmentDue
  <2>3. LiveName \in Name
    BY <2>2 DEF LiveName, Name
  <2> QED
    BY <1>5, <2>3 DEF CloseLive, disk, chain
<1>6. ASSUME NEW w \in Writers, RenameFails(w)
      PROVE  TypeOK'
  BY <1>6 DEF RenameFails, Finish, disk, chain
<1>7. CASE Rename
  <2>1. [name |-> target, file |-> live] \in Archive
    BY DEF Archive
  <2> QED
    BY <1>7, <2>1, EmptyFileType DEF Rename, chain
<1>8. CASE CreateFile
  BY <1>8, EmptyFileType DEF CreateFile, chain
<1>9. CASE CreateFails
  BY <1>9, ReleaseType DEF CreateFails, disk, chain
<1>10. CASE WriteStart
  <2>1. target.last + 1 \in Nat
    BY DEF Name
  <2> QED
    BY <1>10, <2>1, StartFileType DEF WriteStart
<1>11. CASE StartFails
  <2>1. /\ present' \in BOOLEAN /\ live' = live /\ archives' = archives
        /\ shipped' = shipped /\ log' = log
    BY <1>11 DEF StartFails
  <2>2. CASE Release /\ UNCHANGED <<target, handle, unrecorded, chain, counter,
                                   eventId>>
    BY <2>1, <2>2, ReleaseType DEF chain
  <2>3. CASE ProcessGone
    BY <2>1, <2>3, ProcessGoneType
  <2> QED
    BY <1>11, <2>2, <2>3 DEF StartFails
<1>12. CASE Record
  <2>1. ClosingEvent(counter + 1) \in Event
    BY EventTypes
  <2>2. Store(ClosingEvent(counter + 1))
    BY <1>12 DEF Record
  <2>3. /\ live' \in File /\ log' \in Seq(Event) /\ n' \in Nat /\ tip' \in Nat
    BY <2>1, <2>2, StoreType
  <2> QED
    BY <1>12, <2>3, ReleaseType DEF Record
<1>13. CASE RecordFails
  <2>1. unrecorded' \in BOOLEAN
    BY <1>13, Zenon DEF RecordFails
  <2>2. Release /\ counter' \in Nat
    BY <1>13 DEF RecordFails
  <2> QED
    BY <1>13, <2>1, <2>2, ReleaseType DEF RecordFails, disk, chain
<1>14. CASE StartFresh
  <2>1. OpenChain(EmptyFile)
    BY <1>14 DEF StartFresh
  <2> QED
    BY <1>14, <2>1, EmptyFileType, OpenChainType DEF StartFresh
<1>15. CASE StartResume
  <2>1. OpenChain(live)
    BY <1>15 DEF StartResume
  <2> QED
    BY <1>15, <2>1, OpenChainType DEF StartResume, disk
<1>16. CASE StartUnrecorded
  <2>1. OpenChain(live)
    BY <1>16 DEF StartUnrecorded
  <2>2. live.prevSegment \in Name
    BY DEF File
  <2> QED
    BY <1>16, <2>1, <2>2, OpenChainType DEF StartUnrecorded, disk
<1>17. CASE StartContinue
  <2>1. PICK a \in archives : target' = a.name /\ tip' = LastHash(a.file)
    BY <1>17 DEF StartContinue
  <2>2. a.name \in Name /\ a.file \in File
    BY DEF Archive
  <2>3. LastHash(a.file) \in Nat
    BY <2>2, LastHashType
  <2> QED
    BY <1>17, <2>1, <2>2, <2>3, EmptyFileType DEF StartContinue
<1>18. CASE Crash
  BY <1>18, ProcessGoneType DEF Crash, disk
<1>19. ASSUME NEW a \in archives \cup shipped, Ship(a) \/ PutBack(a)
       PROVE  TypeOK'
  BY <1>19 DEF Ship, PutBack, chain
<1>20. CASE UNCHANGED vars
  BY <1>20 DEF vars, disk, chain
<1> QED
  BY <1>1, <1>2, <1>3, <1>4, <1>5, <1>6, <1>7, <1>8, <1>9, <1>10, <1>11,
     <1>12, <1>13, <1>14, <1>15, <1>16, <1>17, <1>18, <1>19, <1>20
     DEF Next, Write, Rotate, OpenLive, Operator

\* Type correctness of the log's files, its process and its writers.
THEOREM TypeCorrect == Spec => []TypeOK
<1>1. Init => TypeOK
  <2> SUFFICES ASSUME Init PROVE TypeOK
    OBVIOUS
  <2>1. /\ present \in BOOLEAN /\ booting \in BOOLEAN /\ handle \in BOOLEAN
        /\ unrecorded \in BOOLEAN
    BY Zenon DEF Init
  <2>2. target \in Name /\ live \in File
    BY EmptyFileType DEF Init, NoSegment, Name
  <2> QED
    BY <2>1, <2>2 DEF Init, TypeOK
<1>2. TypeOK /\ [Next]_vars => TypeOK'
  BY TypeStep
<1> QED
  BY <1>1, <1>2, PTL DEF Spec

-----------------------------------------------------------------------------
(* The parts of the invariant.                                              *)

LEMMA FileFacts ==
    ASSUME NEW f \in File
    PROVE  /\ f.first \in Nat /\ f.prev \in Nat /\ f.hasStart \in BOOLEAN
           /\ f.prevSegment \in Name
           /\ f.prevSegment.first \in Nat /\ f.prevSegment.last \in Nat
           /\ f.events \in Seq(Event) /\ Len(f.events) \in Nat
           /\ (f.events = <<>> <=> Len(f.events) = 0)
BY DEF File, Name

LEMMA ClosedFacts ==
    ASSUME TypeOK, NEW a \in Closed
    PROVE  /\ a.file \in File /\ a.name \in Name
           /\ a.name.first \in Nat /\ a.name.last \in Nat
BY DEF TypeOK, Closed, Archive, Name

LEMMA Interval ==
    ASSUME NEW first \in Nat, NEW last \in Nat, NEW length \in Nat,
           NEW end \in Nat, length # 0, first + length = last + 1,
           first + length <= end
    PROVE  first <= last /\ last < end
OBVIOUS

\* A closed segment is not empty and lies within the log.
LEMMA ClosedBounds ==
    ASSUME TypeOK, ClosedWell, NEW a \in Closed
    PROVE  a.name.first <= a.name.last /\ a.name.last < Len(log)
<1>1. /\ a.file \in File /\ a.name.first \in Nat /\ a.name.last \in Nat
  BY ClosedFacts
<1>2. Len(a.file.events) \in Nat /\ Len(log) \in Nat
  BY <1>1, FileFacts DEF TypeOK
<1>3. Len(a.file.events) # 0
  BY <1>1, FileFacts DEF ClosedWell, AsNamed
<1>4. a.name.first + Len(a.file.events) = a.name.last + 1
  BY DEF ClosedWell, AsNamed
<1>5. a.name.first + Len(a.file.events) <= Len(log)
  BY DEF ClosedWell, AsNamed, HoldsItsStretch
<1> QED
  BY <1>1, <1>2, <1>3, <1>4, <1>5, Interval

LEMMA EmptyFileFacts ==
    /\ EmptyFile.events = <<>> /\ Len(EmptyFile.events) = 0
    /\ EmptyFile.first = 0 /\ EmptyFile.prev = 0 /\ EmptyFile.hasStart = FALSE
BY DEF EmptyFile

\* A file's stretch of the log stays where it is when the log grows.
LEMMA StretchGrows ==
    ASSUME TypeOK, NEW event \in Event, log' = Append(log, event),
           NEW f \in File, HoldsItsStretch(f)
    PROVE  HoldsItsStretch(f)'
<1>1. /\ Len(log) \in Nat /\ Len(log') = Len(log) + 1
      /\ \A i \in 1..Len(log) : log'[i] = log[i]
  BY DEF TypeOK
<1>2. f.first \in Nat /\ Len(f.events) \in Nat
  BY FileFacts
<1>3. HashAt(f.first)' = HashAt(f.first)
  BY <1>1, <1>2 DEF HashAt, HoldsItsStretch
<1>4. \A i \in 1..Len(f.events) : f.events[i] = log'[f.first + i]
  BY <1>1, <1>2 DEF HoldsItsStretch
<1> QED
  BY <1>1, <1>2, <1>3, <1>4 DEF HoldsItsStretch

\* Where every event's hash is its place, the hash before index k is k.
LEMMA HashAtPlace ==
    ASSUME HashIsPlace, NEW k \in 0..Len(log)
    PROVE  HashAt(k) = k
BY DEF HashIsPlace, HashAt

\* The last hash of a file that holds its stretch is the index after it.
LEMMA LastHashIsPlace ==
    ASSUME TypeOK, HashIsPlace, NEW f \in File, HoldsItsStretch(f)
    PROVE  LastHash(f) = f.first + Len(f.events)
<1>1. f.first \in Nat /\ Len(f.events) \in Nat /\ Len(log) \in Nat
  BY FileFacts DEF TypeOK
<1>2. CASE f.events = <<>>
  BY <1>1, <1>2, FileFacts, HashAtPlace DEF LastHash, HoldsItsStretch
<1>3. CASE f.events # <<>>
  <2>1. Len(f.events) \in 1..Len(f.events)
    BY <1>1, <1>3, FileFacts
  <2>2. f.first + Len(f.events) \in 1..Len(log)
    BY <1>1, <2>1 DEF HoldsItsStretch
  <2>3. f.events[Len(f.events)] = log[f.first + Len(f.events)]
    BY <2>1 DEF HoldsItsStretch
  <2> QED
    BY <1>3, <2>2, <2>3 DEF LastHash, HashIsPlace
<1> QED
  BY <1>2, <1>3

\* A step that leaves the files and the log alone keeps the disk's invariant.
LEMMA DiskFrame ==
    ASSUME DiskInv, UNCHANGED <<disk, log>>
    PROVE  DiskInv'
<1>1. /\ present' = present /\ live' = live /\ archives' = archives
      /\ shipped' = shipped /\ log' = log
  BY DEF disk
<1>2. HashIsPlace' /\ Covered'
  BY <1>1 DEF DiskInv, HashIsPlace, Covered, Segments, ClosedFiles
<1>3. ClosedWell' /\ Disjoint'
  BY <1>1 DEF DiskInv, ClosedWell, Disjoint, Closed, AsNamed,
              HoldsItsStretch, HashAt
<1>4. (LiveWhole \/ Interrupted \/ Unborn)'
  BY <1>1 DEF DiskInv, LiveWhole, Interrupted, Unborn, Closed,
              HoldsItsStretch, HashAt
<1> QED
  BY <1>2, <1>3, <1>4 DEF DiskInv

LEMMA LiveFrame ==
    ASSUME LiveWhole, UNCHANGED <<disk, log>>
    PROVE  LiveWhole'
BY DEF LiveWhole, disk, Closed, HoldsItsStretch, HashAt

-----------------------------------------------------------------------------
(* The steps that change the disk.                                          *)

\* Storing an event at the end of a live file that ends the log keeps the
\* disk's invariant: PersistentChain.appendLocked on the live store.
LEMMA StoreStep ==
    ASSUME TypeOK, DiskInv, LiveWhole, NEW event \in Event, Store(event),
           event.hash = Len(log) + 1,
           UNCHANGED <<present, archives, shipped>>
    PROVE  DiskInv' /\ LiveWhole' /\ live'.first = live.first
           /\ live'.events # <<>>
<1>1. /\ Len(log) \in Nat /\ Len(log') = Len(log) + 1
      /\ \A i \in 1..Len(log) : log'[i] = log[i]
      /\ log'[Len(log) + 1] = event
      /\ log' = Append(log, event)
  BY DEF TypeOK, Store
<1>2. live \in File
  BY DEF TypeOK
<1>3. /\ live'.first = live.first /\ live'.prev = live.prev
      /\ live'.hasStart = live.hasStart
      /\ live'.prevSegment = live.prevSegment
      /\ live'.events = Append(live.events, event)
  BY <1>2 DEF Store, File
<1>4. /\ live.first \in Nat /\ Len(live.events) \in Nat
      /\ live.events \in Seq(Event)
  BY <1>2, FileFacts
<1>5. /\ Len(live'.events) = Len(live.events) + 1
      /\ \A i \in 1..Len(live.events) : live'.events[i] = live.events[i]
      /\ live'.events[Len(live.events) + 1] = event
      /\ live'.events # <<>>
  BY <1>3, <1>4
<1>6. Closed' = Closed
  BY DEF Closed
<1>7. HashIsPlace'
  BY <1>1 DEF DiskInv, HashIsPlace
<1>8. ClosedWell'
  <2> SUFFICES ASSUME NEW a \in Closed
               PROVE  /\ AsNamed(a) /\ HoldsItsStretch(a.file)'
                      /\ a.file.hasStart =>
                            a.file.prevSegment.last + 1 = a.file.first
    BY <1>6 DEF ClosedWell, AsNamed
  <2>1. a.file \in File /\ HoldsItsStretch(a.file)
    BY ClosedFacts DEF DiskInv, ClosedWell
  <2>2. HoldsItsStretch(a.file)'
    BY <1>1, <2>1, StretchGrows
  <2> QED
    BY <2>2 DEF DiskInv, ClosedWell
<1>9. Disjoint'
  BY <1>6 DEF DiskInv, Disjoint
<1>10. LiveWhole'
  <2>1. HoldsItsStretch(live)'
    <3>1. live.first + Len(live.events) = Len(log)
      BY DEF LiveWhole
    <3>2. live'.first + Len(live'.events) <= Len(log')
      BY <1>1, <1>3, <1>4, <1>5, <3>1
    <3>3. HashAt(live.first)' = HashAt(live.first)
      BY <1>1, <1>3, <1>4, <3>1 DEF HashAt
    <3>4. live'.prev = HashAt(live.first)'
      BY <1>3, <3>3 DEF LiveWhole, HoldsItsStretch
    <3>5. \A i \in 1..Len(live'.events) :
                live'.events[i] = log'[live'.first + i]
      <4> SUFFICES ASSUME NEW i \in 1..Len(live'.events)
                   PROVE  live'.events[i] = log'[live.first + i]
        BY <1>3
      <4>1. CASE i = Len(live.events) + 1
        <5>1. live.first + i = Len(log) + 1
          BY <1>4, <3>1, <4>1
        <5> QED
          BY <1>1, <1>5, <4>1, <5>1
      <4>2. CASE i # Len(live.events) + 1
        <5>1. i \in 1..Len(live.events) /\ live.first + i \in 1..Len(log)
          BY <1>1, <1>4, <1>5, <3>1, <4>2
        <5>2. live.events[i] = log[live.first + i]
          BY <5>1 DEF LiveWhole, HoldsItsStretch
        <5> QED
          BY <1>1, <1>5, <5>1, <5>2
      <4> QED
        BY <4>1, <4>2
    <3> QED
      BY <3>2, <3>4, <3>5 DEF HoldsItsStretch
  <2>2. live'.first + Len(live'.events) = Len(log')
    BY <1>1, <1>3, <1>4, <1>5 DEF LiveWhole
  <2> QED
    BY <1>3, <1>5, <1>6, <2>1, <2>2 DEF LiveWhole
<1>11. Covered'
  <2> SUFFICES ASSUME NEW i \in 1..Len(log')
               PROVE  \E file \in Segments' :
                        file.first < i /\ i <= file.first + Len(file.events)
    BY DEF Covered
  <2>1. live' \in Segments'
    BY DEF Segments, LiveWhole
  <2>2. CASE i = Len(log')
    BY <1>1, <1>3, <1>4, <1>5, <2>1, <2>2 DEF LiveWhole
  <2>3. CASE i # Len(log')
    <3>1. i \in 1..Len(log)
      BY <1>1, <2>3
    <3>2. PICK file \in Segments :
                file.first < i /\ i <= file.first + Len(file.events)
      BY <3>1 DEF DiskInv, Covered
    <3>3. CASE file = live
      BY <1>3, <1>4, <1>5, <2>1, <3>2, <3>3
    <3>4. CASE file # live
      <4>1. file \in ClosedFiles
        BY <3>2, <3>4 DEF Segments
      <4>2. file \in Segments'
        BY <4>1 DEF Segments, ClosedFiles
      <4> QED
        BY <3>2, <4>2
    <3> QED
      BY <3>3, <3>4
  <2> QED
    BY <2>2, <2>3
<1> QED
  BY <1>3, <1>5, <1>7, <1>8, <1>9, <1>10, <1>11 DEF DiskInv

\* Moving the whole live file into the archive: nothing is lost, and the
\* segment that ends the log is at hand.
LEMMA RenameStep ==
    ASSUME TypeOK, LogInv, Rename
    PROVE  LogInv'
<1>1. /\ LiveWhole /\ n = Len(log) /\ tip = Len(log) /\ base = live.first
      /\ live.events # <<>> /\ target = LiveName /\ ~handle
  BY DEF Rename, LogInv, ProcessKnows
<1> DEFINE new == [name |-> target, file |-> live]
<1>2. /\ archives' = archives \cup {new} /\ shipped' = shipped
      /\ present' = FALSE /\ live' = EmptyFile /\ log' = log
      /\ pc' = "create" /\ target' = target /\ tip' = tip /\ n' = n
      /\ handle' = handle
  BY DEF Rename, chain
<1>3. Closed' = Closed \cup {new}
  BY <1>2 DEF Closed
<1>4. /\ live \in File /\ live.first \in Nat /\ Len(live.events) \in Nat
      /\ Len(live.events) > 0 /\ Len(log) \in Nat
  BY <1>1, FileFacts DEF TypeOK
<1>5. /\ new.name.first = live.first /\ new.name.last + 1 = Len(log)
      /\ new.file = live
  BY <1>1, <1>4 DEF LiveName, LiveWhole
<1>6. HashIsPlace'
  BY <1>2 DEF LogInv, DiskInv, HashIsPlace
<1>7. \A f \in File : HoldsItsStretch(f) => HoldsItsStretch(f)'
  BY <1>2 DEF HoldsItsStretch, HashAt
<1>8. ClosedWell'
  <2> SUFFICES ASSUME NEW a \in Closed'
               PROVE  /\ AsNamed(a) /\ HoldsItsStretch(a.file)'
                      /\ a.file.hasStart =>
                            a.file.prevSegment.last + 1 = a.file.first
    BY DEF ClosedWell, AsNamed
  <2>1. CASE a = new
    <3>1. AsNamed(new)
      BY <1>1, <1>4, <1>5 DEF AsNamed, LiveWhole
    <3>2. a.file \in File /\ HoldsItsStretch(a.file)
      BY <1>1, <1>4, <1>5, <2>1 DEF LiveWhole
    <3>3. a.file.hasStart => a.file.prevSegment.last + 1 = a.file.first
      BY <1>1, <1>5, <2>1 DEF LiveWhole
    <3> QED
      BY <1>7, <2>1, <3>1, <3>2, <3>3
  <2>2. CASE a \in Closed
    BY <1>7, <2>2, ClosedFacts DEF LogInv, DiskInv, ClosedWell
  <2> QED
    BY <1>3, <2>1, <2>2
<1>9. Disjoint'
  <2>1. \A a \in Closed : a.name.last < new.name.first
    BY <1>5, <1>1 DEF LiveWhole
  <2> QED
    BY <1>3, <2>1 DEF LogInv, DiskInv, Disjoint
<1>10. Covered'
  <2>1. Segments \subseteq Segments'
    BY <1>1, <1>2, <1>3, <1>5 DEF Segments, ClosedFiles, Closed, LiveWhole
  <2> QED
    BY <1>2, <2>1 DEF LogInv, DiskInv, Covered
<1>11. Interrupted'
  BY <1>2, <1>5 DEF Interrupted
<1>12. ProcessKnows'
  <2>1. new.name = target /\ target.last + 1 = Len(log)
    BY <1>5
  <2>2. \E a \in archives' : a.name = target'
    BY <1>2, <2>1
  <2> QED
    BY <1>1, <1>2, <2>1, <2>2 DEF ProcessKnows
<1> QED
  BY <1>6, <1>8, <1>9, <1>10, <1>11, <1>12 DEF LogInv, DiskInv

\* Replacing one live file without events by another, or by none, changes
\* nothing for the log and its closed segments.
LEMMA HollowLive ==
    ASSUME TypeOK, DiskInv, live.events = <<>>, live'.events = <<>>,
           live.first \in Nat,
           UNCHANGED <<archives, shipped, log>>
    PROVE  HashIsPlace' /\ Covered' /\ ClosedWell' /\ Disjoint'
<1>1. Closed' = Closed /\ ClosedFiles' = ClosedFiles
  BY DEF Closed, ClosedFiles
<1>2. HashIsPlace'
  BY DEF DiskInv, HashIsPlace
<1>3. ClosedWell' /\ Disjoint'
  BY <1>1 DEF DiskInv, ClosedWell, Disjoint, AsNamed, HoldsItsStretch, HashAt
<1>4. Covered'
  <2> SUFFICES ASSUME NEW i \in 1..Len(log)
               PROVE  \E file \in Segments' :
                        file.first < i /\ i <= file.first + Len(file.events)
    BY DEF Covered
  <2>1. PICK file \in Segments :
            file.first < i /\ i <= file.first + Len(file.events)
    BY DEF DiskInv, Covered
  <2>2. file # live
    BY <2>1
  <2>3. file \in ClosedFiles'
    BY <1>1, <2>1, <2>2 DEF Segments
  <2> QED
    BY <2>1, <2>3 DEF Segments
<1> QED
  BY <1>2, <1>3, <1>4

LEMMA CreateFileStep ==
    ASSUME TypeOK, LogInv, CreateFile
    PROVE  LogInv'
<1>1. /\ live = EmptyFile /\ tip = Len(log) /\ (~booting => n = Len(log))
      /\ target.last + 1 = Len(log) /\ \E a \in archives : a.name = target
      /\ ~handle
  BY DEF CreateFile, LogInv, ProcessKnows
<1>2. /\ archives' = archives /\ shipped' = shipped /\ log' = log
      /\ live' = EmptyFile /\ pc' = "start" /\ target' = target
      /\ tip' = tip /\ n' = n /\ booting' = booting
      /\ handle' = handle /\ present' = TRUE
  BY DEF CreateFile, chain
<1>3. HashIsPlace' /\ Covered' /\ ClosedWell' /\ Disjoint'
  BY <1>1, <1>2, HollowLive, EmptyFileFacts DEF LogInv
<1>4. Interrupted'
  BY <1>1, <1>2 DEF Interrupted
<1>5. ProcessKnows'
  BY <1>1, <1>2 DEF ProcessKnows
<1> QED
  BY <1>3, <1>4, <1>5 DEF LogInv, DiskInv

\* The fresh file starts where the closed segment ended.
LEMMA WriteStartStep ==
    ASSUME TypeOK, LogInv, WriteStart
    PROVE  LogInv'
<1>1. /\ live = EmptyFile /\ tip = Len(log)
      /\ target.last + 1 = Len(log) /\ \E a \in archives : a.name = target
  BY DEF WriteStart, LogInv, ProcessKnows
<1>2. /\ archives' = archives /\ shipped' = shipped /\ log' = log
      /\ pc' = "record" /\ target' = target /\ handle' = TRUE
      /\ tip' = tip /\ n' = Len(log) /\ base' = Len(log)
      /\ present' = present
  BY <1>1 DEF WriteStart
<1>3. /\ live'.first = Len(log) /\ live'.prev = Len(log)
      /\ live'.hasStart = TRUE /\ live'.prevSegment = target
      /\ live'.events = <<>> /\ Len(live'.events) = 0
  BY <1>1 DEF WriteStart, StartFile
<1>4. HashIsPlace' /\ Covered' /\ ClosedWell' /\ Disjoint'
  BY <1>1, <1>2, <1>3, HollowLive, EmptyFileFacts DEF LogInv
<1>5. LiveWhole'
  <2>1. Len(log) \in Nat /\ HashAt(Len(log)) = Len(log)
    BY HashAtPlace DEF TypeOK, LogInv, DiskInv
  <2>2. HoldsItsStretch(live)'
    BY <1>2, <1>3, <2>1 DEF HoldsItsStretch, HashAt
  <2>3. \A a \in Closed' : a.name.last < live'.first
    <3> SUFFICES ASSUME NEW a \in Closed
                 PROVE  a.name.last < Len(log)
      BY <1>2, <1>3 DEF Closed
    <3> QED
      BY ClosedBounds DEF LogInv, DiskInv
  <2>4. present'
    <3>1. pc = "start"
      BY DEF WriteStart
    <3> QED
      BY <1>2, <3>1 DEF LogInv, ProcessKnows
  <2> QED
    BY <1>1, <1>2, <1>3, <2>1, <2>2, <2>3, <2>4 DEF LiveWhole
<1>6. ProcessKnows'
  BY <1>1, <1>2, <1>3, <1>5 DEF ProcessKnows
<1> QED
  BY <1>4, <1>5, <1>6 DEF LogInv, DiskInv

LEMMA StartFailsStep ==
    ASSUME TypeOK, LogInv, StartFails
    PROVE  LogInv'
<1>1. /\ live = EmptyFile /\ tip = Len(log) /\ (~booting => n = Len(log))
      /\ target.last + 1 = Len(log) /\ \E a \in archives : a.name = target
      /\ handle = FALSE
  BY DEF StartFails, LogInv, ProcessKnows
<1>2. /\ archives' = archives /\ shipped' = shipped /\ log' = log
      /\ live' = EmptyFile
  BY <1>1 DEF StartFails
<1>3. HashIsPlace' /\ Covered' /\ ClosedWell' /\ Disjoint'
  BY <1>1, <1>2, HollowLive, EmptyFileFacts DEF LogInv
<1>4. Interrupted'
  BY <1>1, <1>2 DEF Interrupted
<1>5. ProcessKnows'
  <2>1. CASE ~booting /\ Release
             /\ UNCHANGED <<target, handle, unrecorded, chain, counter, eventId>>
    BY <1>1, <1>2, <2>1 DEF ProcessKnows, Release, chain
  <2>2. CASE ProcessGone
    BY <2>2 DEF ProcessKnows, ProcessGone
  <2> QED
    BY <2>1, <2>2 DEF StartFails
<1> QED
  BY <1>3, <1>4, <1>5 DEF LogInv, DiskInv

LEMMA StartFreshStep ==
    ASSUME TypeOK, LogInv, StartFresh
    PROVE  LogInv'
<1>1. /\ ~present /\ archives = {}
      /\ archives' = archives /\ shipped' = shipped /\ log' = log
      /\ present' = TRUE /\ live' = EmptyFile /\ pc' = "up"
      /\ OpenChain(EmptyFile)
  BY DEF StartFresh
<1>2. Unborn
  BY <1>1 DEF LogInv, DiskInv, LiveWhole, Interrupted
<1>3. log = <<>> /\ Len(log) = 0 /\ live = EmptyFile /\ Closed = {}
  BY <1>2 DEF Unborn
<1>4. HashIsPlace' /\ Covered' /\ ClosedWell' /\ Disjoint'
  BY <1>1, <1>3, HollowLive, EmptyFileFacts DEF LogInv
<1>5. /\ base' = 0 /\ n' = 0 /\ tip' = 0
  BY <1>1, EmptyFileFacts DEF OpenChain, LastHash
<1>6. LiveWhole'
  <2>1. Closed' = {}
    BY <1>1, <1>3 DEF Closed
  <2>2. HoldsItsStretch(live)'
    BY <1>1, <1>3, EmptyFileFacts DEF HoldsItsStretch, HashAt
  <2> QED
    BY <1>1, <1>3, <2>1, <2>2, EmptyFileFacts DEF LiveWhole
<1>7. ProcessKnows'
  BY <1>1, <1>3, <1>5, <1>6, EmptyFileFacts DEF ProcessKnows
<1> QED
  BY <1>4, <1>6, <1>7 DEF LogInv, DiskInv

\* Opening a live file that ends the log finds the log's count and tip.
LEMMA OpenChainFinds ==
    ASSUME TypeOK, DiskInv, LiveWhole, OpenChain(live)
    PROVE  base' = live.first /\ n' = Len(log) /\ tip' = Len(log)
<1>1. live \in File /\ HashIsPlace /\ HoldsItsStretch(live)
  BY DEF TypeOK, DiskInv, LiveWhole
<1> QED
  BY <1>1, LastHashIsPlace DEF OpenChain, LiveWhole

LEMMA StartResumeStep ==
    ASSUME TypeOK, LogInv, StartResume
    PROVE  LogInv'
<1>1. /\ UNCHANGED <<disk, log>> /\ OpenChain(live) /\ pc' = "up" /\ present
      /\ IF live.hasStart THEN live.events # <<>> ELSE archives = {}
  BY DEF StartResume
<1>2. LiveWhole
  <2>1. ~Unborn
    BY <1>1 DEF Unborn
  <2>2. ~Interrupted
    BY <1>1, EmptyFileFacts DEF Interrupted
  <2> QED
    BY <2>1, <2>2 DEF LogInv, DiskInv
<1>3. DiskInv' /\ LiveWhole'
  BY <1>1, <1>2, DiskFrame, LiveFrame DEF LogInv
<1>4. base' = live.first /\ n' = Len(log) /\ tip' = Len(log)
  BY <1>1, <1>2, OpenChainFinds DEF LogInv
<1>5. ProcessKnows'
  BY <1>1, <1>3, <1>4 DEF ProcessKnows, disk
<1> QED
  BY <1>3, <1>5 DEF LogInv

LEMMA StartUnrecordedStep ==
    ASSUME TypeOK, LogInv, StartUnrecorded
    PROVE  LogInv'
<1>1. /\ UNCHANGED <<disk, log>> /\ OpenChain(live) /\ pc' = "record"
      /\ present /\ live.hasStart /\ handle'
  BY DEF StartUnrecorded, OpenChain
<1>2. LiveWhole
  BY <1>1, EmptyFileFacts DEF LogInv, DiskInv, Interrupted, Unborn
<1>3. DiskInv' /\ LiveWhole'
  BY <1>1, <1>2, DiskFrame, LiveFrame DEF LogInv
<1>4. base' = live.first /\ n' = Len(log) /\ tip' = Len(log)
  BY <1>1, <1>2, OpenChainFinds DEF LogInv
<1>5. ProcessKnows'
  BY <1>1, <1>3, <1>4 DEF ProcessKnows, disk
<1> QED
  BY <1>3, <1>5 DEF LogInv

\* The newest archive is the one that ends the log: continueFrom goes on from
\* there.
LEMMA StartContinueStep ==
    ASSUME TypeOK, LogInv, StartContinue
    PROVE  LogInv'
<1>1. PICK a \in archives :
        NewestArchive(a) /\ AsNamed(a) /\ target' = a.name
        /\ tip' = LastHash(a.file)
  BY DEF StartContinue
<1>2. /\ pc = "down" /\ pc' = "create" /\ booting' = TRUE
      /\ archives' = archives /\ shipped' = shipped /\ log' = log
      /\ live' = EmptyFile /\ handle' = handle
      /\ present => ~live.hasStart /\ live.events = <<>>
  BY DEF StartContinue
<1>3. a \in Closed
  BY DEF Closed
<1>4. Interrupted
  <2>1. ~Unborn
    BY <1>3 DEF Unborn
  <2>2. ~LiveWhole
    <3>1. a.name.last \in Nat
      BY <1>3, ClosedFacts
    <3> QED
      BY <1>2, <1>3, <3>1 DEF LiveWhole
  <2> QED
    BY <2>1, <2>2 DEF LogInv, DiskInv
<1>5. live = EmptyFile /\ Len(log) \in Nat
  BY <1>4 DEF Interrupted, TypeOK
<1>6. HashIsPlace' /\ Covered' /\ ClosedWell' /\ Disjoint'
  BY <1>2, <1>5, HollowLive, EmptyFileFacts DEF LogInv
<1>7. Interrupted'
  BY <1>2, <1>4 DEF Interrupted
<1>8. a.name.last + 1 = Len(log)
  <2>1. PICK e \in archives : e.name.last + 1 = Len(log)
    BY <1>4 DEF Interrupted
  <2>2. e \in Closed
    BY DEF Closed
  <2>3. /\ a.name.first \in Nat /\ a.name.last \in Nat
        /\ e.name.first \in Nat /\ e.name.last \in Nat
        /\ a.file \in File /\ e.file \in File
    BY <1>3, <2>2, ClosedFacts
  <2>4. /\ AsNamed(e) /\ HoldsItsStretch(a.file)
    BY <1>3, <2>2 DEF LogInv, DiskInv, ClosedWell
  <2>5. a.name.first <= a.name.last /\ a.name.last < Len(log)
    BY <1>3, ClosedBounds DEF LogInv, DiskInv
  <2>6. e.name.first <= e.name.last
    BY <2>2, ClosedBounds DEF LogInv, DiskInv
  <2>7. e.name.first <= a.name.first
    BY <1>1 DEF NewestArchive
  <2>8. a = e \/ a.name.last < e.name.first \/ e.name.last < a.name.first
    BY <1>3, <2>2 DEF LogInv, DiskInv, Disjoint
  <2> QED
    BY <1>5, <2>1, <2>3, <2>5, <2>6, <2>7, <2>8
<1>9. tip' = Len(log)
  <2>1. a.file \in File /\ HoldsItsStretch(a.file) /\ HashIsPlace
    BY <1>3, ClosedFacts DEF LogInv, DiskInv, ClosedWell
  <2>2. LastHash(a.file) = a.file.first + Len(a.file.events)
    BY <2>1, LastHashIsPlace
  <2> QED
    BY <1>1, <1>8, <2>1, <2>2, FileFacts DEF AsNamed
<1>10. ProcessKnows'
  <2>1. ~handle
    BY <1>2 DEF LogInv, ProcessKnows
  <2> QED
    BY <1>1, <1>2, <1>8, <1>9, <2>1 DEF ProcessKnows
<1> QED
  BY <1>6, <1>7, <1>10 DEF LogInv, DiskInv

-----------------------------------------------------------------------------
(* The operator.                                                            *)

\* A segment whose closing is on the record is not the end of the log.
LEMMA RecordedIsInner ==
    ASSUME TypeOK, DiskInv, NEW a \in Closed, ClosingOnRecord(a.name)
    PROVE  a.name.last + 1 < Len(log)
<1>0. Len(log) \in Nat /\ a.name.last \in Nat /\ live \in File
  BY ClosedFacts DEF TypeOK
<1>1. CASE present /\ live.hasStart /\ live.events # <<>>
           /\ live.prevSegment = a.name
  <2>1. LiveWhole
    BY <1>1, EmptyFileFacts DEF DiskInv, Interrupted, Unborn
  <2> QED
    BY <1>0, <1>1, <2>1, FileFacts DEF LiveWhole
<1>2. ASSUME NEW b \in Closed, b.file.hasStart, b.file.prevSegment = a.name
      PROVE  a.name.last + 1 < Len(log)
  <2>1. b.file \in File /\ AsNamed(b) /\ HoldsItsStretch(b.file)
        /\ b.file.prevSegment.last + 1 = b.file.first
    BY <1>2, ClosedFacts DEF DiskInv, ClosedWell
  <2> QED
    BY <1>0, <1>2, <2>1, FileFacts DEF AsNamed, HoldsItsStretch
<1> QED
  BY <1>1, <1>2 DEF ClosingOnRecord, Closed

\* Moving closed segments in and out of the archive directory, as long as the
\* one that ends the log stays, keeps the invariant.
LEMMA MoveStep ==
    ASSUME TypeOK, LogInv,
           archives' \cup shipped' = archives \cup shipped,
           \A a \in archives : a.name.last + 1 = Len(log) => a \in archives',
           UNCHANGED <<present, live, pc, booting, target, handle, chain, log>>
    PROVE  LogInv'
<1>1. Closed' = Closed /\ Segments' = Segments
  BY DEF Closed, Segments, ClosedFiles
<1>2. /\ present' = present /\ live' = live /\ log' = log /\ pc' = pc
      /\ target' = target /\ handle' = handle /\ base' = base /\ n' = n
      /\ tip' = tip /\ booting' = booting
  BY DEF chain
<1>3. \A f \in File : HoldsItsStretch(f)' = HoldsItsStretch(f)
  BY <1>2 DEF HoldsItsStretch, HashAt
<1>4. HashIsPlace' /\ Covered' /\ Disjoint'
  BY <1>1, <1>2 DEF LogInv, DiskInv, HashIsPlace, Covered, Disjoint
<1>5. ClosedWell'
  BY <1>1, <1>2 DEF LogInv, DiskInv, ClosedWell, AsNamed, HoldsItsStretch, HashAt
<1>6. LiveWhole => LiveWhole'
  <2> SUFFICES ASSUME LiveWhole PROVE LiveWhole'
    OBVIOUS
  <2>1. HoldsItsStretch(live)'
    BY <1>2 DEF LiveWhole, HoldsItsStretch, HashAt
  <2>2. live.hasStart /\ live.events = <<>> =>
            \E a \in archives' : a.name = live.prevSegment
    <3> SUFFICES ASSUME live.hasStart, live.events = <<>>
                 PROVE  \E a \in archives' : a.name = live.prevSegment
      OBVIOUS
    <3>1. PICK a \in archives : a.name = live.prevSegment
      BY DEF LiveWhole
    <3>2. a.name.last + 1 = Len(log)
      BY <3>1, FileFacts DEF LiveWhole, TypeOK
    <3> QED
      BY <3>1, <3>2
  <2> QED
    BY <1>1, <1>2, <2>1, <2>2 DEF LiveWhole
<1>7. Interrupted => Interrupted'
  BY <1>2 DEF Interrupted
<1>8. Unborn => Unborn'
  BY <1>1, <1>2 DEF Unborn
<1>9. (\E a \in archives : a.name = target /\ target.last + 1 = Len(log))
        => \E a \in archives' : a.name = target
  OBVIOUS
<1>10. ProcessKnows'
  BY <1>2, <1>6, <1>9 DEF LogInv, ProcessKnows, LiveName
<1> QED
  BY <1>4, <1>5, <1>6, <1>7, <1>8, <1>10 DEF LogInv, DiskInv

LEMMA ShipStep ==
    ASSUME TypeOK, LogInv, ~ShipsUnrecorded,
           NEW a \in archives \cup shipped, Ship(a)
    PROVE  LogInv'
<1>1. a \in archives /\ ClosingOnRecord(a.name)
  BY DEF Ship
<1>2. a.name.last + 1 < Len(log) /\ a.name.last \in Nat /\ Len(log) \in Nat
  BY <1>1, RecordedIsInner, ClosedFacts DEF LogInv, Closed, TypeOK
<1>3. archives' \cup shipped' = archives \cup shipped
  BY <1>1 DEF Ship
<1>4. \A b \in archives : b.name.last + 1 = Len(log) => b \in archives'
  BY <1>2 DEF Ship
<1>5. UNCHANGED <<present, live, pc, booting, target, handle, chain, log>>
  BY DEF Ship
<1> QED
  BY <1>3, <1>4, <1>5, MoveStep

LEMMA PutBackStep ==
    ASSUME TypeOK, LogInv, NEW a \in archives \cup shipped, PutBack(a)
    PROVE  LogInv'
<1>1. archives' \cup shipped' = archives \cup shipped
  BY DEF PutBack
<1>2. \A b \in archives : b.name.last + 1 = Len(log) => b \in archives'
  BY DEF PutBack
<1>3. UNCHANGED <<present, live, pc, booting, target, handle, chain, log>>
  BY DEF PutBack
<1> QED
  BY <1>1, <1>2, <1>3, MoveStep

-----------------------------------------------------------------------------
(* The invariant and what it gives.                                         *)

LEMMA LogStep ==
    ASSUME TypeOK, LogInv, ~ShipsUnrecorded, [Next]_vars
    PROVE  LogInv'
<1>1. ASSUME NEW w \in Writers, AppendEvent(w)
      PROVE  LogInv'
  <2>1. /\ pc = "up" /\ handle /\ Store(PlainEvent(eventId[w]))
        /\ UNCHANGED <<present, archives, shipped, pc, handle, base>>
    BY <1>1 DEF AppendEvent
  <2>2. LiveWhole /\ base = live.first /\ n = Len(log) /\ DiskInv
    BY <2>1 DEF LogInv, ProcessKnows
  <2>3. PlainEvent(eventId[w]) \in Event
    BY EventTypes DEF TypeOK
  <2>4. PlainEvent(eventId[w]).hash = Len(log) + 1
    BY DEF PlainEvent, NextHash
  <2>5. DiskInv' /\ LiveWhole' /\ live'.first = live.first
    BY <2>1, <2>2, <2>3, <2>4, StoreStep
  <2>6. n' = Len(log') /\ tip' = Len(log')
    BY <2>1, <2>2, <2>4 DEF Store, TypeOK
  <2>7. ProcessKnows'
    BY <2>1, <2>2, <2>5, <2>6 DEF ProcessKnows
  <2> QED
    BY <2>5, <2>7 DEF LogInv
<1>2. CASE Record
  <2>1. /\ pc = "record" /\ Store(ClosingEvent(counter + 1)) /\ pc' = "up"
        /\ UNCHANGED <<present, archives, shipped, handle, base>>
    BY <1>2 DEF Record, Release
  <2>2. LiveWhole /\ base = live.first /\ n = Len(log) /\ DiskInv
    BY <2>1 DEF LogInv, ProcessKnows
  <2>3. ClosingEvent(counter + 1) \in Event
    BY EventTypes DEF TypeOK
  <2>4. ClosingEvent(counter + 1).hash = Len(log) + 1
    BY DEF ClosingEvent, NextHash
  <2>5. DiskInv' /\ LiveWhole' /\ live'.first = live.first
    BY <2>1, <2>2, <2>3, <2>4, StoreStep
  <2>6. n' = Len(log') /\ tip' = Len(log')
    BY <2>1, <2>2, <2>4 DEF Store, TypeOK
  <2>7. ProcessKnows'
    BY <2>1, <2>2, <2>5, <2>6 DEF ProcessKnows
  <2> QED
    BY <2>5, <2>7 DEF LogInv
<1>3. ASSUME UNCHANGED <<disk, log>>, ProcessKnows'
      PROVE  LogInv'
  BY <1>3, DiskFrame DEF LogInv
<1>4. ASSUME UNCHANGED <<disk, log>>
      PROVE  /\ LiveWhole => LiveWhole'
             /\ live' = live /\ archives' = archives /\ log' = log
             /\ present' = present
  BY <1>4, LiveFrame DEF disk
<1>5. ASSUME NEW w \in Writers, Build(w) \/ AppendFails(w) \/ CheckNotDue(w)
      PROVE  LogInv'
  <2>1. UNCHANGED <<disk, log, pc, booting, target, handle, chain>>
    BY <1>5 DEF Build, AppendFails, CheckNotDue
  <2>2. ProcessKnows'
    BY <1>4, <2>1 DEF LogInv, ProcessKnows, LiveName, chain
  <2> QED
    BY <1>3, <2>1, <2>2
<1>6. ASSUME NEW w \in Writers, CloseLive(w)
      PROVE  LogInv'
  <2>1. /\ UNCHANGED <<disk, log>> /\ pc = "up" /\ pc' = "rename" /\ handle
        /\ ~handle' /\ target' = LiveName /\ n' = n /\ base' = base /\ tip' = tip
    BY <1>6 DEF CloseLive, chain
  <2>2. /\ LiveWhole /\ base = live.first /\ n = Len(log) /\ tip = Len(log)
    BY <2>1 DEF LogInv, ProcessKnows
  <2>3. live.events # <<>>
    <3>1. PICK aged \in BOOLEAN : SegmentDue(n - base, aged)
      BY <1>6 DEF CloseLive
    <3> QED
      BY <2>2, <3>1, FileFacts DEF SegmentDue, LiveWhole, TypeOK
  <2>4. ProcessKnows'
    BY <1>4, <2>1, <2>2, <2>3 DEF ProcessKnows, LiveName
  <2> QED
    BY <1>3, <2>1, <2>4
<1>7. ASSUME NEW w \in Writers, RenameFails(w)
      PROVE  LogInv'
  <2>1. /\ UNCHANGED <<disk, log>> /\ pc = "rename" /\ pc' = "up"
        /\ n' = n /\ base' = base /\ tip' = tip
    BY <1>7 DEF RenameFails, chain
  <2>2. ProcessKnows'
    BY <1>4, <2>1 DEF LogInv, ProcessKnows
  <2> QED
    BY <1>3, <2>1, <2>2
<1>8. CASE CreateFails
  <2>1. /\ UNCHANGED <<disk, log, handle, chain>> /\ pc = "create" /\ pc' = "up"
        /\ ~booting
    BY <1>8 DEF CreateFails, Release
  <2>2. ProcessKnows'
    BY <1>4, <2>1 DEF LogInv, ProcessKnows, chain
  <2> QED
    BY <1>3, <2>1, <2>2
<1>9. CASE RecordFails
  <2>1. /\ UNCHANGED <<disk, log, handle, chain>> /\ pc = "record" /\ pc' = "up"
    BY <1>9 DEF RecordFails, Release
  <2>2. ProcessKnows'
    BY <1>4, <2>1 DEF LogInv, ProcessKnows, chain
  <2> QED
    BY <1>3, <2>1, <2>2
<1>10. CASE Crash
  <2>1. UNCHANGED <<disk, log>> /\ pc' = "down" /\ ~handle'
    BY <1>10 DEF Crash, ProcessGone
  <2>2. ProcessKnows'
    BY <2>1 DEF ProcessKnows
  <2> QED
    BY <1>3, <2>1, <2>2
<1>11. CASE UNCHANGED vars
  <2>1. UNCHANGED <<disk, log, pc, booting, target, handle, chain>>
    BY <1>11 DEF vars
  <2>2. ProcessKnows'
    BY <1>4, <2>1 DEF LogInv, ProcessKnows, LiveName, chain
  <2> QED
    BY <1>3, <2>1, <2>2
<1> QED
  BY <1>1, <1>2, <1>5, <1>6, <1>7, <1>8, <1>9, <1>10, <1>11, RenameStep,
     CreateFileStep, WriteStartStep, StartFailsStep, StartFreshStep,
     StartResumeStep, StartUnrecordedStep, StartContinueStep, ShipStep,
     PutBackStep
     DEF Next, Write, Rotate, OpenLive, Operator

LEMMA LogInit == Init => LogInv
<1> SUFFICES ASSUME Init PROVE LogInv
  OBVIOUS
<1>1. log = <<>> /\ Len(log) = 0 /\ Closed = {} /\ ~present /\ ~handle
      /\ live = EmptyFile /\ pc = "down"
  BY DEF Init, Closed
<1> QED
  BY <1>1 DEF LogInv, DiskInv, HashIsPlace, Covered, ClosedWell, Disjoint,
              Unborn, ProcessKnows

\* The inductive invariant holds: with an operator who ships only segments
\* whose closing is on the record, whatever is interrupted or fails.
THEOREM LogInvariant ==
    ASSUME ~ShipsUnrecorded
    PROVE  Spec => []LogInv
<1>1. Init => LogInv
  BY LogInit
<1>2. TypeOK /\ LogInv /\ [Next]_vars => LogInv'
  BY LogStep
<1> QED
  BY <1>1, <1>2, TypeCorrect, PTL DEF Spec

LEMMA SegmentsHold == LogInv => NoFork
<1> SUFFICES ASSUME LogInv, NEW file \in Segments
             PROVE  HoldsItsStretch(file)
  BY DEF NoFork
<1>1. CASE file \in ClosedFiles
  BY <1>1 DEF LogInv, DiskInv, ClosedWell, ClosedFiles, Closed
<1>2. CASE present /\ file = live
  <2>1. CASE LiveWhole
    BY <1>2, <2>1 DEF LiveWhole
  <2>2. CASE Interrupted
    BY <1>2, <2>2, EmptyFileFacts
       DEF Interrupted, HoldsItsStretch, HashAt
  <2> QED
    BY <1>2, <2>1, <2>2 DEF LogInv, DiskInv, Unborn
<1> QED
  BY <1>1, <1>2 DEF Segments

\* No segment on disk ever disagrees with the log: no crash, failure, restart
\* or shipped segment makes store.Rotate or OpenLive fork it.
THEOREM NoForkTheorem ==
    ASSUME ~ShipsUnrecorded
    PROVE  Spec => []NoFork
<1> QED
  BY SegmentsHold, LogInvariant, PTL

\* No stored event is ever lost, and a daemon that accepts an append seals it
\* to the last event of the log.
THEOREM NoLossTheorem ==
    ASSUME ~ShipsUnrecorded
    PROVE  Spec => []NoLoss
<1>1. TypeOK /\ LogInv => NoLoss
  <2> SUFFICES ASSUME TypeOK, LogInv PROVE NoLoss
    OBVIOUS
  <2>1. HashAt(Len(log)) = Len(log)
    BY HashAtPlace DEF TypeOK, LogInv, DiskInv
  <2> QED
    BY <2>1 DEF LogInv, DiskInv, ProcessKnows, NoLoss
<1> QED
  BY <1>1, LogInvariant, TypeCorrect, PTL

-----------------------------------------------------------------------------
(* The files implement an append-only log.                                  *)

LEMMA GreatestIsMax ==
    ASSUME NEW S \in SUBSET Nat, NEW m \in S, \A x \in S : x <= m
    PROVE  Max(S) = m
<1>1. \A x \in S : m >= x
  OBVIOUS
<1>2. Max(S) \in S /\ \A x \in S : Max(S) >= x
  BY <1>1 DEF Max
<1>3. Max(S) \in Nat /\ m \in Nat /\ Max(S) >= m /\ Max(S) <= m
  BY <1>2
<1> QED
  BY <1>3

LEMMA SegmentTypes ==
    ASSUME TypeOK, NEW file \in Segments
    PROVE  /\ file \in File /\ file.first \in Nat /\ Len(file.events) \in Nat
           /\ EndIndex(file) = file.first + Len(file.events)
           /\ EndIndex(file) \in Nat
<1>1. file \in File
  BY DEF TypeOK, Segments, ClosedFiles, Archive
<1>2. file.first \in Nat /\ Len(file.events) \in Nat
  BY <1>1 DEF File
<1> QED
  BY <1>1, <1>2 DEF EndIndex

\* The files end where the log ends.
LEMMA DiskLengthIs ==
    ASSUME TypeOK, LogInv
    PROVE  DiskLength = Len(log)
<1> DEFINE ends == {EndIndex(file) : file \in Segments}
<1>1. Len(log) \in Nat
  BY DEF TypeOK
<1>2. \A file \in Segments : EndIndex(file) \in Nat /\ EndIndex(file) <= Len(log)
  BY SegmentTypes, SegmentsHold DEF NoFork, HoldsItsStretch
<1>3. ends \in SUBSET Nat /\ \A x \in ends : x <= Len(log)
  BY <1>2
<1>4. CASE Len(log) = 0
  <2>1. CASE ends = {}
    BY <1>4, <2>1, Zenon DEF DiskLength
  <2>2. CASE ends # {}
    <3>1. PICK x \in ends : TRUE
      BY <2>2, Zenon
    <3>2. 0 \in ends
      <4> HIDE DEF ends
      <4>1. x = 0
        BY <1>3, <1>4, <3>1
      <4> QED
        BY <3>1, <4>1
    <3>3. DiskLength = Max(ends)
      BY <2>2, Zenon DEF DiskLength
    <3> HIDE DEF ends
    <3>4. Max(ends) = 0
      BY <1>3, <1>4, <3>2, GreatestIsMax
    <3> QED
      BY <1>4, <3>3, <3>4
  <2> QED
    BY <2>1, <2>2
<1>5. CASE Len(log) # 0
  <2>1. Len(log) \in 1..Len(log)
    BY <1>1, <1>5
  <2>2. PICK file \in Segments : Len(log) <= file.first + Len(file.events)
    BY <2>1 DEF LogInv, DiskInv, Covered
  <2>3. EndIndex(file) = Len(log)
    BY <1>1, <1>2, <2>2, SegmentTypes
  <2>4. Len(log) \in ends
    BY <2>3, Zenon
  <2>5. DiskLength = Max(ends)
    BY <2>4, Zenon DEF DiskLength
  <2> HIDE DEF ends
  <2>6. Max(ends) = Len(log)
    BY <1>3, <2>4, GreatestIsMax
  <2> QED
    BY <2>5, <2>6
<1> QED
  BY <1>4, <1>5

\* Read in order, the files say what was stored.
LEMMA DiskLogIs ==
    ASSUME TypeOK, LogInv
    PROVE  DiskLog = log
<1>1. DiskLength = Len(log)
  BY DiskLengthIs
<1> DEFINE at(i) == CHOOSE f \in Segments : f.first < i /\ i <= EndIndex(f)
<1>2. ASSUME NEW i \in 1..Len(log)
      PROVE  at(i).events[i - at(i).first] = log[i]
  <2>1. PICK f \in Segments : f.first < i /\ i <= EndIndex(f)
    BY DEF LogInv, DiskInv, Covered, EndIndex
  <2>2. at(i) \in Segments /\ at(i).first < i /\ i <= EndIndex(at(i))
    BY <2>1, Zenon
  <2> HIDE DEF at
  <2>3. /\ at(i).first \in Nat /\ Len(at(i).events) \in Nat
        /\ EndIndex(at(i)) = at(i).first + Len(at(i).events)
    BY <2>2, SegmentTypes
  <2>4. i \in Nat
    BY DEF TypeOK
  <2>5. i - at(i).first \in 1..Len(at(i).events)
        /\ at(i).first + (i - at(i).first) = i
    BY <2>2, <2>3, <2>4
  <2>6. HoldsItsStretch(at(i))
    BY <2>2, SegmentsHold DEF NoFork
  <2>7. at(i).events[i - at(i).first] = log[at(i).first + (i - at(i).first)]
    BY <2>5, <2>6, Zenon DEF HoldsItsStretch
  <2> QED
    BY <2>5, <2>7
<1>3. DiskLog = [i \in 1..Len(log) |-> at(i).events[i - at(i).first]]
  BY <1>1 DEF DiskLog
<1> HIDE DEF at
<1>4. DiskLog = [i \in 1..Len(log) |-> log[i]]
  BY <1>2, <1>3
<1>5. log = [i \in 1..Len(log) |-> log[i]]
  BY DEF TypeOK
<1> QED
  BY <1>4, <1>5, Zenon

\* A stored event is sealed to the last one.
LEMMA StoreGrows ==
    ASSUME TypeOK, HashIsPlace, tip = Len(log), NEW event \in Event,
           event.prev = tip, log' = Append(log, event)
    PROVE  /\ Len(log') = Len(log) + 1
           /\ \A i \in 1..Len(log) : log'[i] = log[i]
           /\ log'[Len(log')].prev = Abstract!Tip(log)
<1>1. log \in Seq(Event) /\ Len(log) \in Nat
  BY DEF TypeOK
<1>2. /\ Len(log') = Len(log) + 1 /\ log'[Len(log')] = event
      /\ \A i \in 1..Len(log) : log'[i] = log[i]
  BY <1>1
<1>3. Abstract!Tip(log) = Len(log)
  <2>1. CASE log = <<>>
    BY <2>1 DEF Abstract!Tip
  <2>2. CASE log # <<>>
    <3>1. Len(log) \in 1..Len(log)
      BY <1>1, <2>2
    <3>2. log[Len(log)].hash = Len(log)
      BY <3>1 DEF HashIsPlace
    <3> QED
      BY <2>2, <3>2, Zenon DEF Abstract!Tip
  <2> QED
    BY <2>1, <2>2
<1> QED
  BY <1>2, <1>3

\* Every step stores one event, or none.
LEMMA StepGrows ==
    ASSUME TypeOK, LogInv, [Next]_vars
    PROVE  \/ log' = log
           \/ /\ Len(log') = Len(log) + 1
              /\ \A i \in 1..Len(log) : log'[i] = log[i]
              /\ log'[Len(log')].prev = Abstract!Tip(log)
<1>1. HashIsPlace
  BY DEF LogInv, DiskInv
<1>2. ASSUME NEW w \in Writers, AppendEvent(w)
      PROVE  /\ Len(log') = Len(log) + 1
             /\ \A i \in 1..Len(log) : log'[i] = log[i]
             /\ log'[Len(log')].prev = Abstract!Tip(log)
  <2>1. tip = Len(log) /\ log' = Append(log, PlainEvent(eventId[w]))
    BY <1>2 DEF AppendEvent, Store, LogInv, ProcessKnows
  <2>2. PlainEvent(eventId[w]) \in Event /\ PlainEvent(eventId[w]).prev = tip
    <3>1. PlainEvent(eventId[w]).prev = tip
      BY DEF PlainEvent
    <3> QED
      BY <3>1, EventTypes DEF TypeOK
  <2> QED
    BY <1>1, <2>1, <2>2, StoreGrows
<1>3. ASSUME Record
      PROVE  /\ Len(log') = Len(log) + 1
             /\ \A i \in 1..Len(log) : log'[i] = log[i]
             /\ log'[Len(log')].prev = Abstract!Tip(log)
  <2>1. tip = Len(log) /\ log' = Append(log, ClosingEvent(counter + 1))
    BY <1>3 DEF Record, Store, LogInv, ProcessKnows
  <2>2. ClosingEvent(counter + 1) \in Event /\ ClosingEvent(counter + 1).prev = tip
    <3>1. ClosingEvent(counter + 1).prev = tip
      BY DEF ClosingEvent
    <3> QED
      BY <3>1, EventTypes DEF TypeOK
  <2> QED
    BY <1>1, <2>1, <2>2, StoreGrows
<1>4. ASSUME NEW w \in Writers,
             Build(w) \/ AppendFails(w) \/ CheckNotDue(w) \/ CloseLive(w)
             \/ RenameFails(w)
      PROVE  log' = log
  BY <1>4 DEF Build, AppendFails, CheckNotDue, CloseLive, RenameFails
<1>5. ASSUME Rename \/ CreateFile \/ CreateFails \/ WriteStart \/ StartFails
             \/ RecordFails \/ OpenLive \/ Crash
      PROVE  log' = log
  BY <1>5 DEF Rename, CreateFile, CreateFails, WriteStart, StartFails,
     RecordFails, OpenLive, StartFresh, StartResume, StartUnrecorded,
     StartContinue, Crash
<1>6. ASSUME NEW a, Ship(a) \/ PutBack(a)
      PROVE  log' = log
  BY <1>6 DEF Ship, PutBack
<1>7. UNCHANGED vars => log' = log
  BY DEF vars
<1> QED
  BY <1>2, <1>3, <1>4, <1>5, <1>6, <1>7 DEF Next, Write, Rotate, Operator

\* The files, read in order at any moment, are an append-only linked log:
\* AuditLog implements AppendOnlyLog under the mapping of its files to
\* DiskLog, for an operator who ships recorded segments only.
THEOREM Refinement ==
    ASSUME ~ShipsUnrecorded
    PROVE  Spec => ImplementsAppendOnlyLog
<1>1. TypeOK /\ LogInv /\ Init => Abstract!Init
  <2> SUFFICES ASSUME TypeOK, LogInv, Init PROVE DiskLog = <<>>
    BY DEF Abstract!Init
  <2> QED
    BY DiskLogIs DEF Init
<1>2. TypeOK /\ LogInv /\ TypeOK' /\ LogInv' /\ [Next]_vars
        => [Abstract!Grow]_DiskLog
  <2> SUFFICES ASSUME TypeOK, LogInv, TypeOK', LogInv', [Next]_vars
               PROVE  [Abstract!Grow]_DiskLog
    OBVIOUS
  <2>1. DiskLog = log
    BY DiskLogIs
  <2>2. TypeOK /\ LogInv => DiskLog = log
    BY DiskLogIs
  <2>3. (TypeOK /\ LogInv => DiskLog = log)'
    BY DiskLogIs, PTL
  <2>4. DiskLog' = log'
    BY <2>3
  <2>5. log' = log \/ Abstract!Grow
    BY <2>1, <2>4, StepGrows DEF Abstract!Grow
  <2> QED
    BY <2>1, <2>4, <2>5
<1> QED
  BY <1>1, <1>2, LogInvariant, TypeCorrect, PTL
     DEF Spec, ImplementsAppendOnlyLog, Abstract!Spec
-----------------------------------------------------------------------------
(* What the verifier finds.  A segment begins with the record of the closing *)
(* of the one before it, which is among the closed ones, or begins the log; *)
(* and no other event is such a record.                                     *)

ClosedNames == {c.name : c \in Closed}

Starts(file, names) ==
    /\ file.hasStart => file.prevSegment \in names
    /\ ~file.hasStart => file.first = 0
    /\ \A i \in 1..Len(file.events) :
          IF file.events[i].closes
          THEN i = 1 /\ file.hasStart /\ file.events[i].segment = file.prevSegment
          ELSE i = 1 => ~file.hasStart

Started ==
    Starts(live, ClosedNames) /\ \A a \in Closed : Starts(a.file, ClosedNames)

\* A daemon that takes appends has the closing on the record, and one that is
\* about to record it has stored nothing since.
ClosingKnown ==
    /\ pc = "up" /\ handle /\ ~unrecorded => ~live.hasStart \/ live.events # <<>>
    /\ pc = "record" =>
          live.hasStart /\ live.events = <<>> /\ live.prevSegment = target

LogLinked == \A i \in 1..Len(log) : log[i].prev = i - 1

ClosingInv == Started /\ ClosingKnown /\ LogLinked

LEMMA StartsMore ==
    ASSUME NEW file, NEW names, NEW more, Starts(file, names), names \subseteq more
    PROVE  Starts(file, more)
BY DEF Starts

LEMMA EmptyStarts == \A names : Starts(EmptyFile, names)
BY EmptyFileFacts DEF Starts

LEMMA StartedStays ==
    ASSUME Started, live' = live, Closed' = Closed
    PROVE  Started'
BY DEF Started, ClosedNames

\* A closing is stored where it is due, a plain event where none is.
LEMMA StoreStarts ==
    ASSUME TypeOK, Started, LogLinked, NEW event \in Event, Store(event), Closed' = Closed,
           tip = Len(log), event.prev = tip,
           \/ ~event.closes /\ (~live.hasStart \/ live.events # <<>>)
           \/ /\ event.closes /\ live.hasStart /\ live.events = <<>>
              /\ event.segment = live.prevSegment
    PROVE  Started' /\ LogLinked' /\ live'.hasStart = live.hasStart /\ live'.events # <<>>
<1>1. live \in File /\ live.events \in Seq(Event) /\ Len(live.events) \in Nat
  BY FileFacts DEF TypeOK
<1>2. /\ live' = [live EXCEPT !.events = Append(live.events, event)]
      /\ log' = Append(log, event)
  BY DEF Store
<1>3. /\ live'.hasStart = live.hasStart /\ live'.first = live.first
      /\ live'.prevSegment = live.prevSegment
      /\ live'.events = Append(live.events, event)
  BY <1>1, <1>2 DEF File
<1>4. /\ Len(live'.events) = Len(live.events) + 1
      /\ \A i \in 1..Len(live.events) : live'.events[i] = live.events[i]
      /\ live'.events[Len(live.events) + 1] = event
  BY <1>1, <1>3
<1>5. ClosedNames' = ClosedNames
  BY DEF ClosedNames
<1>6. Starts(live, ClosedNames)
  BY DEF Started
<1>7. Starts(live', ClosedNames)
  <2>1. ASSUME NEW i \in 1..Len(live'.events)
        PROVE  IF live'.events[i].closes
               THEN /\ i = 1 /\ live'.hasStart
                    /\ live'.events[i].segment = live'.prevSegment
               ELSE i = 1 => ~live'.hasStart
    <3>1. CASE i \in 1..Len(live.events)
      BY <1>3, <1>4, <1>6, <3>1 DEF Starts
    <3>2. CASE i = Len(live.events) + 1
      <4>1. live'.events[i] = event /\ (i = 1 <=> live.events = <<>>)
        BY <1>1, <1>4, <3>2, FileFacts
      <4> QED
        BY <1>3, <4>1 DEF Event
    <3> QED
      BY <1>1, <1>4, <2>1, <3>1, <3>2
  <2> QED
    BY <1>3, <1>6, <2>1 DEF Starts
<1>8. Started'
  BY <1>5, <1>7 DEF Started
<1>9. LogLinked'
  <2>1. log \in Seq(Event) /\ Len(log) \in Nat
    BY DEF TypeOK
  <2>2. /\ Len(log') = Len(log) + 1 /\ log'[Len(log) + 1] = event
        /\ \A i \in 1..Len(log) : log'[i] = log[i]
    BY <1>2, <2>1
  <2> QED
    BY <2>1, <2>2 DEF LogLinked
<1>10. live'.events # <<>>
  BY <1>1, <1>3, <1>4
<1> QED
  BY <1>3, <1>8, <1>9, <1>10

LEMMA ClosingStep ==
    ASSUME TypeOK, LogInv, ClosingInv, [Next]_vars
    PROVE  ClosingInv'
<1>s. Started /\ ClosingKnown /\ LogLinked
  BY DEF ClosingInv
<1>1. ASSUME NEW w \in Writers, AppendEvent(w)
      PROVE  ClosingInv'
  <2>1. /\ pc = "up" /\ handle /\ ~unrecorded /\ Store(PlainEvent(eventId[w]))
        /\ UNCHANGED <<archives, shipped, pc, handle, unrecorded>>
    BY <1>1 DEF AppendEvent
  <2>2. /\ PlainEvent(eventId[w]) \in Event /\ PlainEvent(eventId[w]).prev = tip
        /\ ~PlainEvent(eventId[w]).closes
    <3>1. PlainEvent(eventId[w]).prev = tip /\ ~PlainEvent(eventId[w]).closes
      BY DEF PlainEvent
    <3> QED
      BY <3>1, EventTypes DEF TypeOK
  <2>3. tip = Len(log) /\ Closed' = Closed /\ (~live.hasStart \/ live.events # <<>>)
    BY <1>s, <2>1 DEF LogInv, ProcessKnows, Closed, ClosingKnown
  <2>4. Started' /\ LogLinked' /\ live'.events # <<>>
    BY <1>s, <2>1, <2>2, <2>3, StoreStarts
  <2> QED
    BY <2>1, <2>4 DEF ClosingInv, ClosingKnown
<1>2. CASE Record
  <2>1. /\ pc = "record" /\ Store(ClosingEvent(counter + 1)) /\ pc' = "up"
        /\ UNCHANGED <<archives, shipped>>
    BY <1>2 DEF Record, Release
  <2>2. /\ ClosingEvent(counter + 1) \in Event /\ ClosingEvent(counter + 1).prev = tip
        /\ ClosingEvent(counter + 1).closes
        /\ ClosingEvent(counter + 1).segment = target
    <3>1. /\ ClosingEvent(counter + 1).prev = tip /\ ClosingEvent(counter + 1).closes
          /\ ClosingEvent(counter + 1).segment = target
      BY DEF ClosingEvent
    <3> QED
      BY <3>1, EventTypes DEF TypeOK
  <2>3. /\ tip = Len(log) /\ Closed' = Closed /\ live.hasStart /\ live.events = <<>>
        /\ live.prevSegment = target
    BY <1>s, <2>1 DEF LogInv, ProcessKnows, Closed, ClosingKnown
  <2>4. Started' /\ LogLinked' /\ live'.events # <<>>
    BY <1>s, <2>1, <2>2, <2>3, StoreStarts
  <2> QED
    BY <2>1, <2>4 DEF ClosingInv, ClosingKnown
<1>3. CASE Rename
  <2>1. /\ pc = "rename" /\ pc' = "create" /\ live' = EmptyFile /\ log' = log
        /\ archives' = archives \cup {[name |-> target, file |-> live]}
        /\ shipped' = shipped
    BY <1>3 DEF Rename
  <2> PICK a : a = [name |-> target, file |-> live]
    OBVIOUS
  <2>2. Closed' = Closed \cup {a} /\ a.file = live
    BY <2>1 DEF Closed
  <2>3. ClosedNames \subseteq ClosedNames'
    BY <2>2 DEF ClosedNames
  <2>4. \A c \in Closed' : Starts(c.file, ClosedNames')
    BY <1>s, <2>2, <2>3, StartsMore DEF Started
  <2> QED
    BY <1>s, <2>1, <2>4, EmptyStarts DEF ClosingInv, Started, ClosingKnown, LogLinked
<1>4. CASE CreateFile \/ StartFresh \/ StartContinue
  <2>1. /\ live' = EmptyFile /\ log' = log /\ pc' \in {"start", "up", "create"}
        /\ UNCHANGED <<archives, shipped>>
    BY <1>4 DEF CreateFile, StartFresh, StartContinue
  <2>2. ClosedNames' = ClosedNames /\ Closed' = Closed
    BY <2>1 DEF ClosedNames, Closed
  <2> QED
    BY <1>s, <2>1, <2>2, EmptyStarts, EmptyFileFacts
       DEF ClosingInv, Started, ClosingKnown, LogLinked
<1>5. CASE WriteStart
  <2>1. /\ pc = "start" /\ pc' = "record" /\ live' = StartFile(target, tip)
        /\ target' = target /\ log' = log /\ UNCHANGED <<archives, shipped>>
    BY <1>5 DEF WriteStart
  <2>2. ClosedNames' = ClosedNames /\ Closed' = Closed
    BY <2>1 DEF ClosedNames, Closed
  <2>3. target \in ClosedNames
    BY <2>1 DEF LogInv, ProcessKnows, ClosedNames, Closed
  <2>4. /\ live'.hasStart /\ live'.events = <<>> /\ live'.prevSegment = target
        /\ Len(live'.events) = 0
    BY <2>1 DEF StartFile
  <2>5. Starts(live', ClosedNames)
    BY <2>3, <2>4 DEF Starts
  <2> QED
    BY <1>s, <2>1, <2>2, <2>4, <2>5 DEF ClosingInv, Started, ClosingKnown, LogLinked
<1>6. ASSUME live' = live, log' = log, Closed' = Closed, ClosingKnown'
      PROVE  ClosingInv'
  BY <1>6, <1>s, StartedStays DEF ClosingInv, LogLinked
<1>7. ASSUME NEW w \in Writers,
             \/ Build(w) \/ AppendFails(w) \/ CheckNotDue(w) \/ CloseLive(w)
             \/ RenameFails(w)
      PROVE  ClosingInv'
  <2>1. /\ UNCHANGED <<disk, log, unrecorded>>
        /\ \/ UNCHANGED <<pc, handle, target>>
           \/ pc' = "rename"
           \/ pc = "rename" /\ pc' = "up"
    BY <1>7 DEF Build, AppendFails, CheckNotDue, CloseLive, RenameFails
  <2>2. live' = live /\ Closed' = Closed
    BY <2>1 DEF disk, Closed
  <2>3. pc = "rename" => live.events # <<>>
    BY DEF LogInv, ProcessKnows
  <2> QED
    BY <1>s, <1>6, <2>1, <2>2, <2>3 DEF ClosingKnown
<1>8. CASE CreateFails \/ RecordFails \/ StartFails \/ Crash
  <2>1. /\ UNCHANGED <<live, archives, shipped, log>>
        /\ \/ pc' = "down"
           \/ pc' = "up" /\ (unrecorded' \/ ~handle')
    BY <1>8 DEF CreateFails, RecordFails, StartFails, Crash, ProcessGone, Release, disk,
                LogInv, ProcessKnows
  <2>2. Closed' = Closed
    BY <2>1 DEF Closed
  <2> QED
    BY <1>6, <2>1, <2>2 DEF ClosingKnown
<1>9. CASE StartResume \/ StartUnrecorded
  <2>1. /\ UNCHANGED <<disk, log>>
        /\ \/ pc' = "up" /\ (live.hasStart => live.events # <<>>)
           \/ /\ pc' = "record" /\ live.hasStart /\ live.events = <<>>
              /\ target' = live.prevSegment
    BY <1>9 DEF StartResume, StartUnrecorded
  <2>2. live' = live /\ Closed' = Closed
    BY <2>1 DEF disk, Closed
  <2> QED
    BY <1>6, <2>1, <2>2 DEF ClosingKnown
<1>10. ASSUME NEW a, Ship(a) \/ PutBack(a)
       PROVE  ClosingInv'
  <2>1. UNCHANGED <<live, log, pc, handle, unrecorded, target>> /\ Closed' = Closed
    BY <1>10 DEF Ship, PutBack, Closed
  <2> QED
    BY <1>s, <1>6, <2>1 DEF ClosingKnown
<1>11. CASE UNCHANGED vars
  <2>1. UNCHANGED <<live, log, pc, handle, unrecorded, target>> /\ Closed' = Closed
    BY <1>11 DEF vars, disk, Closed
  <2> QED
    BY <1>s, <1>6, <2>1 DEF ClosingKnown
<1> QED
  BY <1>1, <1>2, <1>3, <1>4, <1>5, <1>7, <1>8, <1>9, <1>10, <1>11
     DEF Next, Write, Rotate, OpenLive, Operator

LEMMA ClosingInit == Init => ClosingInv
<1> SUFFICES ASSUME Init PROVE ClosingInv
  OBVIOUS
<1>1. log = <<>> /\ Closed = {} /\ live = EmptyFile /\ pc = "down"
  BY DEF Init, Closed
<1> QED
  BY <1>1, EmptyStarts DEF ClosingInv, Started, ClosingKnown, LogLinked

\* A file that holds its stretch of a linked log is linked.
LEMMA StretchLinked ==
    ASSUME TypeOK, HashIsPlace, LogLinked, NEW f \in File, HoldsItsStretch(f)
    PROVE  Linked(f)
<1>1. f.first \in Nat /\ Len(f.events) \in Nat /\ Len(log) \in Nat
  BY FileFacts DEF TypeOK
<1>2. f.prev = f.first
  BY <1>1, HashAtPlace DEF HoldsItsStretch
<1>3. ASSUME NEW i \in 1..Len(f.events)
      PROVE  f.events[i].prev = IF i = 1 THEN f.prev ELSE f.events[i - 1].hash
  <2>1. f.first + i \in 1..Len(log) /\ f.events[i] = log[f.first + i]
    BY <1>1 DEF HoldsItsStretch
  <2>2. f.events[i].prev = f.first + i - 1
    <3>1. log[f.first + i].prev = (f.first + i) - 1
      BY <2>1 DEF LogLinked
    <3> QED
      BY <1>1, <2>1, <3>1
  <2>3. CASE i = 1
    BY <1>1, <1>2, <2>2, <2>3
  <2>4. CASE i # 1
    <3>1. i - 1 \in 1..Len(f.events) /\ f.first + (i - 1) \in 1..Len(log)
      BY <1>1, <2>1, <2>4
    <3>2. f.events[i - 1] = log[f.first + (i - 1)]
      BY <3>1 DEF HoldsItsStretch
    <3>3. f.events[i - 1].hash = f.first + (i - 1)
      BY <3>1, <3>2 DEF HashIsPlace
    <3> QED
      BY <1>1, <2>2, <2>4, <3>3
  <2> QED
    BY <2>3, <2>4
<1> QED
  BY <1>3 DEF Linked

\* A segment that is read after an archive, with no gap, continues it.
LEMMA NoGapContinues ==
    ASSUME TypeOK, DiskInv, LiveWhole, ~Gap, NEW seg \in ReadOrder,
           NEW p \in archives, PrevArchive(p, seg)
    PROVE  seg.file.first = p.name.last + 1 /\ seg.file.first \in Nat
<1>1. /\ p \in Closed /\ p.name.first \in Nat /\ p.name.last \in Nat
      /\ p.name.first <= p.name.last /\ p.name.last < Len(log) /\ Len(log) \in Nat
  BY ClosedFacts, ClosedBounds DEF Closed, DiskInv, TypeOK
<1>2. /\ seg.file \in File /\ p.name.last < seg.file.first
      /\ seg.file.first <= Len(log)
      /\ \A a \in archives : a.name.first < seg.file.first => a \in seg.before
      /\ seg.file = live \/ \E a \in archives : seg.file = a.file /\ seg.file.first = a.name.first
  <2>1. CASE seg = [file |-> live, before |-> archives]
    BY <1>1, <2>1, FileFacts DEF LiveWhole, TypeOK
  <2>2. ASSUME NEW a \in archives,
               seg = [file |-> a.file,
                      before |-> {b \in archives : b.name.first < a.name.first}]
        PROVE  /\ seg.file \in File /\ p.name.last < seg.file.first
               /\ seg.file.first <= Len(log)
               /\ seg.file = a.file /\ seg.file.first = a.name.first
               /\ \A c \in archives : c.name.first < seg.file.first => c \in seg.before
    <3>1. /\ a \in Closed /\ a.file \in File /\ a.name.first \in Nat /\ a.name.last \in Nat
          /\ a.name.first <= a.name.last /\ a.name.last < Len(log)
          /\ a.file.first = a.name.first
      BY ClosedFacts, ClosedBounds DEF Closed, DiskInv, ClosedWell, AsNamed
    <3>2. p.name.first < a.name.first
      BY <2>2 DEF PrevArchive
    <3>3. p.name.last < a.name.first
      BY <1>1, <3>1, <3>2 DEF DiskInv, Disjoint
    <3> QED
      BY <1>1, <2>2, <3>1, <3>3
  <2> QED
    BY <2>1, <2>2 DEF ReadOrder
<1>3. seg.file.first \in Nat
  BY <1>2, FileFacts
<1>4. ASSUME seg.file.first # p.name.last + 1 PROVE FALSE
  <2>1. p.name.last + 2 \in 1..Len(log) /\ p.name.last + 2 <= seg.file.first
    BY <1>1, <1>2, <1>3, <1>4
  <2>2. PICK f \in Segments : f.first < p.name.last + 2
                              /\ p.name.last + 2 <= f.first + Len(f.events)
    BY <2>1 DEF DiskInv, Covered
  <2>3. CASE f = live
    <3>1. f.first < seg.file.first /\ live.first \in Nat
      BY <1>1, <1>3, <2>1, <2>2, <2>3, FileFacts DEF TypeOK
    <3>2. seg.file # live
      BY <1>3, <2>3, <3>1
    <3>3. PICK a \in archives : seg.file.first = a.name.first
      BY <1>2, <3>2
    <3>4. a.name.last < live.first /\ a.name.first <= a.name.last
          /\ a.name.first \in Nat /\ a.name.last \in Nat
      BY ClosedFacts, ClosedBounds DEF LiveWhole, Closed, DiskInv
    <3> QED
      BY <2>3, <3>1, <3>3, <3>4
  <2>4. ASSUME NEW c \in Closed, f = c.file PROVE FALSE
    <3>1. /\ c.name.first \in Nat /\ c.name.last \in Nat /\ f.first = c.name.first
          /\ f.first + Len(f.events) = c.name.last + 1
      BY <2>4, ClosedFacts DEF DiskInv, ClosedWell, AsNamed
    <3>2. c.name.first < p.name.last + 2 /\ p.name.last + 1 <= c.name.last
      BY <1>1, <2>2, <3>1
    <3>3. c # p /\ ~(c.name.last < p.name.first)
      BY <1>1, <3>1, <3>2
    <3>4. p.name.last < c.name.first
      BY <1>1, <3>3 DEF DiskInv, Disjoint
    <3>5. p.name.first < c.name.first /\ c.name.first < seg.file.first
      BY <1>1, <1>3, <2>1, <3>1, <3>2, <3>4
    <3>6. CASE c \in archives
      <4>1. c \in seg.before
        BY <1>2, <3>5, <3>6
      <4> QED
        BY <1>1, <3>1, <3>5, <4>1 DEF PrevArchive
    <3>7. CASE c \in shipped
      BY <3>5, <3>7 DEF Gap
    <3> QED
      BY <3>6, <3>7 DEF Closed
  <2> QED
    BY <2>2, <2>3, <2>4 DEF Segments, ClosedFiles, Closed
<1> QED
  BY <1>3, <1>4

LEMMA NoCauseVerifies ==
    ASSUME TypeOK, LogInv, ClosingInv, present, ~Gap, ~HalfCreated
    PROVE  /\ \A a \in archives : NameVerifies(a)
           /\ \A seg \in ReadOrder : SegmentVerifies(seg)
<1>1. LiveWhole /\ DiskInv /\ HashIsPlace /\ LogLinked /\ Started
  BY EmptyFileFacts DEF LogInv, DiskInv, ClosingInv, Interrupted, Unborn, HalfCreated
<1>2. \A a \in archives : NameVerifies(a)
  BY <1>1 DEF NameVerifies, EndIndex, DiskInv, ClosedWell, AsNamed, Closed
<1>3. ASSUME NEW seg \in ReadOrder PROVE SegmentVerifies(seg)
  <2>1. /\ seg.file \in File /\ HoldsItsStretch(seg.file) /\ Starts(seg.file, ClosedNames)
        /\ seg.before \subseteq archives
        /\ seg.file.hasStart => seg.file.prevSegment.last + 1 = seg.file.first
    <3>1. CASE seg = [file |-> live, before |-> archives]
      BY <1>1, <3>1 DEF LiveWhole, TypeOK, Started
    <3>2. ASSUME NEW a \in archives,
                 seg = [file |-> a.file,
                        before |-> {b \in archives : b.name.first < a.name.first}]
          PROVE  /\ seg.file \in File /\ HoldsItsStretch(seg.file)
                 /\ Starts(seg.file, ClosedNames) /\ seg.before \subseteq archives
                 /\ seg.file.hasStart => seg.file.prevSegment.last + 1 = seg.file.first
      <4>1. seg.file = a.file /\ a \in Closed /\ seg.before \subseteq archives
        BY <3>2 DEF Closed
      <4> QED
        BY <1>1, <4>1, ClosedFacts DEF DiskInv, ClosedWell, Started
    <3> QED
      BY <3>1, <3>2 DEF ReadOrder
  <2>2. Linked(seg.file)
    BY <1>1, <2>1, StretchLinked
  <2>3. Continues(seg)
    <3> SUFFICES ASSUME NEW p \in seg.before, PrevArchive(p, seg)
                 PROVE  seg.file.first = EndIndex(p.file) /\ seg.file.prev = LastHash(p.file)
      BY DEF Continues
    <3>1. p \in archives /\ p \in Closed /\ p.file \in File
      BY <2>1, ClosedFacts DEF Closed
    <3>2. seg.file.first = p.name.last + 1 /\ seg.file.first \in Nat
      BY <1>1, <3>1, NoGapContinues
    <3>3. seg.file.first = EndIndex(p.file)
      BY <1>2, <3>1, <3>2 DEF NameVerifies
    <3>4. LastHash(p.file) = EndIndex(p.file)
      BY <1>1, <3>1, LastHashIsPlace DEF DiskInv, ClosedWell, EndIndex
    <3>5. seg.file.first \in 0..Len(log)
      BY <2>1, <3>2, FileFacts DEF HoldsItsStretch, TypeOK
    <3>6. seg.file.prev = seg.file.first
      BY <1>1, <2>1, <3>5, HashAtPlace DEF HoldsItsStretch
    <3> QED
      BY <3>3, <3>4, <3>6
  <2>4. ClosingChecks(seg)
    <3>1. ASSUME NEW i \in 1..Len(seg.file.events), seg.file.events[i].closes,
                 NEW p \in seg.before, PrevArchive(p, seg)
          PROVE  seg.file.events[i].segment = p.name
      <4>1. /\ seg.file.hasStart /\ seg.file.events[i].segment = seg.file.prevSegment
            /\ seg.file.prevSegment \in ClosedNames
        BY <2>1, <3>1 DEF Starts
      <4>2. PICK c \in Closed : c.name = seg.file.prevSegment
        BY <4>1 DEF ClosedNames
      <4>3. p \in archives /\ p \in Closed
        BY <2>1 DEF Closed
      <4>4. seg.file.first = p.name.last + 1
        BY <1>1, <3>1, <4>3, NoGapContinues
      <4>5. c.name.last = p.name.last
        BY <2>1, <4>1, <4>2, <4>3, <4>4, ClosedFacts
      <4>6. /\ c.name.first <= c.name.last /\ p.name.first <= p.name.last
            /\ c.name.first \in Nat /\ c.name.last \in Nat
            /\ p.name.first \in Nat /\ p.name.last \in Nat
        BY <1>1, <4>3, ClosedFacts, ClosedBounds DEF DiskInv
      <4>7. c = p
        BY <1>1, <4>3, <4>5, <4>6 DEF DiskInv, Disjoint
      <4> QED
        BY <4>1, <4>2, <4>7
    <3>2. ASSUME NEW i \in 1..Len(seg.file.events)
          PROVE  IF seg.file.events[i].closes THEN i = 1
                 ELSE i = 1 => seg.file.first = 0
      BY <2>1 DEF Starts
    <3> QED
      BY <3>1, <3>2 DEF ClosingChecks
  <2> QED
    BY <2>2, <2>3, <2>4 DEF SegmentVerifies
<1> QED
  BY <1>2, <1>3

\* acpctl audit verify calls the log broken only when the operator left a gap
\* or the daemon stopped half way through creating a file, for an operator who
\* ships recorded segments only (verifyAuditLog, checkClosing).
THEOREM BrokenForCause ==
    ASSUME ~ShipsUnrecorded
    PROVE  Spec => []BrokenOnlyForCause
<1>1. TypeOK /\ LogInv /\ ClosingInv => BrokenOnlyForCause
  <2> SUFFICES ASSUME TypeOK, LogInv, ClosingInv, ~Gap, ~HalfCreated
               PROVE  Verdict(TRUE) # "broken"
    BY DEF BrokenOnlyForCause
  <2>1. CASE ~present
    BY <2>1 DEF Verdict
  <2>2. CASE present
    BY <2>2, NoCauseVerifies DEF Verdict
  <2> QED
    BY <2>1, <2>2
<1>2. TypeOK /\ LogInv /\ ClosingInv /\ [Next]_vars => ClosingInv'
  BY ClosingStep
<1> QED
  BY <1>1, <1>2, ClosingInit, LogInvariant, TypeCorrect, PTL DEF Spec
=============================================================================
