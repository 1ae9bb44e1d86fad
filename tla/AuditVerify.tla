---------------------------- MODULE AuditVerify ----------------------------
(***************************************************************************)
(* `acpctl audit verify` (cmd/acpctl/audit_log.go) reading the files that  *)
(* AuditLog's daemon writes, at any moment, and the log as the files       *)
(* themselves tell it.                                                     *)
(***************************************************************************)
EXTENDS AuditLog, FiniteSets, FiniteSetsExt

-----------------------------------------------------------------------------
(* verifyAuditLog                                                           *)

EndIndex(file) == file.first + Len(file.events)

\* auditLog.segments: the archives by first index, then the live file; with
\* each the archives that are read before it.
ReadOrder ==
    {[file |-> a.file, before |-> {b \in archives : b.name.first < a.name.first}] :
        a \in archives} \cup {[file |-> live, before |-> archives]}

\* prevArchive: the last of those before it.
PrevArchive(p, seg) ==
    /\ p \in seg.before
    /\ \A b \in seg.before : b.name.first <= p.name.first

\* checkClosing against the archive before it, when that one is present.
ClosingChecks(seg) ==
    \A i \in 1..Len(seg.file.events) :
        LET event == seg.file.events[i] IN
        IF event.closes
        THEN /\ i = 1
             /\ \A p \in seg.before : PrevArchive(p, seg) => event.segment = p.name
        ELSE i = 1 => seg.file.first = 0

\* Each segment starts where the one before it ended, index and tip.
Continues(seg) ==
    \A p \in seg.before : PrevArchive(p, seg) =>
        /\ seg.file.first = EndIndex(p.file)
        /\ seg.file.prev = LastHash(p.file)

SegmentVerifies(seg) ==
    Continues(seg) /\ Linked(seg.file) /\ ClosingChecks(seg)

\* An archive holds what its name says.
NameVerifies(a) ==
    a.file.first = a.name.first /\ EndIndex(a.file) = a.name.last + 1

\* The oldest present segment starts the log.
Genesis ==
    \A seg \in ReadOrder :
        seg.before = {} => seg.file.first = 0 /\ seg.file.prev = 0

\* The verdict, with and without the operator's --from-tip (which names the
\* hash the oldest present segment continues from).
Verdict(fromTip) ==
    CASE ~present -> "unreadable"
      [] present /\ ~Genesis /\ ~fromTip -> "incomplete"
      [] /\ present /\ (Genesis \/ fromTip)
         /\ \A a \in archives : NameVerifies(a)
         /\ \A seg \in ReadOrder : SegmentVerifies(seg) -> "ok"
      [] OTHER -> "broken"

-----------------------------------------------------------------------------

\* The operator took a segment from between two that are present.
Gap ==
    \E s \in shipped : \E a \in archives : a.name.first < s.name.first

\* A rotation or a start was interrupted between making the fresh live file
\* and writing its segment start.
HalfCreated == ~live.hasStart /\ archives # {}

\* The verifier finds the chain broken (exit 4) only when the operator left a
\* gap or the daemon stopped half way through creating a file: nothing the
\* daemon does, in any order, with any failure, makes a log that does not
\* verify, and the segments that are here verify given the word of --from-tip.
BrokenOnlyForCause ==
    Verdict(TRUE) = "broken" => Gap \/ HalfCreated

-----------------------------------------------------------------------------
(* The log as the files tell it, and the abstract log it implements.         *)

DiskLength ==
    LET ends == {EndIndex(file) : file \in Segments}
    IN  IF ends = {} THEN 0 ELSE Max(ends)

DiskLog ==
    [i \in 1..DiskLength |->
        LET file == CHOOSE f \in Segments : f.first < i /\ i <= EndIndex(f)
        IN  file.events[i - file.first]]

Abstract == INSTANCE AppendOnlyLog WITH entries <- DiskLog

\* The files, read in order, are an append-only linked log: every rotation,
\* failure, crash, start and move of a closed segment leaves it as it is, and
\* an append adds one event at its end.
ImplementsAppendOnlyLog == Abstract!Spec
=============================================================================
