--------------------------- MODULE AppendOnlyLog ---------------------------
(***************************************************************************)
(* What the audit log promises whoever reads it: one sequence of events,   *)
(* each linked to the one before it, that only ever grows at its end, by   *)
(* one event at a time (internal/audit/chain, the Chain interface).        *)
(***************************************************************************)
EXTENDS Naturals, Sequences

VARIABLE entries

Tip(s) == IF s = <<>> THEN 0 ELSE s[Len(s)].hash

Init == entries = <<>>

Grow ==
    /\ Len(entries') = Len(entries) + 1
    /\ \A i \in 1..Len(entries) : entries'[i] = entries[i]
    /\ entries'[Len(entries')].prev = Tip(entries)

Spec == Init /\ [][Grow]_entries
=============================================================================
