------------------------------ MODULE Failover ------------------------------
(***************************************************************************)
(* Failover under a policy the operator signed (ADR 0012, 0017):           *)
(* internal/vault/failover run by sagvd failover, over the outbox of a     *)
(* Sentinel as it was replicated to the release authority.  A policy is    *)
(* known by its serial.  Two executors may be started; the audit log is    *)
(* open in one process at a time, and in neither while they watch.         *)
(*                                                                         *)
(* The authority measures a silence on its own clock, which nothing ties   *)
(* to the primary's: a timeout or a grace may have run out whenever the    *)
(* outbox is read and no new heartbeat is there.  The release itself is    *)
(* KeyRelease's; here it happens or it fails.                              *)
(*                                                                         *)
(* Replication copies each file whole, in any order and at any time.  A    *)
(* heartbeat or a report that arrives late is one that is read early; of   *)
(* the genomes, a decision finds the files that have arrived by then.      *)
(***************************************************************************)
EXTENDS Sentinel

CONSTANTS
    Executors,
    OnCompromise,   \* Triggers.CompromiseReport
    OnSilence, HasGrace,    \* HeartbeatTimeout, StoppedGrace are set
    Policies        \* by serial: notAfter, quarantine, maxRPO (MaxTime: none)

ASSUME FailoverAssumption ==
    /\ OnCompromise \in BOOLEAN /\ OnSilence \in BOOLEAN /\ HasGrace \in BOOLEAN
    /\ OnCompromise \/ OnSilence
    /\ DOMAIN Policies \subseteq Nat
    /\ \A s \in DOMAIN Policies :
          Policies[s] \in [notAfter : Nat, quarantine : Nat, maxRPO : Nat]

VARIABLES
    exec,       \* the executors
    lock,       \* who has the audit log open
    log         \* the FAILOVER_DECIDED events of the audit log

authority == <<exec, lock, log>>
vars == <<primary, authority>>

-----------------------------------------------------------------------------
Serials == DOMAIN Policies
Off == [pc |-> "off"]
Nobody == "nobody"

Failovers == {i \in DOMAIN log : log[i].decision = "failover"}

\* CheckNotSpent
NotSpent(s) ==
    /\ \A i \in Failovers : log[i].serial # s
    /\ \A i \in DOMAIN log : log[i].serial <= s

\* Policy.ActiveAt
ActiveAt(s, t) == t < Policies[s].notAfter

-----------------------------------------------------------------------------
(* The outbox as it was replicated: records and files that have arrived.    *)

Replica(records, files) ==
    [out EXCEPT
        !.records = [g \in Generations |-> IF g \in records THEN @[g]
                                                            ELSE NoRecord],
        !.bundles = [g \in Generations |-> IF g \in files THEN @[g] ELSE 0]]

Replicas == {Replica(r, f) : r \in SUBSET Generations, f \in SUBSET Generations}

-----------------------------------------------------------------------------
(* sagvd failover.                                                          *)

\* preflightFailover, NewWatcher; the log is open for a moment.
Arm(e, s) ==
    /\ exec[e] = Off /\ lock = Nobody /\ starts < MaxStarts
    /\ ActiveAt(s, now) /\ NotSpent(s)
    /\ starts' = starts + 1
    /\ exec' = [exec EXCEPT ![e] = [pc |-> "watching", serial |-> s,
                  hb |-> NoBeat]]
    /\ UNCHANGED <<now, content, intruded, wires, sen, out, sealed, lock, log>>

Watching(e) == exec[e].pc = "watching"
Rises(e) == out.beat.seq > exec[e].hb.seq

Trigger(e, kind, at, last) ==
    exec' = [exec EXCEPT ![e] = [pc |-> "triggered", serial |-> exec[e].serial,
               kind |-> kind, at |-> at, last |-> last]]

\* observe: a compromise report counts first, whatever the heartbeat says.
Reported(e) == OnCompromise /\ out.report # NoReport

ObserveReport(e) ==
    /\ Watching(e) /\ Reported(e)
    /\ Trigger(e, "compromise-report", out.report.at, out.report.last)
    /\ UNCHANGED <<primary, lock, log>>

\* A heartbeat counts when its number rises; an older one is ignored.
ObserveBeat(e) ==
    /\ Watching(e) /\ ~Reported(e) /\ Rises(e)
    /\ IF OnCompromise /\ out.beat.status = "compromised"
       THEN Trigger(e, "compromise-report", out.beat.at, out.beat.last)
       ELSE exec' = [exec EXCEPT ![e].hb = out.beat]
    /\ UNCHANGED <<primary, lock, log>>

\* The sentinel's silence, and the grace of one that said it was stopped.
Overdue(hb) == IF hb.status = "stopped" THEN HasGrace ELSE OnSilence

ObserveSilence(e) ==
    /\ Watching(e) /\ ~Reported(e) /\ ~Rises(e)
    /\ exec[e].hb # NoBeat /\ Overdue(exec[e].hb)
    /\ Trigger(e, IF exec[e].hb.status = "stopped" THEN "stopped-overdue"
                  ELSE "heartbeat-timeout", exec[e].hb.at, exec[e].hb.last)
    /\ UNCHANGED <<primary, lock, log>>

\* Mutant of Reopens: the policy was checked when it was armed.
ReopensUnchecked(e) == TRUE

\* failover.New
Reopens(e) == NotSpent(exec[e].serial)

\* The policy is spent by now.
Spent(e) ==
    /\ exec[e].pc = "triggered" /\ lock = Nobody
    /\ ~Reopens(e)
    /\ exec' = [exec EXCEPT ![e] = Off]
    /\ UNCHANGED <<primary, lock, log>>

\* Mutant of Vouched: every generation of the chain is.
VouchedAll(box, t) == {g \in Chain(box) : t.last # NoLink}

\* Choose: the newest generation the trigger's own record vouches for, sealed
\* by the cutoff, whose files check out.  A replica that holds the last one
\* as another bundle is not trusted at all.
Vouched(box, t) == {g \in Chain(box) : t.last # NoLink /\ g <= t.last.gen}

Contradicts(box, t) ==
    \E g \in Vouched(box, t) : /\ g = t.last.gen
                          /\ box.records[g].bundle # t.last.bundle

\* Mutant of ByCutoff: the quarantine is taken from the wrong side.
ByCutoffAfter(box, t, g) ==
    box.records[g].at <= t.at + Policies[t.serial].quarantine

ByCutoff(box, t, g) ==
    box.records[g].at <= t.at - Policies[t.serial].quarantine

Candidates(box, t) ==
    IF Contradicts(box, t) THEN {}
    ELSE {g \in Vouched(box, t) : ByCutoff(box, t, g) /\ CheckGenome(box, g)}

WithinRPO(box, t, g) == t.at - box.records[g].at <= Policies[t.serial].maxRPO

Chosen(box, t) == Max(Candidates(box, t))

Qualifies(box, t) ==
    /\ Candidates(box, t) # {} /\ WithinRPO(box, t, Chosen(box, t))
    /\ ActiveAt(t.serial, now)

\* The log is opened again, the policy checked again and, from here to the
\* decision, nobody else has the log.
Deciding(e) == exec[e].pc = "triggered" /\ lock = Nobody /\ Reopens(e)

\* Failover: the decision is on the record before the escrow is opened.
DecideFailover(e, box) ==
    LET t == exec[e] IN
    /\ Deciding(e) /\ Qualifies(box, t)
    /\ lock' = e
    /\ log' = Append(log, [decision |-> "failover",
                           serial |-> t.serial, trigger |-> t.kind, at |-> t.at,
                           last |-> t.last, gen |-> Chosen(box, t),
                           bundle |-> box.records[Chosen(box, t)].bundle])
    /\ exec' = [exec EXCEPT ![e] = [pc |-> "release"]]
    /\ UNCHANGED primary

Decline(e, box) ==
    LET t == exec[e] IN
    /\ Deciding(e) /\ ~Qualifies(box, t)
    /\ log' = Append(log, [decision |-> "declined", serial |-> t.serial])
    /\ exec' = [exec EXCEPT ![e] = Off]
    /\ UNCHANGED <<primary, lock>>

\* The key is taken from escrow and released, the restore confirmed: the
\* coordinator's work (KeyRelease), with the log still open.
CarryOut(e) ==
    /\ exec[e].pc = "release"
    /\ exec' = [exec EXCEPT ![e] = Off]
    /\ lock' = Nobody
    /\ UNCHANGED <<primary, log>>

\* The log cannot be opened or written, the release is refused or fails, the
\* standby does not confirm in time, the process is stopped or dies.
Leave(e) ==
    /\ exec[e] # Off
    /\ exec' = [exec EXCEPT ![e] = Off]
    /\ lock' = IF lock = e THEN Nobody ELSE lock
    /\ UNCHANGED <<primary, log>>

Pass ==
    /\ now < MaxTime
    /\ now' = now + 1
    /\ UNCHANGED <<content, intruded, wires, starts, sen, out, sealed, authority>>

-----------------------------------------------------------------------------
Init ==
    /\ SentinelInit
    /\ exec = [e \in Executors |-> Off]
    /\ lock = Nobody /\ log = <<>>

Act(e) ==
    \/ ObserveReport(e) \/ ObserveBeat(e) \/ ObserveSilence(e) \/ Spent(e)
    \/ \E box \in Replicas : DecideFailover(e, box)
    \/ \E box \in Replicas : Decline(e, box)
    \/ CarryOut(e)

Next ==
    \/ Change /\ UNCHANGED authority
    \/ Intrude /\ UNCHANGED authority
    \/ Crash /\ UNCHANGED authority
    \/ Start /\ UNCHANGED authority
    \/ CheckWires /\ UNCHANGED authority
    \/ WireFires /\ UNCHANGED authority
    \/ NothingSealed /\ UNCHANGED authority
    \/ PlaceBundle /\ UNCHANGED authority
    \/ PlaceFails /\ UNCHANGED authority
    \/ AttestFails /\ UNCHANGED authority
    \/ Commit /\ UNCHANGED authority
    \/ CommitFails /\ UNCHANGED authority
    \/ Heartbeat /\ UNCHANGED authority
    \/ Stop /\ UNCHANGED authority
    \/ \E e \in Executors, s \in Serials : Arm(e, s)
    \/ \E e \in Executors : Act(e)
    \/ \E e \in Executors : Leave(e)
    \/ Pass

Spec == Init /\ [][Next]_vars

-----------------------------------------------------------------------------
TypeOK ==
    /\ SentinelTypeOK
    /\ lock \in Executors \cup {Nobody}
    /\ lock # Nobody => exec[lock].pc = "release"
    /\ \A e \in Executors :
          exec[e].pc \in {"off", "watching", "triggered", "release"}

(* "One policy serial performs at most one failover" (ADR 0012), however    *)
(* many executors hold it and whenever they die; and no policy is applied   *)
(* after a newer one (CheckNotSpent, before the watch and after it).        *)
OneFailoverPerSerial ==
    \A i, j \in DOMAIN log : i < j =>
        /\ log[i].serial <= log[j].serial
        /\ i \in Failovers => log[i].serial < log[j].serial

(* An intrusion the wires report within the quarantine leaves no trace in   *)
(* the genome that is restored: what a tick sealed after its wires were     *)
(* checked and the machine was broken into is set aside (tick, Choose).     *)
RestoredIsClean ==
    \A i \in Failovers :
        (/\ log[i].trigger = "compromise-report"
         /\ intruded # Never
         /\ log[i].at - intruded < Policies[log[i].serial].quarantine)
        => sealed[log[i].bundle].at < intruded

(* The genome chosen is one the primary itself committed, and no newer than *)
(* the last one its trigger names: replication in any order adds nothing    *)
(* (Choose, ReadChain, CheckGenome).                                        *)
ChosenWasCommitted ==
    \A i \in Failovers :
        /\ out.records[log[i].gen].bundle = log[i].bundle
        /\ log[i].gen <= log[i].last.gen
=============================================================================
