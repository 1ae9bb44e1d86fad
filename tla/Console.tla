------------------------------- MODULE Console -------------------------------
(***************************************************************************)
(* The console (ADR 0039): a person's application and the listener of      *)
(* every authority it reaches.                                             *)
(*   cmd/sagvd/console_api.go    the people list, the passes, the check,   *)
(*                               the emergency stop                        *)
(*   cmd/sagvd/console_move.go   a planned move, carried out by the source *)
(*   internal/console            the check's binding, the signed order     *)
(*   cmd/vgconsole/app.go        joining, signing, ordering a move         *)
(*   cmd/acpctl/console.go       a pass made on the authority's host       *)
(*                                                                         *)
(* Keys name people and listeners, and signatures verify.  A listener may  *)
(* be restarted at any step, then perhaps as another image; every write of *)
(* a handler may fail, and what was written before it stays.  A call may   *)
(* fail with its effect done.  Viewers and operators change nothing here   *)
(* (a restore check is a job of JobQueue), so people are owners.  Every    *)
(* pass carries the right pin.  Every handler writes its CONSOLE_ACTION    *)
(* before its effect; the model keeps the events of a move, the ones its   *)
(* properties read.                                                        *)
(***************************************************************************)
EXTENDS Naturals, FiniteSets

CONSTANTS
    Servers, People,
    Models,         \* names of sealed models
    Home,           \* model -> the server it was sealed on
    Images,         \* what a server may run; Pinned is what the passes name
    Pinned,
    MaxCodes, MaxOrders, MaxSerial, MaxFaults       \* bounds of the model

ASSUME ConsoleAssumption ==
    /\ Servers \cap People = {} /\ Pinned \in Images
    /\ Home \in [Models -> Servers]
    /\ MaxCodes \in Nat /\ MaxOrders \in Nat /\ MaxSerial \in Nat
    /\ MaxFaults \in Nat

VARIABLES
    image,      \* the image each server runs
    people,     \* people.json: key -> its place on the list
    invites,    \* the invites not yet used
    holder,     \* the operator key at stop.public_key_path
    list,       \* the stop list at stop.list_path; serial 0 when there is none
    signed,     \* the stop list on its way, and to which server
    disk,       \* genome.bundle_dir: is the bundle there, whose key opens it
    record,     \* the audit log: the events of moves
    move,       \* the order being carried out, under moveMu
    done,       \* movesDone, in memory
    app,        \* the application's Move
    orders,     \* the orders signed
    codes, faults       \* counters

memory == <<move, done>>
lists == <<people, invites, holder>>
stops == <<list, signed>>
vars == <<image, lists, stops, disk, record, memory, app, orders, codes, faults>>

-----------------------------------------------------------------------------
None == "none"
Keys == Servers \cup People
NoList == [serial |-> 0, stop |-> FALSE, by |-> None]
NoMove == [step |-> None]
NoApp == [step |-> None]
NoKey == <<>>

ASSUME NoneAssumption == None \notin Keys

\* The escrow key a server of an image has: its private half is sealed to
\* the chip and the image (KeyStore).
EscrowKey(s, i) == <<s, i>>

\* A write that fails, an answer that is lost, a restart: as many as MaxFaults.
Fault(happens) ==
    /\ happens => faults < MaxFaults
    /\ faults' = IF happens THEN faults + 1 ELSE faults

\* audit.emit: on the chain, or the handler changes nothing.
Emit(s, e) == record' = [record EXCEPT ![s] = @ \cup {e}]

\* listed and lookup: a key on the list whose time is not over; Role.Allows.
Listed(s, k) == people[s][k] \notin {None, "expired"}
Owner(s, k) == people[s][k] = "owner"

\* check, handleCheck, VerifyCheck: the answer is the server's own, for this
\* challenge, this certificate and this state, so what is left to compare is
\* the image.
Proves(s, k) == Listed(s, k) /\ image[s] = Pinned

\* stopState: nobody holds the stop, a list that stops, or none that reads.
Stopped(s) == list[s].stop
StopError(s) == holder[s] # None /\ list[s].serial = 0

-----------------------------------------------------------------------------
(* People and passes.                                                       *)

\* handleInvite: a code no one has, written down.
HandleInvite(s, p, role, written) ==
    /\ Owner(s, p) /\ codes < MaxCodes
    /\ codes' = codes + 1
    /\ invites' = IF written
                  THEN [invites EXCEPT ![s] = @ \cup {[code |-> codes + 1, role |-> role]}]
                  ELSE invites

\* App.Invite.
InvitePerson(s, p, written) ==
    /\ HandleInvite(s, p, "owner", written) /\ Fault(~written)
    /\ UNCHANGED <<image, people, holder, stops, disk, record, memory, app, orders>>

\* acpctl console invite, on the host: no record of it.
InviteOnHost(s) ==
    /\ codes < MaxCodes
    /\ codes' = codes + 1
    /\ invites' = [invites EXCEPT ![s] = @ \cup {[code |-> codes + 1, role |-> "owner"]}]
    /\ UNCHANGED <<image, people, holder, stops, disk, record, memory, app, orders, faults>>

\* The expired invite goes when it is tried.
ExpireInvite(s, i) ==
    /\ i \in invites[s]
    /\ invites' = [invites EXCEPT ![s] = @ \ {i}]
    /\ UNCHANGED <<image, people, holder, stops, disk, record, memory, app, orders,
                   codes, faults>>

HoldsStop(s, i) == i.role = "owner" /\ holder[s] = None

\* handleJoin of a key that is not on the list, up to its n-th write: the
\* code is used up, the first owner's key becomes the operator key, the list
\* is saved.
HandleJoin(s, k, i, n) ==
    /\ i \in invites[s] /\ people[s][k] = None
    /\ invites' = IF n >= 1 THEN [invites EXCEPT ![s] = @ \ {i}] ELSE invites
    /\ holder' = IF n >= 2 /\ HoldsStop(s, i) THEN [holder EXCEPT ![s] = k] ELSE holder
    /\ people' = IF n >= 3
                 THEN [people EXCEPT ![s][k] = i.role]
                 ELSE people

\* App.Join, with any pass: whoever opens it first.
Join(s, p, i, n) ==
    /\ i.role = "owner" /\ HandleJoin(s, p, i, n) /\ Fault(n < 3)
    /\ UNCHANGED <<image, stops, disk, record, memory, app, orders, codes>>

\* handleRemove: never the holder of the stop.
HandleRemove(s, k, written) ==
    /\ people[s][k] # None /\ holder[s] # k
    /\ people' = IF written THEN [people EXCEPT ![s][k] = None] ELSE people

Remove(s, p, k, written) ==
    /\ Owner(s, p) /\ HandleRemove(s, k, written) /\ Fault(~written)
    /\ UNCHANGED <<image, invites, holder, stops, disk, record, memory, app, orders, codes>>

\* A peer's ExpiresAt passes.
ExpirePeer(s, k) ==
    /\ people[s][k] = "peer"
    /\ people' = [people EXCEPT ![s][k] = "expired"]
    /\ UNCHANGED <<image, invites, holder, stops, disk, record, memory, app, orders,
                   codes, faults>>

-----------------------------------------------------------------------------
(* The emergency stop.                                                      *)

\* App.setStop, after a check: the next number, signed by whoever asks.
SetStop(s, p, stop) ==
    /\ Owner(s, p) /\ image[s] = Pinned /\ list[s].serial < MaxSerial
    /\ signed' = [at |-> s, serial |-> list[s].serial + 1, stop |-> stop, by |-> p]
    /\ UNCHANGED <<image, lists, list, disk, record, memory, app, orders, codes, faults>>

\* handleStop: signed by the holder, newer than the one in force; what was
\* in force may have changed since the application asked.
HandleStop(s, written) ==
    /\ signed # NoList /\ signed.at = s /\ Owner(s, signed.by)
    /\ signed.by = holder[s] /\ signed.serial > list[s].serial
    /\ list' = IF written
               THEN [list EXCEPT ![s] = [serial |-> signed.serial, stop |-> signed.stop,
                                         by |-> signed.by]]
               ELSE list
    /\ signed' = NoList
    /\ Fault(~written)
    /\ UNCHANGED <<image, lists, disk, record, memory, app, orders, codes>>

-----------------------------------------------------------------------------
(* The application's side of a move.                                        *)

\* App.Move asks both chips first; the model is the newest of the source.
AppChecks(p, from, to, m) ==
    /\ app = NoApp /\ from # to
    /\ Proves(from, p) /\ Proves(to, p)
    /\ holder[from] = p /\ disk[from][m].bundle
    /\ app' = [step |-> "invite", by |-> p, from |-> from, to |-> to, model |-> m]
    /\ UNCHANGED <<image, lists, stops, disk, record, memory, orders, codes, faults>>

\* A place on the target's list for the source, for an hour.
AppInvites(written) ==
    /\ app.step = "invite"
    /\ HandleInvite(app.to, app.by, "peer", written)
    /\ app' = IF written
              THEN [step |-> "order", by |-> app.by, from |-> app.from, to |-> app.to,
                    model |-> app.model, code |-> codes + 1]
              ELSE NoApp
    /\ Fault(~written)
    /\ UNCHANGED <<image, people, holder, stops, disk, record, memory, orders>>

\* SignMoveOrder, and the order goes to the source.
AppOrders ==
    /\ app.step = "order" /\ Cardinality(orders) < MaxOrders
    /\ orders' = orders \cup
          {[id |-> Cardinality(orders) + 1, by |-> app.by, from |-> app.from,
            to |-> app.to, model |-> app.model, code |-> app.code]}
    /\ app' = [step |-> "sent", by |-> app.by, to |-> app.to]
    /\ UNCHANGED <<image, lists, stops, disk, record, memory, codes, faults>>

\* An answer, or none: forgetPeers takes the servers off the target's list.
AppForgets ==
    /\ app.step = "sent" /\ Proves(app.to, app.by) /\ Owner(app.to, app.by)
    /\ LET peers == {k \in Servers : people[app.to][k] # None}
       IN  people' = [people EXCEPT ![app.to] =
                         [k \in Keys |-> IF k \in peers THEN None ELSE @[k]]]
    /\ app' = NoApp
    /\ UNCHANGED <<image, invites, holder, stops, disk, record, memory, orders, codes, faults>>

\* The application is closed, or a call of it failed.
AppEnds ==
    /\ app # NoApp /\ app' = NoApp
    /\ UNCHANGED <<image, lists, stops, disk, record, memory, orders, codes, faults>>

-----------------------------------------------------------------------------
(* The source's side: handleMove and carryOut.                              *)

At(s, step) == move[s].step = step
Goes(s, step) == move' = [move EXCEPT ![s].step = step]

\* handleMove: ParseMoveOrder, the order not used, the stop not on; an order
\* may be handed in again.
MoveBegins(s, p, o) ==
    /\ move[s] = NoMove /\ Owner(s, p)
    /\ o.from = s /\ o.by = holder[s] /\ o.id \notin done[s]
    /\ ~Stopped(s) /\ ~StopError(s)
    /\ move' = [move EXCEPT ![s] = [step |-> "join", order |-> o, key |-> NoKey]]
    /\ done' = [done EXCEPT ![s] = @ \cup {o.id}]
    /\ UNCHANGED <<image, lists, stops, disk, record, app, orders, codes, faults>>

\* A source that is on the target's list, its time over or not, is let in by
\* handleJoin; else the order's code lets it in.
MoveIsListed(s) ==
    LET o == move[s].order
    IN  /\ At(s, "join") /\ disk[s][o.model].bundle
        /\ people[o.to][s] # None
        /\ Goes(s, "check")
        /\ UNCHANGED <<image, lists, stops, disk, record, done, app, orders, codes, faults>>

MoveJoins(s, n) ==
    LET o == move[s].order
    IN  /\ At(s, "join") /\ disk[s][o.model].bundle
        /\ HandleJoin(o.to, s, [code |-> o.code, role |-> "peer"], n)
        /\ IF n = 3 THEN Goes(s, "check") ELSE move' = [move EXCEPT ![s] = NoMove]
        /\ Fault(n < 3)
        /\ UNCHANGED <<image, stops, disk, record, done, app, orders, codes>>

\* Mutant of TargetProven: the target's word is taken without the pin.
TargetProvenByWord(s, t) == Listed(t, s)

\* consolePeer.check: the target's chip, asked and verified here.
TargetProven(s, t) == Proves(t, s)

\* The target proves itself, is not stopped and has no such model; envelopeFor
\* opens the model's key here and wraps it to the key the check named.
MoveChecks(s) ==
    LET o == move[s].order
    IN  /\ At(s, "check")
        /\ TargetProven(s, o.to)
        /\ ~Stopped(o.to) /\ ~disk[o.to][o.model].bundle
        /\ disk[s][o.model].key = EscrowKey(s, image[s])
        /\ move' = [move EXCEPT ![s] = [step |-> "release", order |-> o,
                                        key |-> EscrowKey(o.to, image[o.to])]]
        /\ UNCHANGED <<image, lists, stops, disk, record, done, app, orders, codes, faults>>

\* On the record before the key leaves.
MoveReleases(s) ==
    /\ At(s, "release")
    /\ Emit(s, [act |-> "model_released", order |-> move[s].order.id, key |-> move[s].key])
    /\ Goes(s, "bundle")
    /\ UNCHANGED <<image, lists, stops, disk, done, app, orders, codes, faults>>

\* handleIncoming at t, under its moveMu: a name that is here is refused, the
\* record comes before the rename.
Incoming(t, k, name, file, written) ==
    /\ move[t] = NoMove /\ Listed(t, k)
    /\ disk[t][name][file] = IF file = "bundle" THEN FALSE ELSE NoKey
    /\ Emit(t, [act |-> "model_received", model |-> name, file |-> file])
    /\ disk' = IF ~written THEN disk
               ELSE [disk EXCEPT ![t][name][file] =
                        IF file = "bundle" THEN TRUE ELSE move[k].key]

\* consolePeer.put, and whether its answer arrives.
Puts(s, file, written, answered, next) ==
    /\ Incoming(move[s].order.to, s, move[s].order.model, file, written)
    /\ IF written /\ answered THEN Goes(s, next) ELSE move' = [move EXCEPT ![s] = NoMove]
    /\ Fault(~(written /\ answered))
    /\ UNCHANGED <<image, lists, stops, done, app, orders, codes>>

MoveSendsBundle(s, written, answered) ==
    At(s, "bundle") /\ Puts(s, "bundle", written, answered, "key")

\* Mutant of MoveSendsKey: the second answer is not looked at.
MoveSendsKeyUnheard(s, written, answered) ==
    /\ At(s, "key")
    /\ \/ Puts(s, "key", written, answered, "sent")
       \/ Goes(s, "sent") /\ UNCHANGED <<image, lists, stops, disk, record, done, app,
                                         orders, codes, faults>>

MoveSendsKey(s, written, answered) ==
    At(s, "key") /\ Puts(s, "key", written, answered, "sent")

MoveSent(s) ==
    /\ At(s, "sent")
    /\ Emit(s, [act |-> "model_sent", order |-> move[s].order.id])
    /\ move' = [move EXCEPT ![s] = NoMove]
    /\ UNCHANGED <<image, lists, stops, disk, done, app, orders, codes, faults>>

\* A refusal, a failed call, a record that could not be written, the context's
\* six hours: every one of them ends the move where it is.
MoveFails(s) ==
    /\ move[s] # NoMove
    /\ move' = [move EXCEPT ![s] = NoMove]
    /\ UNCHANGED <<image, lists, stops, disk, record, done, app, orders, codes, faults>>

\* newConsoleServer: the people are read again, the used orders are forgotten.
Restart(s, i) ==
    /\ Fault(TRUE)
    /\ image' = [image EXCEPT ![s] = i]
    /\ move' = [move EXCEPT ![s] = NoMove]
    /\ done' = [done EXCEPT ![s] = {}]
    /\ UNCHANGED <<lists, stops, disk, record, app, orders, codes>>

-----------------------------------------------------------------------------
\* A server just provisioned, or one whose first owner has joined and whose
\* first list stops nothing.
Init ==
    /\ image = [s \in Servers |-> Pinned]
    /\ holder \in [Servers -> {None} \cup People]
    /\ people = [s \in Servers |-> [k \in Keys |->
                    IF k = holder[s] THEN "owner" ELSE None]]
    /\ record = [s \in Servers |-> {}]
    /\ list = [s \in Servers |-> IF holder[s] = None THEN NoList
                                 ELSE [serial |-> 1, stop |-> FALSE, by |-> holder[s]]]
    /\ signed = NoList
    /\ disk = [s \in Servers |-> [m \in Models |->
                  IF Home[m] = s THEN [bundle |-> TRUE, key |-> EscrowKey(s, Pinned)]
                  ELSE [bundle |-> FALSE, key |-> NoKey]]]
    /\ invites = [s \in Servers |-> {}]
    /\ move = [s \in Servers |-> NoMove] /\ done = [s \in Servers |-> {}]
    /\ app = NoApp /\ orders = {} /\ codes = 0 /\ faults = 0

Next ==
    \/ \E s \in Servers, p \in People, w \in BOOLEAN : InvitePerson(s, p, w)
    \/ \E s \in Servers : InviteOnHost(s)
    \/ \E s \in Servers : \E i \in invites[s] : ExpireInvite(s, i)
    \/ \E s \in Servers, p \in People, n \in 0..3 : \E i \in invites[s] : Join(s, p, i, n)
    \/ \E s \in Servers, p \in People, k \in Keys, w \in BOOLEAN : Remove(s, p, k, w)
    \/ \E s, k \in Servers : ExpirePeer(s, k)
    \/ \E s \in Servers, p \in People, stop \in BOOLEAN : SetStop(s, p, stop)
    \/ \E s \in Servers, w \in BOOLEAN : HandleStop(s, w)
    \/ \E p \in People, from, to \in Servers, m \in Models : AppChecks(p, from, to, m)
    \/ \E w \in BOOLEAN : AppInvites(w)
    \/ AppOrders
    \/ AppForgets
    \/ AppEnds
    \/ \E s \in Servers, p \in People : \E o \in orders : MoveBegins(s, p, o)
    \/ \E s \in Servers : MoveIsListed(s)
    \/ \E s \in Servers, n \in 0..3 : MoveJoins(s, n)
    \/ \E s \in Servers : MoveChecks(s)
    \/ \E s \in Servers : MoveReleases(s)
    \/ \E s \in Servers, w, a \in BOOLEAN : MoveSendsBundle(s, w, a)
    \/ \E s \in Servers, w, a \in BOOLEAN : MoveSendsKey(s, w, a)
    \/ \E s \in Servers : MoveSent(s)
    \/ \E s \in Servers : MoveFails(s)
    \/ \E s \in Servers, i \in Images : Restart(s, i)

Spec == Init /\ [][Next]_vars

-----------------------------------------------------------------------------
TypeOK ==
    /\ image \in [Servers -> Images]
    /\ people \in [Servers -> [Keys -> {None, "owner", "peer", "expired"}]]
    /\ holder \in [Servers -> {None} \cup People]
    /\ \A s \in Servers : list[s].serial \in 0..MaxSerial
    /\ \A s \in Servers, m \in Models : disk[s][m].bundle \in BOOLEAN

\* A model's key is only ever at another server because the holder of the
\* source's stop ordered it there, the release is on the source's record and
\* the arrival on the target's, and it is wrapped to a key that only the image
\* the order's pin names can open, whatever the target was restarted as
\* meanwhile (carryOut, handleIncoming).
KeyGoesWhereOrdered ==
    \A t \in Servers, m \in Models :
        disk[t][m].key # NoKey /\ Home[m] # t =>
            /\ disk[t][m].key = EscrowKey(t, Pinned)
            /\ [act |-> "model_received", model |-> m, file |-> "key"] \in record[t]
            /\ \E o \in orders :
                  /\ o.to = t /\ o.model = m /\ o.by = holder[o.from]
                  /\ [act |-> "model_released", order |-> o.id, key |-> disk[t][m].key]
                        \in record[o.from]

\* What a source has put on its record as sent is on the target, whole and
\* with its key: however calls fail and peers are taken off the list, the
\* target's own restore has what it needs (carryOut, put).
SentCanBeRestored ==
    \A o \in orders :
        [act |-> "model_sent", order |-> o.id] \in record[o.from] =>
            /\ disk[o.to][o.model].bundle
            /\ disk[o.to][o.model].key = EscrowKey(o.to, Pinned)

\* "A move that breaks off leaves nothing under the model's name on the
\* target, so it can be pressed again" (ADR 0039).
BrokenOffLeavesNothing ==
    \A t \in Servers, m \in Models :
        disk[t][m].bundle /\ disk[t][m].key = NoKey =>
            \E s \in Servers : move[s] # NoMove /\ move[s].order.to = t

\* "Nothing is released while the stop is on" (console_move.go).
NothingReleasedWhileStopped ==
    [][\A s \in Servers, o \in orders, k \in {EscrowKey(t, i) : t \in Servers, i \in Images} :
          LET e == [act |-> "model_released", order |-> o.id, key |-> k]
          IN  e \in record'[s] \ record[s] => ~list[s].stop]_vars
==============================================================================
