--------------------------- MODULE ConsoleProofs ---------------------------
(***************************************************************************)
(* Proofs about Console: where a model's key may be, and what a source's   *)
(* record says of a move, for any servers, people, models and images and   *)
(* any number of passes, orders, failed writes and restarts.               *)
(*                                                                         *)
(* The argument follows an order.  Its author is the holder of its         *)
(* source's stop, and stays it, since a holder is only ever named where    *)
(* there was none.  Its number is its own, since it counts the orders      *)
(* before it.  A move in progress carries out one order of its server and  *)
(* has behind it what its step says: a key wrapped to the pinned image of  *)
(* the target, the release on the record, the bundle there, the key there. *)
(* Disks and records only grow, so what a move has left behind stays.      *)
(***************************************************************************)
EXTENDS Console, FiniteSetTheorems, TLAPS

-----------------------------------------------------------------------------
EscrowKeys == {EscrowKey(s, i) : s \in Servers, i \in Images}
Files == [bundle : BOOLEAN, key : {NoKey} \cup EscrowKeys]
Orders == [id : Nat, by : People, from : Servers, to : Servers, model : Models,
           code : Nat]
Events == [act : {"model_released"}, order : Nat, key : EscrowKeys]
            \cup [act : {"model_received"}, model : Models, file : {"bundle", "key"}]
            \cup [act : {"model_sent"}, order : Nat]

Released(o, k) == [act |-> "model_released", order |-> o.id, key |-> k]
Sent(n) == [act |-> "model_sent", order |-> n]
KeyReceived(m) == [act |-> "model_received", model |-> m, file |-> "key"]

Steps == {"join", "check", "release", "bundle", "key", "sent"}

Types ==
    /\ image \in [Servers -> Images]
    /\ holder \in [Servers -> {None} \cup People]
    /\ disk \in [Servers -> [Models -> Files]]
    /\ record \in [Servers -> SUBSET Events]
    /\ move \in [Servers -> {NoMove} \cup
                    [step : Steps, order : Orders, key : {NoKey} \cup EscrowKeys]]
    /\ codes \in Nat

(* What the application has under way is the holder's own.                  *)
AppTypes ==
    app \in {NoApp}
        \cup [step : {"invite"}, by : People, from : Servers, to : Servers,
              model : Models]
        \cup [step : {"order"}, by : People, from : Servers, to : Servers,
              model : Models, code : Nat]
        \cup [step : {"sent"}, by : People, to : Servers]

AppInv ==
    /\ AppTypes
    /\ app.step \in {"invite", "order"} => app.by = holder[app.from]

(* The orders are numbered, and each is its source's holder's.              *)
OrderInv ==
    /\ IsFiniteSet(orders)
    /\ orders \subseteq Orders
    /\ \A o \in orders : o.id \in 1..Cardinality(orders)
    /\ \A o, u \in orders : o.id = u.id => o = u
    /\ \A o \in orders : o.by = holder[o.from]

(* What stands behind a move at each of its steps.                          *)
Behind(s) ==
    LET o == move[s].order
        k == EscrowKey(o.to, Pinned)
    IN  /\ o \in orders /\ o.from = s
        /\ move[s].step \in {"release", "bundle", "key", "sent"} => move[s].key = k
        /\ move[s].step \in {"bundle", "key", "sent"} => Released(o, k) \in record[s]
        /\ move[s].step \in {"key", "sent"} => disk[o.to][o.model].bundle
        /\ move[s].step = "sent" => disk[o.to][o.model].key = k

MoveInv == \A s \in Servers : move[s] # NoMove => Behind(s)

(* A record names as sent only orders there are.                            *)
SentNumbers ==
    \A s \in Servers, n \in Nat : Sent(n) \in record[s] => n \in 1..Cardinality(orders)

ConsoleInv ==
    /\ Types /\ AppInv /\ OrderInv /\ MoveInv /\ SentNumbers
    /\ KeyGoesWhereOrdered /\ SentCanBeRestored

-----------------------------------------------------------------------------
LEMMA EscrowKeyFacts ==
    /\ \A s \in Servers, i \in Images : EscrowKey(s, i) \in EscrowKeys
    /\ NoKey \notin EscrowKeys
BY DEF EscrowKeys, EscrowKey, NoKey

LEMMA NoMoveIsNone == \A m : m = NoMove => m.step \notin Steps
BY DEF NoMove, Steps, None

LEMMA InitConsole == Init => ConsoleInv
<1> SUFFICES ASSUME Init PROVE ConsoleInv
  OBVIOUS
<1> USE ConsoleAssumption, NoneAssumption
<1>1. Types
  <2>1. \A s \in Servers : EscrowKey(s, Pinned) \in EscrowKeys
    BY EscrowKeyFacts
  <2>2. disk \in [Servers -> [Models -> Files]]
    BY <2>1 DEF Init, Files
  <2> QED BY <2>2 DEF Init, Types
<1>2. AppInv
  BY DEF Init, AppInv, AppTypes, NoApp, None
<1>3. OrderInv
  BY FS_EmptySet DEF Init, OrderInv
<1>4. MoveInv /\ SentNumbers
  BY DEF Init, MoveInv, SentNumbers
<1>5. KeyGoesWhereOrdered
  BY DEF Init, KeyGoesWhereOrdered
<1>6. SentCanBeRestored
  BY DEF Init, SentCanBeRestored
<1> QED BY <1>1, <1>2, <1>3, <1>4, <1>5, <1>6 DEF ConsoleInv

-----------------------------------------------------------------------------
(* A holder stays, a disk and a record keep what they have.                 *)
HolderStays == \A s \in Servers : holder[s] # None => holder'[s] = holder[s]

Quiet == UNCHANGED <<disk, record, orders>>

(* A step that touches neither disks, records nor orders, and leaves every  *)
(* move with what its step says behind it, keeps the invariant.             *)
LEMMA QuietStep ==
    ASSUME ConsoleInv, Types', AppInv', HolderStays, Quiet,
           \A s \in Servers : move'[s] \in {NoMove, move[s]} \/ Behind(s)'
    PROVE  ConsoleInv'
<1> USE DEF Quiet
<1>1. \A o \in orders : o.from \in Servers /\ o.by # None /\ holder'[o.from] = holder[o.from]
  <2> TAKE o \in orders
  <2>1. o \in Orders /\ o.by = holder[o.from]
    BY DEF ConsoleInv, OrderInv
  <2>2. o.from \in Servers /\ o.by \in People
    BY <2>1 DEF Orders
  <2> QED BY <2>1, <2>2, NoneAssumption DEF HolderStays, Keys
<1>2. OrderInv'
  BY <1>1 DEF ConsoleInv, OrderInv
<1>3. MoveInv'
  <2> SUFFICES ASSUME NEW s \in Servers, move'[s] # NoMove PROVE Behind(s)'
    BY DEF MoveInv
  <2>1. CASE move'[s] = move[s]
    BY <2>1 DEF ConsoleInv, MoveInv, Behind
  <2> QED BY <2>1
<1>4. SentNumbers'
  BY DEF ConsoleInv, SentNumbers
<1>5. KeyGoesWhereOrdered'
  <2> SUFFICES ASSUME NEW t \in Servers, NEW m \in Models, disk[t][m].key # NoKey, Home[m] # t
               PROVE  /\ disk[t][m].key = EscrowKey(t, Pinned)
                      /\ KeyReceived(m) \in record[t]
                      /\ \E o \in orders :
                            /\ o.to = t /\ o.model = m /\ o.by = holder'[o.from]
                            /\ Released(o, disk[t][m].key) \in record[o.from]
    BY DEF KeyGoesWhereOrdered, KeyReceived, Released
  <2>1. /\ disk[t][m].key = EscrowKey(t, Pinned)
        /\ KeyReceived(m) \in record[t]
        /\ \E o \in orders :
              /\ o.to = t /\ o.model = m /\ o.by = holder[o.from]
              /\ Released(o, disk[t][m].key) \in record[o.from]
    BY Zenon DEF ConsoleInv, KeyGoesWhereOrdered, KeyReceived, Released
  <2> QED BY <1>1, <2>1
<1>6. SentCanBeRestored'
  BY DEF ConsoleInv, SentCanBeRestored
<1> QED BY <1>2, <1>3, <1>4, <1>5, <1>6 DEF ConsoleInv

-----------------------------------------------------------------------------
(* What HandleJoin may do to the stop's holder.                             *)
LEMMA JoinHolder ==
    ASSUME Types, NEW s \in Servers, NEW k \in Keys, NEW i, NEW n \in 0..3,
           HandleJoin(s, k, i, n), i.role = "owner" => k \in People
    PROVE  holder' \in [Servers -> {None} \cup People] /\ HolderStays
BY DEF Types, HandleJoin, HolderStays, HoldsStop

(* The steps of people and of the stop: only a holder may change.           *)
PeopleStep ==
    \/ \E s \in Servers, p \in People, w \in BOOLEAN : InvitePerson(s, p, w)
    \/ \E s \in Servers : InviteOnHost(s)
    \/ \E s \in Servers : \E i \in invites[s] : ExpireInvite(s, i)
    \/ \E s \in Servers, p \in People, n \in 0..3 : \E i \in invites[s] : Join(s, p, i, n)
    \/ \E s \in Servers, p \in People, k \in Keys, w \in BOOLEAN : Remove(s, p, k, w)
    \/ \E s, k \in Servers : ExpirePeer(s, k)
    \/ \E s \in Servers, p \in People, stop \in BOOLEAN : SetStop(s, p, stop)
    \/ \E s \in Servers, w \in BOOLEAN : HandleStop(s, w)

LEMMA PeopleSteps == ASSUME ConsoleInv, PeopleStep PROVE ConsoleInv'
<1> USE DEF memory, lists, stops
<1>1. UNCHANGED <<image, move, app>> /\ Quiet
  BY DEF PeopleStep, InvitePerson, InviteOnHost, ExpireInvite, Join, Remove,
         ExpirePeer, SetStop, HandleStop, Quiet
<1>2. codes' \in Nat
  BY DEF PeopleStep, InvitePerson, InviteOnHost, ExpireInvite, Join, Remove,
         ExpirePeer, SetStop, HandleStop, HandleInvite, ConsoleInv, Types
<1>3. holder' \in [Servers -> {None} \cup People] /\ HolderStays
  <2>1. CASE \E s \in Servers, p \in People, n \in 0..3 : \E i \in invites[s] : Join(s, p, i, n)
    BY <2>1, JoinHolder DEF Join, Keys, ConsoleInv
  <2>2. CASE holder' = holder
    BY <2>2 DEF ConsoleInv, Types, HolderStays
  <2> QED BY <2>1, <2>2 DEF PeopleStep, InvitePerson, InviteOnHost, ExpireInvite,
                Remove, ExpirePeer, SetStop, HandleStop
<1>4. Types'
  BY <1>1, <1>2, <1>3 DEF ConsoleInv, Types, Quiet
<1>5. AppInv'
  <2>1. app.step \in {"invite", "order"} => app.by \in People /\ app.from \in Servers
    BY DEF ConsoleInv, AppInv, AppTypes, NoApp, None
  <2> QED BY <1>1, <1>3, <2>1, NoneAssumption DEF ConsoleInv, AppInv, AppTypes, HolderStays, Keys
<1> QED BY <1>1, <1>3, <1>4, <1>5, QuietStep

-----------------------------------------------------------------------------
(* The application's steps, but for its order.                              *)
AppStep ==
    \/ \E p \in People, from, to \in Servers, m \in Models : AppChecks(p, from, to, m)
    \/ \E w \in BOOLEAN : AppInvites(w)
    \/ AppForgets
    \/ AppEnds

LEMMA AppSteps == ASSUME ConsoleInv, AppStep PROVE ConsoleInv'
<1> USE DEF memory, lists, stops
<1>1. UNCHANGED <<image, move, holder>> /\ Quiet
  BY DEF AppStep, AppChecks, AppInvites, AppForgets, AppEnds, Quiet
<1>2. codes' \in Nat
  BY DEF AppStep, AppChecks, AppInvites, AppForgets, AppEnds, HandleInvite, ConsoleInv, Types
<1>3. Types'
  BY <1>1, <1>2 DEF ConsoleInv, Types, Quiet
<1>4. AppInv'
  <2>1. CASE app' = NoApp
    BY <2>1 DEF AppInv, AppTypes, NoApp, None
  <2>2. ASSUME NEW p \in People, NEW from \in Servers, NEW to \in Servers, NEW m \in Models,
               AppChecks(p, from, to, m)
        PROVE  AppInv'
    BY <1>1, <2>2 DEF AppChecks, AppInv, AppTypes
  <2>3. ASSUME AppInvites(TRUE) PROVE AppInv'
    <3>1. app \in [step : {"invite"}, by : People, from : Servers, to : Servers,
                   model : Models]
      BY <2>3 DEF AppInvites, ConsoleInv, AppInv, AppTypes, NoApp, None
    <3>2. app.by = holder[app.from] /\ codes + 1 \in Nat
      BY <3>1 DEF ConsoleInv, AppInv, Types
    <3>3. app' = [step |-> "order", by |-> app.by, from |-> app.from, to |-> app.to,
                  model |-> app.model, code |-> codes + 1]
      BY <2>3 DEF AppInvites
    <3> QED BY <1>1, <3>1, <3>2, <3>3 DEF AppInv, AppTypes
  <2>4. CASE \E w \in BOOLEAN : AppInvites(w)
    <3> PICK w \in BOOLEAN : AppInvites(w)
      BY <2>4
    <3>1. CASE w = FALSE
      BY <3>1, <2>1 DEF AppInvites
    <3> QED BY <3>1, <2>3
  <2> QED BY <2>1, <2>2, <2>4 DEF AppStep, AppForgets, AppEnds
<1> QED BY <1>1, <1>3, <1>4, QuietStep DEF HolderStays

-----------------------------------------------------------------------------
(* The source's steps that leave disks and records alone.                   *)

LEMMA AppStays ==
    ASSUME ConsoleInv, HolderStays, app' = app PROVE AppInv'
<1>1. app.step \in {"invite", "order"} => app.by \in People /\ app.from \in Servers
  BY DEF ConsoleInv, AppInv, AppTypes, NoApp, None
<1> QED BY <1>1, NoneAssumption DEF ConsoleInv, AppInv, AppTypes, HolderStays, Keys

(* One server's move changes, to one its step may go on from, or ends.      *)
LEMMA MoveQuiet ==
    ASSUME ConsoleInv, NEW s \in Servers, NEW m, move' = [move EXCEPT ![s] = m],
           m \in {NoMove} \cup [step : Steps, order : Orders, key : {NoKey} \cup EscrowKeys],
           m # NoMove => Behind(s)',
           image' \in [Servers -> Images], holder' \in [Servers -> {None} \cup People],
           HolderStays, Quiet, app' = app, codes' = codes
    PROVE  ConsoleInv'
<1>1. Types'
  BY DEF ConsoleInv, Types, Quiet
<1>2. move'[s] = m /\ \A t \in Servers : t # s => move'[t] = move[t]
  BY DEF ConsoleInv, Types
<1> QED BY <1>1, <1>2, AppStays, QuietStep

LEMMA MoveBeginsSteps ==
    ASSUME ConsoleInv, NEW s \in Servers, NEW p \in People, NEW o \in orders,
           MoveBegins(s, p, o)
    PROVE  ConsoleInv'
<1> DEFINE m == [step |-> "join", order |-> o, key |-> NoKey]
<1> USE DEF memory, lists, stops
<1>1. move' = [move EXCEPT ![s] = m] /\ UNCHANGED <<image, holder, app, codes>> /\ Quiet
  BY DEF MoveBegins, Quiet
<1>2. m \in [step : Steps, order : Orders, key : {NoKey} \cup EscrowKeys]
  BY DEF ConsoleInv, OrderInv, Steps
<1>3. Behind(s)'
  <2>1. move'[s] = m
    BY <1>1 DEF ConsoleInv, Types
  <2>2. o.from = s /\ o \in orders'
    BY <1>1 DEF MoveBegins, Quiet
  <2> QED BY <2>1, <2>2 DEF Behind
<1> HIDE DEF m
<1> QED BY <1>1, <1>2, <1>3, MoveQuiet DEF HolderStays, ConsoleInv, Types

(* What a move that is under way has.                                       *)
LEMMA UnderWay ==
    ASSUME ConsoleInv, NEW s \in Servers, move[s].step \in Steps
    PROVE  /\ move[s] # NoMove /\ Behind(s)
           /\ move[s] \in [step : Steps, order : Orders, key : {NoKey} \cup EscrowKeys]
           /\ move[s].order \in orders /\ move[s].order \in Orders
           /\ move[s].order.from = s
           /\ move[s].order.to \in Servers /\ move[s].order.model \in Models
           /\ move[s].order.id \in Nat
           /\ EscrowKey(move[s].order.to, Pinned) \in EscrowKeys
<1>1. move[s] # NoMove
  BY NoMoveIsNone
<1>2. Behind(s) /\ move[s] \in [step : Steps, order : Orders, key : {NoKey} \cup EscrowKeys]
  BY <1>1 DEF ConsoleInv, MoveInv, Types
<1>3. move[s].order \in orders /\ move[s].order \in Orders /\ move[s].order.from = s
  BY <1>2 DEF Behind
<1>4. /\ move[s].order.to \in Servers /\ move[s].order.model \in Models
      /\ move[s].order.id \in Nat
  BY <1>3 DEF Orders
<1> QED BY <1>1, <1>2, <1>3, <1>4, EscrowKeyFacts, ConsoleAssumption

(* The move goes on from join to check.                                     *)
LEMMA MoveGoesOn ==
    ASSUME ConsoleInv, NEW s \in Servers, At(s, "join"), Goes(s, "check"),
           holder' \in [Servers -> {None} \cup People], HolderStays,
           Quiet, UNCHANGED <<image, app, codes>>
    PROVE  ConsoleInv'
<1> DEFINE m == [move[s] EXCEPT !.step = "check"]
<1>1. move[s].step \in Steps
  BY DEF At, Steps
<1>2. /\ move[s] \in [step : Steps, order : Orders, key : {NoKey} \cup EscrowKeys]
      /\ move[s].order \in orders /\ move[s].order.from = s
  BY <1>1, UnderWay
<1>3. move' = [move EXCEPT ![s] = m]
  BY DEF Goes, ConsoleInv, Types
<1>4. m \in [step : Steps, order : Orders, key : {NoKey} \cup EscrowKeys]
  BY <1>2 DEF Steps
<1>5. m.step = "check" /\ m.order = move[s].order
  BY <1>2
<1>6. move'[s] = m
  BY <1>3 DEF ConsoleInv, Types
<1>7. Behind(s)'
  BY <1>2, <1>5, <1>6 DEF Behind, Quiet
<1>8. image' \in [Servers -> Images]
  BY DEF ConsoleInv, Types
<1> HIDE DEF m
<1> QED BY <1>3, <1>4, <1>7, <1>8, MoveQuiet

LEMMA MoveIsListedSteps ==
    ASSUME ConsoleInv, NEW s \in Servers, MoveIsListed(s) PROVE ConsoleInv'
BY MoveGoesOn DEF MoveIsListed, HolderStays, ConsoleInv, Types, Quiet, lists, stops

(* A move that ends leaves everything else as it is.                        *)
LEMMA MoveEnds ==
    ASSUME ConsoleInv, NEW s \in Servers, move' = [move EXCEPT ![s] = NoMove],
           image' \in [Servers -> Images], holder' \in [Servers -> {None} \cup People],
           HolderStays, Quiet, app' = app, codes' = codes
    PROVE  ConsoleInv'
BY MoveQuiet

LEMMA MoveJoinsSteps ==
    ASSUME ConsoleInv, NEW s \in Servers, NEW n \in 0..3, MoveJoins(s, n)
    PROVE  ConsoleInv'
<1> DEFINE o == move[s].order
           i == [code |-> o.code, role |-> "peer"]
<1> USE DEF memory, lists, stops
<1>1. At(s, "join") /\ HandleJoin(o.to, s, i, n) /\ Quiet /\ UNCHANGED <<image, app, codes>>
  BY DEF MoveJoins, Quiet
<1>2. o.to \in Servers
  BY <1>1, UnderWay DEF At, Steps
<1>3. holder' \in [Servers -> {None} \cup People] /\ HolderStays
  <2>1. s \in Keys /\ i.role # "owner"
    BY DEF Keys
  <2> HIDE DEF o, i
  <2> QED BY <1>1, <1>2, <2>1, JoinHolder DEF ConsoleInv
<1>4. CASE n = 3
  <2>1. Goes(s, "check")
    BY <1>4 DEF MoveJoins
  <2> QED BY <1>1, <1>3, <2>1, MoveGoesOn
<1>5. CASE n # 3
  <2>1. move' = [move EXCEPT ![s] = NoMove]
    BY <1>5 DEF MoveJoins
  <2> QED BY <1>1, <1>3, <2>1, MoveEnds DEF ConsoleInv, Types
<1> QED BY <1>4, <1>5

LEMMA MoveFailsSteps ==
    ASSUME ConsoleInv, NEW s \in Servers, MoveFails(s) PROVE ConsoleInv'
BY MoveEnds DEF MoveFails, HolderStays, ConsoleInv, Types, Quiet, lists, stops

LEMMA RestartSteps ==
    ASSUME ConsoleInv, NEW s \in Servers, NEW i \in Images, Restart(s, i)
    PROVE  ConsoleInv'
<1>1. image' \in [Servers -> Images]
  BY DEF Restart, ConsoleInv, Types
<1> QED BY <1>1, MoveEnds DEF Restart, HolderStays, ConsoleInv, Types, Quiet, lists, stops

(* The key is wrapped to the pinned image of the target.                    *)
LEMMA MoveChecksSteps ==
    ASSUME ConsoleInv, NEW s \in Servers, MoveChecks(s) PROVE ConsoleInv'
<1> DEFINE o == move[s].order
           m == [step |-> "release", order |-> o, key |-> EscrowKey(o.to, Pinned)]
<1> USE DEF memory, lists, stops
<1>1. /\ move' = [move EXCEPT ![s] = m]
      /\ UNCHANGED <<image, holder, app, codes>> /\ Quiet
  BY DEF MoveChecks, Quiet, TargetProven, Proves
<1>2. o \in orders /\ o \in Orders /\ o.from = s /\ EscrowKey(o.to, Pinned) \in EscrowKeys
  BY UnderWay DEF MoveChecks, At, Steps
<1>3. m \in [step : Steps, order : Orders, key : {NoKey} \cup EscrowKeys]
  BY <1>2 DEF Steps
<1>4. Behind(s)'
  <2>1. move'[s] = m
    BY <1>1 DEF ConsoleInv, Types
  <2>2. m.step = "release" /\ m.order = o /\ m.key = EscrowKey(o.to, Pinned)
    OBVIOUS
  <2> HIDE DEF m, o
  <2> QED BY <1>1, <1>2, <2>1, <2>2 DEF Behind, Quiet
<1>5. image' \in [Servers -> Images] /\ holder' \in [Servers -> {None} \cup People]
  BY <1>1 DEF ConsoleInv, Types
<1> HIDE DEF m, o
<1> QED BY <1>1, <1>3, <1>4, <1>5, MoveQuiet DEF HolderStays

-----------------------------------------------------------------------------
(* The application's order takes the next number.                           *)

LEMMA AppOrdersSteps == ASSUME ConsoleInv, AppOrders PROVE ConsoleInv'
<1> DEFINE new == [id |-> Cardinality(orders) + 1, by |-> app.by, from |-> app.from,
                   to |-> app.to, model |-> app.model, code |-> app.code]
<1> USE DEF memory, lists, stops
<1>1. /\ orders' = orders \cup {new} /\ app' = [step |-> "sent", by |-> app.by, to |-> app.to]
      /\ UNCHANGED <<image, holder, disk, record, move, codes>>
  BY DEF AppOrders
<1>2. /\ app \in [step : {"order"}, by : People, from : Servers, to : Servers,
                  model : Models, code : Nat]
      /\ app.by = holder[app.from]
  BY DEF AppOrders, ConsoleInv, AppInv, AppTypes, NoApp, None
<1>3. IsFiniteSet(orders) /\ Cardinality(orders) \in Nat
  BY FS_CardinalityType DEF ConsoleInv, OrderInv
<1>4. new \in Orders /\ new.id = Cardinality(orders) + 1 /\ new.by = holder[new.from]
  BY <1>2, <1>3 DEF Orders
<1> HIDE DEF new
<1>5. new \notin orders
  BY <1>3, <1>4 DEF ConsoleInv, OrderInv
<1>6. IsFiniteSet(orders') /\ Cardinality(orders') = Cardinality(orders) + 1
  BY <1>1, <1>3, <1>5, FS_AddElement
<1>7. Types' /\ AppInv'
  <2>1. Types'
    BY <1>1 DEF ConsoleInv, Types
  <2>2. app'.step = "sent"
    BY <1>1
  <2> QED BY <1>1, <1>2, <2>1, <2>2 DEF AppInv, AppTypes
<1>8. OrderInv'
  <2>1. orders' \subseteq Orders
    BY <1>1, <1>4 DEF ConsoleInv, OrderInv
  <2>2. \A o \in orders : o.id \in 1..Cardinality(orders)
    BY DEF ConsoleInv, OrderInv
  <2>3. \A o \in orders' : o.id \in 1..(Cardinality(orders) + 1)
    BY <1>1, <1>3, <1>4, <2>2
  <2>4. \A o, u \in orders' : o.id = u.id => o = u
    <3> SUFFICES ASSUME NEW o \in orders', NEW u \in orders', o.id = u.id PROVE o = u
      OBVIOUS
    <3>1. o \in orders => o.id # new.id
      BY <1>3, <1>4, <2>2
    <3>2. u \in orders => u.id # new.id
      BY <1>3, <1>4, <2>2
    <3> QED BY <1>1, <3>1, <3>2 DEF ConsoleInv, OrderInv
  <2>5. \A o \in orders' : o.by = holder'[o.from]
    BY <1>1, <1>4 DEF ConsoleInv, OrderInv
  <2> QED BY <1>6, <2>1, <2>3, <2>4, <2>5 DEF OrderInv
<1>9. MoveInv'
  BY <1>1 DEF ConsoleInv, MoveInv, Behind
<1>10. SentNumbers'
  BY <1>1, <1>3, <1>6 DEF ConsoleInv, SentNumbers
<1>11. KeyGoesWhereOrdered'
  BY <1>1, Zenon DEF ConsoleInv, KeyGoesWhereOrdered
<1>12. SentCanBeRestored'
  <2> SUFFICES ASSUME NEW o \in orders', Sent(o.id) \in record[o.from]
               PROVE  /\ disk[o.to][o.model].bundle
                      /\ disk[o.to][o.model].key = EscrowKey(o.to, Pinned)
    BY <1>1, Zenon DEF SentCanBeRestored, Sent
  <2>1. o \in orders
    <3>1. new.id \in Nat /\ new.from \in Servers
      BY <1>4 DEF Orders
    <3> SUFFICES ASSUME o = new PROVE FALSE
      BY <1>1
    <3>2. new.id \in 1..Cardinality(orders)
      BY <3>1 DEF ConsoleInv, SentNumbers
    <3> QED BY <1>3, <1>4, <3>2
  <2> QED BY <2>1, Zenon DEF ConsoleInv, SentCanBeRestored, Sent
<1> QED BY <1>7, <1>8, <1>9, <1>10, <1>11, <1>12 DEF ConsoleInv

-----------------------------------------------------------------------------
(* Steps that put something on a record or on a disk.                       *)

(* What KeyGoesWhereOrdered asks of the key of model m at server t.         *)
Ordered(t, m) ==
    /\ disk[t][m].key = EscrowKey(t, Pinned)
    /\ KeyReceived(m) \in record[t]
    /\ \E o \in orders :
          /\ o.to = t /\ o.model = m /\ o.by = holder[o.from]
          /\ Released(o, disk[t][m].key) \in record[o.from]

(* What SentCanBeRestored asks of an order.                                 *)
Whole(o) ==
    /\ disk[o.to][o.model].bundle
    /\ disk[o.to][o.model].key = EscrowKey(o.to, Pinned)

LEMMA OrderedKey ==
    ASSUME KeyGoesWhereOrdered, NEW t \in Servers, NEW m \in Models,
           disk[t][m].key # NoKey, Home[m] # t
    PROVE  Ordered(t, m)
BY Zenon DEF KeyGoesWhereOrdered, Ordered, KeyReceived, Released

LEMMA LoudStep ==
    ASSUME ConsoleInv, Types', UNCHANGED <<holder, app, orders>>,
           \A s \in Servers : record[s] \subseteq record'[s],
           \A t \in Servers, m \in Models :
              /\ disk[t][m].bundle => disk'[t][m].bundle
              /\ disk[t][m].key # NoKey => disk'[t][m].key = disk[t][m].key,
           \A s \in Servers : move'[s] \in {NoMove, move[s]} \/ Behind(s)',
           \A t \in Servers, m \in Models :
              disk'[t][m].key # disk[t][m].key => Ordered(t, m)',
           \A s \in Servers, n \in Nat :
              Sent(n) \in record'[s] /\ Sent(n) \notin record[s] =>
                 \E o \in orders : o.id = n /\ o.from = s /\ Whole(o)'
    PROVE  ConsoleInv'
<1>1. \A o \in orders : /\ o.id \in Nat /\ o.from \in Servers /\ o.to \in Servers
                        /\ o.model \in Models
  BY DEF ConsoleInv, OrderInv, Orders
<1>2. \A s \in Servers : EscrowKey(s, Pinned) # NoKey
  BY EscrowKeyFacts, ConsoleAssumption
<1>3. AppInv' /\ OrderInv'
  BY AppStays DEF ConsoleInv, OrderInv, HolderStays
<1>4. MoveInv'
  <2> SUFFICES ASSUME NEW s \in Servers, move'[s] # NoMove, move'[s] = move[s]
               PROVE  Behind(s)'
    BY DEF MoveInv
  <2>1. Behind(s)
    BY DEF ConsoleInv, MoveInv
  <2>2. /\ move[s].order.to \in Servers /\ move[s].order.model \in Models
    BY <1>1, <2>1 DEF Behind
  <2> QED BY <1>2, <2>1, <2>2 DEF Behind
<1>5. SentNumbers'
  <2> SUFFICES ASSUME NEW s \in Servers, NEW n \in Nat, Sent(n) \in record'[s]
               PROVE  n \in 1..Cardinality(orders)
    BY DEF SentNumbers
  <2>1. CASE Sent(n) \in record[s]
    BY <2>1 DEF ConsoleInv, SentNumbers
  <2>2. CASE Sent(n) \notin record[s]
    BY <2>2 DEF ConsoleInv, OrderInv
  <2> QED BY <2>1, <2>2
<1>6. KeyGoesWhereOrdered'
  <2> SUFFICES ASSUME NEW t \in Servers, NEW m \in Models, disk'[t][m].key # NoKey, Home[m] # t
               PROVE  Ordered(t, m)'
    BY DEF KeyGoesWhereOrdered, Ordered, KeyReceived, Released
  <2> SUFFICES ASSUME disk'[t][m].key = disk[t][m].key PROVE Ordered(t, m)'
    OBVIOUS
  <2>1. Ordered(t, m)
    BY OrderedKey DEF ConsoleInv
  <2> QED BY <1>1, <2>1 DEF Ordered
<1>7. SentCanBeRestored'
  <2> SUFFICES ASSUME NEW o \in orders, Sent(o.id) \in record'[o.from] PROVE Whole(o)'
    BY Zenon DEF SentCanBeRestored, Sent, Whole
  <2>1. CASE Sent(o.id) \in record[o.from]
    <3>1. Whole(o)
      BY <2>1, Zenon DEF ConsoleInv, SentCanBeRestored, Sent, Whole
    <3> QED BY <1>1, <1>2, <3>1 DEF Whole
  <2>2. CASE Sent(o.id) \notin record[o.from]
    <3> PICK u \in orders : u.id = o.id /\ u.from = o.from /\ Whole(u)'
      BY <1>1, <2>2
    <3>1. u = o
      BY DEF ConsoleInv, OrderInv
    <3> QED BY <3>1
  <2> QED BY <2>1, <2>2
<1> QED BY <1>3, <1>4, <1>5, <1>6, <1>7 DEF ConsoleInv

LEMMA MoveReleasesSteps ==
    ASSUME ConsoleInv, NEW s \in Servers, MoveReleases(s) PROVE ConsoleInv'
<1> DEFINE o == move[s].order
           k == EscrowKey(o.to, Pinned)
           m == [move[s] EXCEPT !.step = "bundle"]
<1> USE DEF memory, lists, stops
<1>1. /\ move[s] \in [step : Steps, order : Orders, key : {NoKey} \cup EscrowKeys]
      /\ o \in orders /\ o.from = s /\ o.id \in Nat /\ k \in EscrowKeys
      /\ move[s].key = k
  BY UnderWay DEF MoveReleases, At, Steps, Behind
<1>2. /\ move' = [move EXCEPT ![s] = m]
      /\ record' = [record EXCEPT ![s] = @ \cup {Released(o, k)}]
      /\ UNCHANGED <<image, holder, disk, app, orders, codes>>
  BY <1>1 DEF MoveReleases, Goes, Emit, Released, ConsoleInv, Types
<1>3. /\ m.step = "bundle" /\ m.order = o /\ m.key = k
      /\ m \in [step : Steps, order : Orders, key : {NoKey} \cup EscrowKeys]
  BY <1>1 DEF Steps
<1>4. Released(o, k) \in Events /\ \A n : Released(o, k) # Sent(n)
  <2>1. Released(o, k) \in [act : {"model_released"}, order : Nat, key : EscrowKeys]
    BY <1>1 DEF Released
  <2>2. Released(o, k).act = "model_released" /\ \A n : Sent(n).act = "model_sent"
    BY DEF Released, Sent
  <2> HIDE DEF o, k
  <2>3. \A n : Released(o, k) # Sent(n)
    BY <2>2
  <2> QED BY <2>1, <2>3 DEF Events
<1> HIDE DEF m, o, k
<1>5. move'[s] = m /\ \A t \in Servers : t # s => move'[t] = move[t]
  BY <1>2 DEF ConsoleInv, Types
<1>6. /\ record'[s] = record[s] \cup {Released(o, k)}
      /\ \A t \in Servers : t # s => record'[t] = record[t]
  BY <1>2 DEF ConsoleInv, Types
<1>7. Types'
  BY <1>2, <1>3, <1>4 DEF ConsoleInv, Types
<1>8. Behind(s)'
  BY <1>1, <1>2, <1>3, <1>5, <1>6 DEF Behind, o, k
<1> QED
  <2>1. \A t \in Servers : record[t] \subseteq record'[t]
    BY <1>6
  <2>2. \A t \in Servers : move'[t] \in {NoMove, move[t]} \/ Behind(t)'
    BY <1>5, <1>8
  <2>3. \A t \in Servers, n \in Nat : Sent(n) \in record'[t] => Sent(n) \in record[t]
    BY <1>4, <1>6
  <2> QED BY <1>2, <1>7, <2>1, <2>2, <2>3, LoudStep

LEMMA MoveSentSteps ==
    ASSUME ConsoleInv, NEW s \in Servers, MoveSent(s) PROVE ConsoleInv'
<1> PICK o : o = move[s].order
  OBVIOUS
<1> USE DEF memory, lists, stops
<1>1. o \in orders /\ o.from = s /\ o.id \in Nat /\ Whole(o)
  BY UnderWay DEF MoveSent, At, Steps, Behind, Whole
<1>2. /\ move' = [move EXCEPT ![s] = NoMove]
      /\ record' = [record EXCEPT ![s] = @ \cup {Sent(o.id)}]
      /\ UNCHANGED <<image, holder, disk, app, orders, codes>>
  BY DEF MoveSent, Emit, Sent
<1>3. Sent(o.id) \in Events /\ \A n : Sent(n) = Sent(o.id) => n = o.id
  <2>1. \A n : Sent(n).order = n
    BY DEF Sent
  <2>2. Sent(o.id) \in [act : {"model_sent"}, order : Nat]
    BY <1>1 DEF Sent
  <2>3. \A n : Sent(n) = Sent(o.id) => n = o.id
    BY <2>1
  <2> QED BY <2>2, <2>3 DEF Events
<1>4. /\ record'[s] = record[s] \cup {Sent(o.id)}
      /\ \A t \in Servers : t # s => record'[t] = record[t]
  BY <1>2 DEF ConsoleInv, Types
<1>5. Types'
  BY <1>2, <1>3 DEF ConsoleInv, Types
<1>6. \A t \in Servers : move'[t] \in {NoMove, move[t]}
  BY <1>2 DEF ConsoleInv, Types
<1>7. Whole(o)'
  BY <1>1, <1>2 DEF Whole
<1>8. \A t \in Servers, n \in Nat :
         Sent(n) \in record'[t] /\ Sent(n) \notin record[t] =>
            \E u \in orders : u.id = n /\ u.from = t /\ Whole(u)'
  BY <1>1, <1>3, <1>4, <1>7
<1>9. \A t \in Servers : record[t] \subseteq record'[t]
  BY <1>4
<1> QED BY <1>2, <1>5, <1>6, <1>8, <1>9, LoudStep

(* A file arrives, or does not: what the target's disk and record have.     *)
Received(m, file) == [act |-> "model_received", model |-> m, file |-> file]

LEMMA PutsBundle ==
    ASSUME NEW s \in Servers, NEW w \in BOOLEAN, NEW a \in BOOLEAN,
           NEW o, o = move[s].order, MoveSendsBundle(s, w, a)
    PROVE  /\ UNCHANGED <<image, holder, app, orders, codes>>
           /\ record' = [record EXCEPT ![o.to] = @ \cup {Received(o.model, "bundle")}]
           /\ w => disk' = [disk EXCEPT ![o.to][o.model].bundle = TRUE]
           /\ ~w => disk' = disk
           /\ w /\ a => move' = [move EXCEPT ![s].step = "key"]
           /\ ~(w /\ a) => move' = [move EXCEPT ![s] = NoMove]
BY DEF MoveSendsBundle, Puts, Incoming, Emit, Goes, Received, lists, stops

LEMMA PutsKey ==
    ASSUME NEW s \in Servers, NEW w \in BOOLEAN, NEW a \in BOOLEAN,
           NEW o, o = move[s].order, MoveSendsKey(s, w, a)
    PROVE  /\ UNCHANGED <<image, holder, app, orders, codes>>
           /\ record' = [record EXCEPT ![o.to] = @ \cup {Received(o.model, "key")}]
           /\ disk[o.to][o.model].key = NoKey
           /\ w => disk' = [disk EXCEPT ![o.to][o.model].key = move[s].key]
           /\ ~w => disk' = disk
           /\ w /\ a => move' = [move EXCEPT ![s].step = "sent"]
           /\ ~(w /\ a) => move' = [move EXCEPT ![s] = NoMove]
BY DEF MoveSendsKey, Puts, Incoming, Emit, Goes, Received, lists, stops

(* The record of an arrival is no record of a sending.                      *)
LEMMA ReceivedEvent ==
    ASSUME NEW m \in Models, NEW file \in {"bundle", "key"}
    PROVE  Received(m, file) \in Events /\ \A n : Received(m, file) # Sent(n)
<1>1. Received(m, file) \in [act : {"model_received"}, model : Models, file : {"bundle", "key"}]
  BY DEF Received
<1>2. Received(m, file).act = "model_received" /\ \A n : Sent(n).act = "model_sent"
  BY DEF Received, Sent
<1>3. \A n : Received(m, file) # Sent(n)
  BY <1>2
<1> QED BY <1>1, <1>3 DEF Events

LEMMA PutsRecord ==
    ASSUME ConsoleInv, NEW t \in Servers, NEW m \in Models, NEW file \in {"bundle", "key"},
           record' = [record EXCEPT ![t] = @ \cup {Received(m, file)}]
    PROVE  /\ record' \in [Servers -> SUBSET Events]
           /\ Received(m, file) \in record'[t]
           /\ \A u \in Servers : record[u] \subseteq record'[u]
           /\ \A u \in Servers, n \in Nat : Sent(n) \in record'[u] => Sent(n) \in record[u]
<1>1. Received(m, file) \in Events /\ \A n : Received(m, file) # Sent(n)
  BY ReceivedEvent
<1>2. /\ record'[t] = record[t] \cup {Received(m, file)}
      /\ \A u \in Servers : u # t => record'[u] = record[u]
  BY DEF ConsoleInv, Types
<1> QED BY <1>1, <1>2 DEF ConsoleInv, Types

(* The move's own step after an answer, and the others'.                    *)
LEMMA PutsMove ==
    ASSUME ConsoleInv, NEW s \in Servers, NEW next \in Steps, NEW heard \in BOOLEAN,
           move[s].step \in Steps,
           heard => move' = [move EXCEPT ![s].step = next],
           ~heard => move' = [move EXCEPT ![s] = NoMove]
    PROVE  /\ move' \in [Servers -> {NoMove} \cup
                             [step : Steps, order : Orders, key : {NoKey} \cup EscrowKeys]]
           /\ \A u \in Servers : u # s => move'[u] = move[u]
           /\ ~heard => move'[s] = NoMove
           /\ heard => /\ move'[s].step = next /\ move'[s].order = move[s].order
                       /\ move'[s].key = move[s].key
<1>1. move[s] \in [step : Steps, order : Orders, key : {NoKey} \cup EscrowKeys]
  BY UnderWay
<1>2. CASE heard
  <2> DEFINE m == [move[s] EXCEPT !.step = next]
  <2>1. /\ m \in [step : Steps, order : Orders, key : {NoKey} \cup EscrowKeys]
        /\ m.step = next /\ m.order = move[s].order /\ m.key = move[s].key
    BY <1>1
  <2>2. move' = [move EXCEPT ![s] = m]
    BY <1>2 DEF ConsoleInv, Types
  <2> HIDE DEF m
  <2> QED BY <1>2, <2>1, <2>2 DEF ConsoleInv, Types
<1>3. CASE ~heard
  BY <1>3 DEF ConsoleInv, Types
<1> QED BY <1>2, <1>3

LEMMA MoveSendsBundleSteps ==
    ASSUME ConsoleInv, NEW s \in Servers, NEW w \in BOOLEAN, NEW a \in BOOLEAN,
           MoveSendsBundle(s, w, a)
    PROVE  ConsoleInv'
<1> PICK o : o = move[s].order
  OBVIOUS
<1>1. move[s].step = "bundle" /\ move[s].step \in Steps /\ "key" \in Steps
  BY DEF MoveSendsBundle, At, Steps
<1>2. /\ o \in orders /\ o.from = s /\ o.to \in Servers /\ o.model \in Models
      /\ Behind(s)
  BY <1>1, UnderWay
<1>3. /\ UNCHANGED <<image, holder, app, orders, codes>>
      /\ record' = [record EXCEPT ![o.to] = @ \cup {Received(o.model, "bundle")}]
      /\ w => disk' = [disk EXCEPT ![o.to][o.model].bundle = TRUE]
      /\ ~w => disk' = disk
      /\ w /\ a => move' = [move EXCEPT ![s].step = "key"]
      /\ ~(w /\ a) => move' = [move EXCEPT ![s] = NoMove]
  BY PutsBundle
<1>4. /\ record' \in [Servers -> SUBSET Events]
      /\ \A u \in Servers : record[u] \subseteq record'[u]
      /\ \A u \in Servers, n \in Nat : Sent(n) \in record'[u] => Sent(n) \in record[u]
  BY <1>2, <1>3, PutsRecord
<1>5. /\ move' \in [Servers -> {NoMove} \cup
                        [step : Steps, order : Orders, key : {NoKey} \cup EscrowKeys]]
      /\ \A u \in Servers : u # s => move'[u] = move[u]
      /\ ~(w /\ a) => move'[s] = NoMove
      /\ w /\ a => move'[s].step = "key" /\ move'[s].order = o /\ move'[s].key = move[s].key
  BY <1>1, <1>3, PutsMove
<1>6. /\ disk' \in [Servers -> [Models -> Files]]
      /\ \A t \in Servers, m \in Models :
            /\ disk[t][m].bundle => disk'[t][m].bundle
            /\ disk'[t][m].key = disk[t][m].key
      /\ w => disk'[o.to][o.model].bundle
  <2>1. CASE ~w
    BY <1>3, <2>1 DEF ConsoleInv, Types
  <2>2. CASE w
    <3> PICK f : f = [disk[o.to][o.model] EXCEPT !.bundle = TRUE]
      OBVIOUS
    <3>1. /\ f \in Files
          /\ f.bundle /\ f.key = disk[o.to][o.model].key
      <4>1. disk[o.to][o.model] \in Files /\ EscrowKey(o.to, Pinned) \in EscrowKeys
        BY <1>2, EscrowKeyFacts, ConsoleAssumption DEF ConsoleInv, Types
      <4> QED BY <4>1 DEF Files
    <3>2. disk' = [disk EXCEPT ![o.to][o.model] = f]
      BY <1>2, <1>3, <2>2 DEF ConsoleInv, Types
    <3>3. /\ disk' \in [Servers -> [Models -> Files]]
          /\ disk'[o.to][o.model] = f
          /\ \A u \in Servers, n \in Models :
                u # o.to \/ n # o.model => disk'[u][n] = disk[u][n]
      <4>1. f \in Files /\ disk \in [Servers -> [Models -> Files]]
        BY <3>1 DEF ConsoleInv, Types
      <4> QED BY <1>2, <3>2, <4>1
    <3> QED BY <3>1, <3>3
  <2> QED BY <2>1, <2>2
<1>7. Types'
  BY <1>3, <1>4, <1>5, <1>6 DEF ConsoleInv, Types
<1>8. w /\ a => Behind(s)'
  <2> SUFFICES ASSUME w, a PROVE Behind(s)'
    OBVIOUS
  <2>1. move[s].key = EscrowKey(o.to, Pinned) /\ Released(o, EscrowKey(o.to, Pinned)) \in record[s]
    BY <1>1, <1>2 DEF Behind
  <2> QED BY <1>2, <1>3, <1>4, <1>5, <1>6, <2>1 DEF Behind
<1>9. \A u \in Servers : move'[u] \in {NoMove, move[u]} \/ Behind(u)'
  BY <1>5, <1>8
<1> QED BY <1>3, <1>4, <1>6, <1>7, <1>9, LoudStep

LEMMA MoveSendsKeySteps ==
    ASSUME ConsoleInv, NEW s \in Servers, NEW w \in BOOLEAN, NEW a \in BOOLEAN,
           MoveSendsKey(s, w, a)
    PROVE  ConsoleInv'
<1> PICK o : o = move[s].order
  OBVIOUS
<1> DEFINE k == EscrowKey(o.to, Pinned)
<1>1. move[s].step = "key" /\ move[s].step \in Steps /\ "sent" \in Steps
  BY DEF MoveSendsKey, At, Steps
<1>2. /\ o \in orders /\ o.from = s /\ o.to \in Servers /\ o.model \in Models
      /\ Behind(s) /\ k \in EscrowKeys /\ k # NoKey
  BY <1>1, UnderWay, EscrowKeyFacts
<1>3. move[s].key = k /\ Released(o, k) \in record[s] /\ disk[o.to][o.model].bundle
  BY <1>1, <1>2 DEF Behind
<1>4. /\ UNCHANGED <<image, holder, app, orders, codes>>
      /\ record' = [record EXCEPT ![o.to] = @ \cup {Received(o.model, "key")}]
      /\ disk[o.to][o.model].key = NoKey
      /\ w => disk' = [disk EXCEPT ![o.to][o.model].key = move[s].key]
      /\ ~w => disk' = disk
      /\ w /\ a => move' = [move EXCEPT ![s].step = "sent"]
      /\ ~(w /\ a) => move' = [move EXCEPT ![s] = NoMove]
  BY PutsKey
<1>5. /\ record' \in [Servers -> SUBSET Events]
      /\ Received(o.model, "key") \in record'[o.to]
      /\ \A u \in Servers : record[u] \subseteq record'[u]
      /\ \A u \in Servers, n \in Nat : Sent(n) \in record'[u] => Sent(n) \in record[u]
  BY <1>2, <1>4, PutsRecord
<1>6. /\ move' \in [Servers -> {NoMove} \cup
                        [step : Steps, order : Orders, key : {NoKey} \cup EscrowKeys]]
      /\ \A u \in Servers : u # s => move'[u] = move[u]
      /\ ~(w /\ a) => move'[s] = NoMove
      /\ w /\ a => move'[s].step = "sent" /\ move'[s].order = o /\ move'[s].key = move[s].key
  BY <1>1, <1>4, PutsMove
<1> HIDE DEF k
<1>7. /\ disk' \in [Servers -> [Models -> Files]]
      /\ \A t \in Servers, m \in Models :
            /\ disk'[t][m].bundle = disk[t][m].bundle
            /\ t # o.to \/ m # o.model => disk'[t][m].key = disk[t][m].key
      /\ w => disk'[o.to][o.model].key = k
      /\ ~w => disk' = disk
  <2>1. CASE ~w
    BY <1>4, <2>1 DEF ConsoleInv, Types
  <2>2. CASE w
    <3> PICK f : f = [disk[o.to][o.model] EXCEPT !.key = k]
      OBVIOUS
    <3>1. /\ f \in Files
          /\ f.key = k /\ f.bundle = disk[o.to][o.model].bundle
      <4>1. disk[o.to][o.model] \in Files
        BY <1>2 DEF ConsoleInv, Types
      <4> QED BY <1>2, <4>1 DEF Files
    <3>2. disk' = [disk EXCEPT ![o.to][o.model] = f]
      BY <1>2, <1>3, <1>4, <2>2 DEF ConsoleInv, Types
    <3>3. /\ disk' \in [Servers -> [Models -> Files]]
          /\ disk'[o.to][o.model] = f
          /\ \A u \in Servers, n \in Models :
                u # o.to \/ n # o.model => disk'[u][n] = disk[u][n]
      <4>1. f \in Files /\ disk \in [Servers -> [Models -> Files]]
        BY <3>1 DEF ConsoleInv, Types
      <4> QED BY <1>2, <3>2, <4>1
    <3> QED BY <2>2, <3>1, <3>3
  <2> QED BY <2>1, <2>2
<1>8. Types'
  BY <1>4, <1>5, <1>6, <1>7 DEF ConsoleInv, Types
<1>9. w /\ a => Behind(s)'
  <2> SUFFICES ASSUME w, a PROVE Behind(s)'
    OBVIOUS
  <2>1. /\ move'[s].order = o /\ move'[s].step = "sent" /\ move'[s].key = k
        /\ o \in orders' /\ o.from = s
    BY <1>2, <1>3, <1>4, <1>6
  <2>2. Released(o, k) \in record'[s]
    BY <1>3, <1>5
  <2>3. disk'[o.to][o.model].bundle /\ disk'[o.to][o.model].key = k
    BY <1>2, <1>3, <1>7
  <2> QED BY <2>1, <2>2, <2>3 DEF Behind, k
<1>10. \A u \in Servers : move'[u] \in {NoMove, move[u]} \/ Behind(u)'
  BY <1>6, <1>9
<1>11. w => Ordered(o.to, o.model)'
  <2> SUFFICES ASSUME w PROVE Ordered(o.to, o.model)'
    OBVIOUS
  <2>1. o.by = holder'[o.from] /\ o \in orders'
    BY <1>2, <1>4 DEF ConsoleInv, OrderInv
  <2>2. Released(o, disk'[o.to][o.model].key) \in record'[o.from]
    BY <1>2, <1>3, <1>5, <1>7
  <2>3. KeyReceived(o.model) = Received(o.model, "key")
    BY DEF KeyReceived, Received
  <2>4. disk'[o.to][o.model].key = EscrowKey(o.to, Pinned)
    BY <1>7 DEF k
  <2> QED BY <1>5, <2>1, <2>2, <2>3, <2>4 DEF Ordered
<1>12. \A t \in Servers, m \in Models :
          disk'[t][m].key # disk[t][m].key => Ordered(t, m)'
  <2> SUFFICES ASSUME NEW t \in Servers, NEW m \in Models, disk'[t][m].key # disk[t][m].key
               PROVE  Ordered(t, m)'
    OBVIOUS
  <2>1. w /\ t = o.to /\ m = o.model
    BY <1>7
  <2> QED BY <1>11, <2>1
<1>13. \A t \in Servers, m \in Models :
          /\ disk[t][m].bundle => disk'[t][m].bundle
          /\ disk[t][m].key # NoKey => disk'[t][m].key = disk[t][m].key
  BY <1>4, <1>7
<1> QED BY <1>4, <1>5, <1>8, <1>10, <1>12, <1>13, LoudStep

-----------------------------------------------------------------------------
LEMMA NextConsole == ConsoleInv /\ [Next]_vars => ConsoleInv'
<1> SUFFICES ASSUME ConsoleInv, [Next]_vars PROVE ConsoleInv'
  OBVIOUS
<1>1. CASE UNCHANGED vars
  BY <1>1 DEF vars, lists, stops, memory, ConsoleInv, Types, AppInv, AppTypes, OrderInv,
              MoveInv, Behind, SentNumbers, KeyGoesWhereOrdered, SentCanBeRestored
<1>2. CASE PeopleStep
  BY <1>2, PeopleSteps
<1>3. CASE AppStep
  BY <1>3, AppSteps
<1>4. CASE AppOrders
  BY <1>4, AppOrdersSteps
<1>5. CASE \E s \in Servers, p \in People : \E o \in orders : MoveBegins(s, p, o)
  BY <1>5, MoveBeginsSteps
<1>6. CASE \E s \in Servers : MoveIsListed(s)
  BY <1>6, MoveIsListedSteps
<1>7. CASE \E s \in Servers, n \in 0..3 : MoveJoins(s, n)
  BY <1>7, MoveJoinsSteps
<1>8. CASE \E s \in Servers : MoveChecks(s)
  BY <1>8, MoveChecksSteps
<1>9. CASE \E s \in Servers : MoveReleases(s)
  BY <1>9, MoveReleasesSteps
<1>10. CASE \E s \in Servers, w, a \in BOOLEAN : MoveSendsBundle(s, w, a)
  BY <1>10, MoveSendsBundleSteps
<1>11. CASE \E s \in Servers, w, a \in BOOLEAN : MoveSendsKey(s, w, a)
  BY <1>11, MoveSendsKeySteps
<1>12. CASE \E s \in Servers : MoveSent(s)
  BY <1>12, MoveSentSteps
<1>13. CASE \E s \in Servers : MoveFails(s)
  BY <1>13, MoveFailsSteps
<1>14. CASE \E s \in Servers, i \in Images : Restart(s, i)
  BY <1>14, RestartSteps
<1> QED BY <1>1, <1>2, <1>3, <1>4, <1>5, <1>6, <1>7, <1>8, <1>9, <1>10, <1>11, <1>12,
           <1>13, <1>14 DEF Next, PeopleStep, AppStep

LEMMA ConsoleInvariant == Spec => []ConsoleInv
BY InitConsole, NextConsole, PTL DEF Spec

(* A model's key is away from home only where the holder of the source's    *)
(* stop ordered it, with release and arrival on record, wrapped to the      *)
(* pinned image (carryOut, handleIncoming).                                 *)
THEOREM KeysGoWhereOrdered == Spec => []KeyGoesWhereOrdered
BY ConsoleInvariant, PTL DEF ConsoleInv

(* What a source has recorded as sent can be restored at the target         *)
(* (carryOut, put).                                                         *)
THEOREM SentIsWhole == Spec => []SentCanBeRestored
BY ConsoleInvariant, PTL DEF ConsoleInv
============================================================================
