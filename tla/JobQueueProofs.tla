--------------------------- MODULE JobQueueProofs ---------------------------
(***************************************************************************)
(* What TLAPS proves of the job queue and its store, for any jobs, any     *)
(* number of sessions, and any number of crashes, stops and requeues.      *)
(*                                                                         *)
(* QueueInv says where a job is: a queued one stands in the queue, once;   *)
(* a running one is held by one session; a session past a completion holds *)
(* a finished job; and no session holds anything while the process is down *)
(* or resuming.  StoreInv ties the record to it for a store that takes its *)
(* writes.                                                                 *)
(***************************************************************************)
EXTENDS JobQueue, TLAPS

Holding == {"picked", "serving"}
Completing == {"done", "view", "settle"}

SessionInv ==
    \A s \in Sessions :
        /\ session[s].step = "idle" <=> session[s].job = NoJob
        /\ session[s].job # NoJob => submit[session[s].job] # "none"
        /\ session[s].step \in Holding => status[session[s].job] = "running"
        /\ session[s].step \in Completing => status[session[s].job] \in Outcomes

HolderInv ==
    /\ \A s, t \in Sessions :
          /\ session[s].job = session[t].job /\ session[s].job # NoJob
          /\ session[s].step # "requeued" /\ session[t].step # "requeued"
          => s = t
    /\ \A j \in Jobs : status[j] = "running" =>
          \E s \in Sessions : session[s].job = j /\ session[s].step # "requeued"

PendingInv ==
    /\ \A i, n \in 1..Len(pending) : pending[i] = pending[n] => i = n
    /\ \A j \in Jobs :
          status[j] = "queued" <=> \E i \in 1..Len(pending) : pending[i] = j

PhaseInv ==
    /\ \A j \in Jobs : /\ submit[j] = "none" => status[j] = "absent"
                       /\ record[j].status # None => submit[j] = "answered"
    /\ ~Running => /\ \A s \in Sessions : session[s] = Idle
                   /\ \A j \in Jobs : submit[j] # "put"
    /\ pc = "down" => \A j \in Jobs : status[j] = "absent"
    /\ \A j \in toResume : /\ record[j].status # None
                           /\ \/ status[j] = "absent"
                              \/ pc = "putting" /\ IsOldest(j)
    /\ Running => toResume = {}

QueueInv == TypeOK /\ SessionInv /\ HolderInv /\ PendingInv /\ PhaseInv

-----------------------------------------------------------------------------
LEMMA QueueInitially == Init => QueueInv
<1> SUFFICES ASSUME Init PROVE QueueInv
  OBVIOUS
<1>1. TypeOK
  <2>1. faulty \in BOOLEAN
    BY ConfigAssumption, Zenon DEF Init
  <2>2. session \in [Sessions -> [step : Steps, job : Jobs \cup {NoJob}]]
    BY DEF Init, Idle, Steps
  <2>3. record \in [Jobs -> [status : {None} \cup Unfinished \cup Outcomes,
                            attempts : Nat]]
    BY DEF Init, NoRecord
  <2> QED BY <2>1, <2>2, <2>3 DEF Init, TypeOK
<1>2. SessionInv
  BY DEF Init, SessionInv, Idle, Holding, Completing
<1>3. HolderInv
  BY DEF Init, HolderInv, Idle
<1>4. PendingInv
  BY DEF Init, PendingInv
<1>5. PhaseInv
  BY DEF Init, PhaseInv, Running, NoRecord
<1> QED BY <1>1, <1>2, <1>3, <1>4, <1>5 DEF QueueInv

\* A session at work has a job, and one that was submitted.
LEMMA AtWork ==
  ASSUME QueueInv, NEW s \in Sessions, session[s].step # "idle"
  PROVE  /\ session[s].job \in Jobs /\ session[s].job # NoJob
         /\ session[s] \in [step : Steps, job : Jobs \cup {NoJob}]
         /\ Running /\ toResume = {}
         /\ submit[session[s].job] # "none"
<1>1. session[s] \in [step : Steps, job : Jobs \cup {NoJob}]
  BY DEF QueueInv, TypeOK
<1>2. session[s].job # NoJob
  BY DEF QueueInv, SessionInv
<1>3. Running
  BY DEF QueueInv, PhaseInv, Idle
<1> QED BY <1>1, <1>2, <1>3 DEF QueueInv, PhaseInv, SessionInv

\* What a write to the store leaves.
LEMMA WriteType ==
  ASSUME TypeOK, NEW j \in Jobs,
         \/ \E new \in Unfinished \cup Outcomes : SetStatus(j, new)
         \/ \E n \in Nat : Put(j, n)
  PROVE  /\ record' \in [Jobs -> [status : {None} \cup Unfinished \cup Outcomes,
                                  attempts : Nat]]
         /\ \A k \in Jobs : k # j => record'[k] = record[k]
         /\ record[j].status # None => record'[j].status # None
<1>1. record \in [Jobs -> [status : {None} \cup Unfinished \cup Outcomes,
                           attempts : Nat]]
  BY DEF TypeOK
<1>2. None \notin Unfinished \cup Outcomes
  BY DEF None, Unfinished, Outcomes
<1>3. ASSUME NEW new \in Unfinished \cup Outcomes, SetStatus(j, new)
      PROVE  record' = record \/ record' = [record EXCEPT ![j].status = new]
  BY <1>3 DEF SetStatus, Refused
<1>4. ASSUME NEW n \in Nat, Put(j, n)
      PROVE  record' = record
             \/ record' = [record EXCEPT ![j] = [status |-> "queued",
                                                 attempts |-> n]]
  BY <1>4 DEF Put, Refused
<1>5. CASE record' = record
  BY <1>1, <1>5
<1>6. ASSUME NEW new \in Unfinished \cup Outcomes,
             record' = [record EXCEPT ![j].status = new]
      PROVE  /\ record' \in [Jobs -> [status : {None} \cup Unfinished \cup Outcomes,
                                      attempts : Nat]]
             /\ \A k \in Jobs : k # j => record'[k] = record[k]
             /\ record'[j].status # None
  BY <1>1, <1>2, <1>6
<1>7. ASSUME NEW n \in Nat,
             record' = [record EXCEPT ![j] = [status |-> "queued",
                                              attempts |-> n]]
      PROVE  /\ record' \in [Jobs -> [status : {None} \cup Unfinished \cup Outcomes,
                                      attempts : Nat]]
             /\ \A k \in Jobs : k # j => record'[k] = record[k]
             /\ record'[j].status # None
  BY <1>1, <1>7 DEF None, Unfinished
<1> QED BY <1>3, <1>4, <1>5, <1>6, <1>7

LEMMA SweepType ==
  ASSUME TypeOK, Sweep
  PROVE  /\ record' \in [Jobs -> [status : {None} \cup Unfinished \cup Outcomes,
                                  attempts : Nat]]
         /\ view' \in [Jobs -> {None} \cup Outcomes] /\ expired' \subseteq Jobs
         /\ \A j \in Jobs :
               \/ record'[j] = record[j] /\ view'[j] = view[j]
               \/ /\ record'[j] = NoRecord /\ view'[j] = None
                  /\ j \in expired' /\ j \in Sweepable
<1>1. PICK old \in IF Retains THEN {{}} ELSE SUBSET Sweepable :
        /\ record' = [j \in Jobs |-> IF j \in old THEN NoRecord ELSE record[j]]
        /\ view' = [j \in Jobs |-> IF j \in old THEN None ELSE view[j]]
        /\ expired' = expired \cup old
  BY DEF Sweep
<1>2. old \subseteq Sweepable /\ old \subseteq Jobs
  BY DEF Sweepable
<1> QED BY <1>1, <1>2 DEF TypeOK, NoRecord

-----------------------------------------------------------------------------
(* A session's own steps: it goes on with its job, or lets go of it.        *)

\* The session s, and no other, is now at step t with job j.
Moved(s, t, j) ==
    /\ session' \in [Sessions -> [step : Steps, job : Jobs \cup {NoJob}]]
    /\ session'[s].step = t /\ session'[s].job = j
    /\ \A r \in Sessions : r # s => session'[r] = session[r]

LEMMA Moves ==
  ASSUME TypeOK, NEW s \in Sessions
  PROVE  /\ \A t \in Steps : session' = [session EXCEPT ![s].step = t]
                                => Moved(s, t, session[s].job)
         /\ session' = [session EXCEPT ![s] = Idle] => Moved(s, "idle", NoJob)
         /\ \A t \in Steps, j \in Jobs :
               session' = [session EXCEPT ![s] = [step |-> t, job |-> j]]
                  => Moved(s, t, j)
<1>1. session \in [Sessions -> [step : Steps, job : Jobs \cup {NoJob}]]
  BY DEF TypeOK
<1>2. ASSUME NEW t \in Steps, session' = [session EXCEPT ![s].step = t]
      PROVE  Moved(s, t, session[s].job)
  BY <1>1, <1>2 DEF Moved
<1>3. ASSUME NEW t \in Steps, NEW j \in Jobs \cup {NoJob},
             session' = [session EXCEPT ![s] = [step |-> t, job |-> j]]
      PROVE  Moved(s, t, j)
  BY <1>1, <1>3 DEF Moved
<1>4. "idle" \in Steps /\ NoJob \in Jobs \cup {NoJob}
      /\ Idle = [step |-> "idle", job |-> NoJob]
  BY DEF Steps, Idle
<1> QED BY <1>2, <1>3, <1>4

LEMMA SessionGoesOn ==
  ASSUME QueueInv, NEW s \in Sessions, session[s].step # "idle",
         status' = status, pending' = pending, submit' = submit, NEW t, NEW j,
         Moved(s, t, j),
         \/ /\ j = session[s].job
            /\ \/ session[s].step \in Holding /\ t \in Holding
               \/ session[s].step \in Completing /\ t \in Completing
         \/ /\ t = "idle" /\ j = NoJob
            /\ session[s].step \in Completing \cup {"requeued"}
  PROVE  SessionInv' /\ HolderInv' /\ PendingInv'
<1>1. session[s].job \in Jobs /\ session[s].job # NoJob
  BY AtWork
<1>2. SessionInv'
  <2> SUFFICES ASSUME NEW r \in Sessions
               PROVE  /\ session'[r].step = "idle" <=> session'[r].job = NoJob
                      /\ session'[r].job # NoJob
                            => submit[session'[r].job] # "none"
                      /\ session'[r].step \in Holding
                            => status[session'[r].job] = "running"
                      /\ session'[r].step \in Completing
                            => status[session'[r].job] \in Outcomes
    BY DEF SessionInv
  <2>1. CASE r # s
    BY <2>1 DEF Moved, QueueInv, SessionInv
  <2>2. CASE r = s
    BY <2>2, <1>1 DEF Moved, QueueInv, SessionInv, Holding, Completing
  <2> QED BY <2>1, <2>2
<1>3. HolderInv'
  <2>1. ASSUME NEW r \in Sessions, NEW q \in Sessions,
               session'[r].job = session'[q].job, session'[r].job # NoJob,
               session'[r].step # "requeued", session'[q].step # "requeued"
        PROVE  r = q
    <3>1. ASSUME NEW p \in Sessions, session'[p].job # NoJob,
                 session'[p].step # "requeued"
          PROVE  session[p].job = session'[p].job /\ session[p].step # "requeued"
      BY <3>1 DEF Moved, Holding, Completing
    <3> QED BY <2>1, <3>1 DEF QueueInv, HolderInv
  <2>2. ASSUME NEW k \in Jobs, status[k] = "running"
        PROVE  \E r \in Sessions : session'[r].job = k
                                   /\ session'[r].step # "requeued"
    <3>1. PICK r \in Sessions : session[r].job = k /\ session[r].step # "requeued"
      BY <2>2 DEF QueueInv, HolderInv
    <3>2. CASE r # s
      BY <3>1, <3>2 DEF Moved
    <3>3. CASE r = s
      <4>1. session[s].step \notin Completing
        BY <2>2, <3>1, <3>3 DEF QueueInv, SessionInv, Outcomes
      <4> QED BY <3>1, <3>3, <4>1 DEF Moved, Holding
    <3> QED BY <3>2, <3>3
  <2> QED BY <2>1, <2>2 DEF HolderInv
<1>4. PendingInv'
  BY DEF QueueInv, PendingInv
<1> QED BY <1>2, <1>3, <1>4

\* The store's answer to one write leaves the phases as they are.
LEMMA PhaseKept ==
  ASSUME QueueInv, Running, pc' = pc, status' = status, toResume' = toResume,
         submit' = submit,
         \A j \in Jobs : record'[j].status # None => record[j].status # None
  PROVE  PhaseInv'
BY DEF QueueInv, PhaseInv, Running

LEMMA MarkStep ==
  ASSUME QueueInv, NEW s \in Sessions,
         MarkRunning(s) \/ MarkRequeued(s) \/ MarkDone(s)
  PROVE  QueueInv'
<1> DEFINE j == session[s].job
<1>1. session[s].step # "idle" /\ session[s].step \in {"picked", "requeued", "done"}
  BY DEF MarkRunning, MarkRequeued, MarkDone
<1>2. j \in Jobs /\ Running
  BY <1>1, AtWork
<1>3. \E new \in Unfinished \cup Outcomes : SetStatus(j, new)
  <2>1. session[s].step = "done" => status[j] \in Outcomes
    BY DEF QueueInv, SessionInv, Completing
  <2> QED BY <2>1 DEF MarkRunning, MarkRequeued, MarkDone, Unfinished
<1>4. /\ record' \in [Jobs -> [status : {None} \cup Unfinished \cup Outcomes,
                               attempts : Nat]]
      /\ \A k \in Jobs : k # j => record'[k] = record[k]
  BY <1>2, <1>3, WriteType DEF QueueInv
<1>5. record'[j].status # None => record[j].status # None
  BY <1>3 DEF SetStatus, Refused
<1>6. UNCHANGED <<pc, status, pending, toResume, submit, view, history>>
  BY DEF MarkRunning, MarkRequeued, MarkDone
<1>7. \E t \in Steps : \E k :
        /\ Moved(s, t, k)
        /\ \/ /\ k = session[s].job
              /\ \/ session[s].step \in Holding /\ t \in Holding
                 \/ session[s].step \in Completing /\ t \in Completing
           \/ /\ t = "idle" /\ k = NoJob
              /\ session[s].step \in Completing \cup {"requeued"}
  <2>1. CASE MarkRunning(s)
    <3>1. Moved(s, "serving", j)
      BY <2>1, Moves DEF QueueInv, MarkRunning, Steps
    <3> QED BY <2>1, <3>1 DEF MarkRunning, Holding, Steps
  <2>2. CASE MarkRequeued(s)
    <3>1. Moved(s, "idle", NoJob)
      BY <2>2, Moves DEF QueueInv, MarkRequeued
    <3> QED BY <2>2, <3>1 DEF MarkRequeued, Steps
  <2>3. CASE MarkDone(s)
    <3>1. Moved(s, "view", j)
      BY <2>3, Moves DEF QueueInv, MarkDone, Steps
    <3> QED BY <2>3, <3>1 DEF MarkDone, Completing, Steps
  <2> QED BY <2>1, <2>2, <2>3
<1>8. SessionInv' /\ HolderInv' /\ PendingInv'
  BY <1>1, <1>6, <1>7, SessionGoesOn
<1>9. PhaseInv'
  BY <1>2, <1>4, <1>5, <1>6, PhaseKept
<1>10. TypeOK'
  BY <1>4, <1>6, <1>7 DEF QueueInv, TypeOK, Moved, history
<1> QED BY <1>8, <1>9, <1>10 DEF QueueInv

LEMMA ViewStep ==
  ASSUME QueueInv, NEW s \in Sessions, KeepView(s) \/ ViewRefused(s)
  PROVE  QueueInv'
<1>1. session[s].step = "view"
  BY DEF KeepView, ViewRefused
<1>2. session[s].job \in Jobs /\ Running /\ status[session[s].job] \in Outcomes
  BY <1>1, AtWork DEF QueueInv, SessionInv, Completing
<1>3. UNCHANGED <<pc, status, pending, toResume, submit, faulty, crashes, stops,
                  requeues, accepted, cutShort, served, taken>>
  BY DEF KeepView, ViewRefused, history
<1>4. Moved(s, "settle", session[s].job) \/ Moved(s, "idle", NoJob)
  BY Moves DEF KeepView, ViewRefused, Steps, QueueInv
<1>5. SessionInv' /\ HolderInv' /\ PendingInv'
  BY <1>1, <1>3, <1>4, SessionGoesOn DEF Completing
<1>6. /\ record' \in [Jobs -> [status : {None} \cup Unfinished \cup Outcomes,
                               attempts : Nat]]
      /\ view' \in [Jobs -> {None} \cup Outcomes]
      /\ expired' \subseteq Jobs /\ settled' \subseteq Jobs
      /\ \A j \in Jobs : record'[j].status # None => record[j].status # None
  <2>1. CASE KeepView(s)
    BY <1>2, <2>1 DEF KeepView, QueueInv, TypeOK, history
  <2>2. CASE ViewRefused(s)
    <3>1. Sweep /\ settled' = settled \cup {session[s].job}
      BY <2>2 DEF ViewRefused
    <3>2. \A j \in Jobs : record'[j] = record[j] \/ record'[j].status = None
      BY <3>1, SweepType DEF QueueInv, NoRecord
    <3> QED BY <1>2, <3>1, <3>2, SweepType DEF QueueInv, TypeOK
  <2> QED BY <2>1, <2>2
<1>7. PhaseInv'
  BY <1>2, <1>3, <1>6, PhaseKept
<1>8. TypeOK'
  BY <1>3, <1>4, <1>6 DEF QueueInv, TypeOK, Moved
<1> QED BY <1>5, <1>7, <1>8 DEF QueueInv

-----------------------------------------------------------------------------
(* Steps that change where a job is.                                        *)

LEMMA HandedOut ==
  ASSUME TypeOK, NEW j \in Jobs, HandOut(j)
  PROVE  /\ served' \in [Jobs -> Nat] /\ taken' \subseteq Jobs /\ j \in taken'
         /\ \A k \in Jobs : k # j => /\ served'[k] = served[k]
                                     /\ k \in taken' <=> k \in taken
         /\ served'[j] = IF j \in taken THEN served[j] ELSE served[j] + 1
BY DEF TypeOK, HandOut

LEMMA NextJobStep ==
  ASSUME QueueInv, NEW s \in Sessions, NextJob(s)
  PROVE  QueueInv'
<1> DEFINE j == Head(pending)
<1>0. pending \in Seq(Jobs) /\ pending # <<>>
  BY DEF QueueInv, TypeOK, NextJob
<1>1. j \in Jobs /\ j = pending[1] /\ Len(pending) >= 1
  BY <1>0
<1>2. /\ pending' \in Seq(Jobs) /\ Len(pending') = Len(pending) - 1
      /\ \A i \in 1..(Len(pending) - 1) : pending'[i] = pending[i + 1]
  BY <1>0 DEF NextJob
<1>3. session[s].step = "idle" /\ pc = "up"
      /\ status' = [status EXCEPT ![j] = "running"]
      /\ UNCHANGED <<pc, toResume, submit, store, faulty, crashes, stops,
                     requeues, accepted, settled, expired, cutShort>>
      /\ HandOut(j)
  BY DEF NextJob
<1>4. Moved(s, "picked", j)
  BY <1>1, Moves DEF NextJob, QueueInv, Steps
<1>5. status[j] = "queued"
  BY <1>1 DEF QueueInv, PendingInv
<1>6. status \in [Jobs -> {"absent"} \cup Unfinished \cup Outcomes]
  BY DEF QueueInv, TypeOK
<1>7. j # NoJob /\ submit[j] # "none"
  BY <1>1, <1>5, JobAssumption DEF QueueInv, PhaseInv
<1> HIDE DEF j
<1>8. \A k \in Jobs : status'[k] = IF k = j THEN "running" ELSE status[k]
  BY <1>3, <1>6
<1>9. ASSUME NEW r \in Sessions, session[r].step # "requeued"
      PROVE  session[r].job # j
  <2>1. session[r].job = j => session[r].step \in Holding \cup Completing
    BY <1>7, <1>9 DEF QueueInv, TypeOK, SessionInv, Holding, Completing, Steps
  <2> QED BY <2>1, <1>5 DEF QueueInv, SessionInv, Outcomes
<1>10. SessionInv'
  <2> SUFFICES ASSUME NEW r \in Sessions
               PROVE  /\ session'[r].step = "idle" <=> session'[r].job = NoJob
                      /\ session'[r].job # NoJob
                            => submit[session'[r].job] # "none"
                      /\ session'[r].step \in Holding
                            => status'[session'[r].job] = "running"
                      /\ session'[r].step \in Completing
                            => status'[session'[r].job] \in Outcomes
    BY <1>3 DEF SessionInv
  <2>1. CASE r = s
    BY <2>1, <1>1, <1>4, <1>7, <1>8 DEF Moved, Holding, Completing
  <2>2. CASE r # s
    <3>1. session'[r] = session[r]
      BY <2>2, <1>4 DEF Moved
    <3>2. session[r].step \in Holding \cup Completing
             => session[r].job # j /\ session[r].job \in Jobs
      BY <1>9, AtWork DEF Holding, Completing
    <3> QED BY <3>1, <3>2, <1>8 DEF QueueInv, SessionInv
  <2> QED BY <2>1, <2>2
<1>11. HolderInv'
  <2>1. ASSUME NEW r \in Sessions, NEW q \in Sessions,
               session'[r].job = session'[q].job, session'[r].job # NoJob,
               session'[r].step # "requeued", session'[q].step # "requeued"
        PROVE  r = q
    BY <2>1, <1>4, <1>9 DEF Moved, QueueInv, HolderInv
  <2>2. ASSUME NEW k \in Jobs, status'[k] = "running"
        PROVE  \E r \in Sessions : session'[r].job = k
                                   /\ session'[r].step # "requeued"
    <3>1. CASE k = j
      BY <3>1, <1>4 DEF Moved
    <3>2. CASE k # j
      <4>1. PICK r \in Sessions : session[r].job = k
                                  /\ session[r].step # "requeued"
        BY <2>2, <3>2, <1>8 DEF QueueInv, HolderInv
      <4>2. r # s
        BY <4>1, <1>3, JobAssumption DEF QueueInv, SessionInv
      <4> QED BY <4>1, <4>2, <1>4 DEF Moved
    <3> QED BY <3>1, <3>2
  <2> QED BY <2>1, <2>2 DEF HolderInv
<1>12. PendingInv'
  <2>1. ASSUME NEW i \in 1..Len(pending'), NEW n \in 1..Len(pending'),
               pending'[i] = pending'[n]
        PROVE  i = n
    <3>1. /\ i + 1 \in 1..Len(pending) /\ n + 1 \in 1..Len(pending)
          /\ pending[i + 1] = pending[n + 1]
      BY <2>1, <1>0, <1>1, <1>2
    <3>2. i + 1 = n + 1
      BY <3>1 DEF QueueInv, PendingInv
    <3> QED BY <3>2, <1>0, <1>2
  <2>2. ASSUME NEW k \in Jobs, status'[k] = "queued"
        PROVE  \E i \in 1..Len(pending') : pending'[i] = k
    <3>1. k # j /\ status[k] = "queued"
      BY <2>2, <1>8
    <3>2. PICK i \in 1..Len(pending) : pending[i] = k
      BY <3>1 DEF QueueInv, PendingInv
    <3>3. i - 1 \in 1..Len(pending') /\ pending'[i - 1] = k
      BY <3>1, <3>2, <1>0, <1>1, <1>2
    <3> QED BY <3>3
  <2>3. ASSUME NEW k \in Jobs, NEW i \in 1..Len(pending'), pending'[i] = k
        PROVE  status'[k] = "queued"
    <3>1. i + 1 \in 1..Len(pending) /\ pending[i + 1] = k /\ i + 1 # 1
      BY <2>3, <1>0, <1>1, <1>2
    <3>2. k # j
      BY <3>1, <1>0, <1>1 DEF QueueInv, PendingInv
    <3>3. status[k] = "queued"
      BY <3>1 DEF QueueInv, PendingInv
    <3> QED BY <3>2, <3>3, <1>8
  <2> QED BY <2>1, <2>2, <2>3 DEF PendingInv
<1>13. PhaseInv'
  BY <1>3, <1>7, <1>8 DEF QueueInv, PhaseInv, Running, store
<1>14. TypeOK'
  <2>1. status' \in [Jobs -> {"absent"} \cup Unfinished \cup Outcomes]
    BY <1>1, <1>3, <1>6 DEF Unfinished
  <2>2. served' \in [Jobs -> Nat] /\ taken' \subseteq Jobs
    BY <1>1, <1>3, HandedOut DEF QueueInv
  <2> QED BY <2>1, <2>2, <1>2, <1>3, <1>4 DEF QueueInv, TypeOK, Moved, store
<1> QED BY <1>10, <1>11, <1>12, <1>13, <1>14 DEF QueueInv

\* The only session that holds a job is the only one that cares for its status.
LEMMA OnlyHolder ==
  ASSUME QueueInv, NEW s \in Sessions, session[s].step \in Holding \cup Completing,
         NEW r \in Sessions, r # s, session[r].step \in Holding \cup Completing
  PROVE  session[r].job # session[s].job
<1>1. session[s].job # NoJob
  BY AtWork DEF Holding, Completing
<1> QED BY <1>1 DEF QueueInv, HolderInv, Holding, Completing

LEMMA RequeueStep ==
  ASSUME QueueInv, NEW s \in Sessions, RequeueJob(s)
  PROVE  QueueInv'
<1> DEFINE j == session[s].job
<1>0. pending \in Seq(Jobs)
      /\ status \in [Jobs -> {"absent"} \cup Unfinished \cup Outcomes]
  BY DEF QueueInv, TypeOK
<1>1. session[s].step = "serving" /\ j \in Jobs /\ j # NoJob /\ Running
      /\ submit[j] # "none" /\ status[j] = "running"
  BY AtWork DEF RequeueJob
<1>2. /\ status' = [status EXCEPT ![j] = "queued"]
      /\ pending' = <<j>> \o pending
      /\ UNCHANGED <<pc, toResume, submit, store, faulty, crashes, stops,
                     accepted, settled, expired, cutShort, served,
                     taken>>
      /\ requeues' = requeues + 1
  BY DEF RequeueJob
<1>3. Moved(s, "requeued", j)
  BY Moves DEF RequeueJob, QueueInv, Steps
<1>4. \A r \in Sessions : r # s /\ session[r].step \in Holding \cup Completing
                             => session[r].job # j /\ session[r].job \in Jobs
  BY <1>1, OnlyHolder, AtWork DEF Holding, Completing
<1> HIDE DEF j
<1>5. \A k \in Jobs : status'[k] = IF k = j THEN "queued" ELSE status[k]
  BY <1>0, <1>2
<1>6. /\ pending' \in Seq(Jobs) /\ Len(pending') = Len(pending) + 1
      /\ pending'[1] = j
      /\ \A i \in 1..Len(pending) : pending'[i + 1] = pending[i]
  BY <1>0, <1>1, <1>2
<1>7. SessionInv'
  <2> SUFFICES ASSUME NEW r \in Sessions
               PROVE  /\ session'[r].step = "idle" <=> session'[r].job = NoJob
                      /\ session'[r].job # NoJob
                            => submit[session'[r].job] # "none"
                      /\ session'[r].step \in Holding
                            => status'[session'[r].job] = "running"
                      /\ session'[r].step \in Completing
                            => status'[session'[r].job] \in Outcomes
    BY <1>2 DEF SessionInv
  <2>1. CASE r = s
    BY <2>1, <1>1, <1>3 DEF Moved, Holding, Completing
  <2>2. CASE r # s
    BY <2>2, <1>3, <1>4, <1>5 DEF Moved, QueueInv, SessionInv
  <2> QED BY <2>1, <2>2
<1>8. HolderInv'
  <2>1. ASSUME NEW r \in Sessions, NEW q \in Sessions,
               session'[r].job = session'[q].job, session'[r].job # NoJob,
               session'[r].step # "requeued", session'[q].step # "requeued"
        PROVE  r = q
    BY <2>1, <1>3 DEF Moved, QueueInv, HolderInv
  <2>2. ASSUME NEW k \in Jobs, status'[k] = "running"
        PROVE  \E r \in Sessions : session'[r].job = k
                                   /\ session'[r].step # "requeued"
    <3>1. k # j /\ status[k] = "running"
      BY <2>2, <1>5
    <3>2. PICK r \in Sessions : session[r].job = k /\ session[r].step # "requeued"
      BY <3>1 DEF QueueInv, HolderInv
    <3>3. r # s
      BY <3>1, <3>2 DEF j
    <3> QED BY <3>2, <3>3, <1>3 DEF Moved
  <2> QED BY <2>1, <2>2 DEF HolderInv
<1>9. PendingInv'
  <2>0. \A i \in 1..Len(pending) : pending[i] # j
    BY <1>1 DEF QueueInv, PendingInv
  <2>1. \A i \in 1..Len(pending') :
           i = 1 \/ (i - 1 \in 1..Len(pending) /\ pending'[i] = pending[i - 1])
    <3> SUFFICES ASSUME NEW i \in 1..Len(pending'), i # 1
                 PROVE  i - 1 \in 1..Len(pending) /\ pending'[i] = pending[i - 1]
      OBVIOUS
    <3>1. i - 1 \in 1..Len(pending) /\ (i - 1) + 1 = i
      BY <1>0, <1>6
    <3> QED BY <3>1, <1>6
  <2>2. ASSUME NEW i \in 1..Len(pending'), NEW n \in 1..Len(pending'),
               pending'[i] = pending'[n]
        PROVE  i = n
    <3>1. i = 1 <=> n = 1
      BY <2>0, <2>1, <2>2, <1>6
    <3>2. CASE i # 1
      <4>1. i - 1 = n - 1
        BY <3>1, <3>2, <2>1, <2>2 DEF QueueInv, PendingInv
      <4> QED BY <4>1, <1>0, <1>6
    <3> QED BY <3>1, <3>2
  <2>3. ASSUME NEW k \in Jobs, status'[k] = "queued"
        PROVE  \E i \in 1..Len(pending') : pending'[i] = k
    <3>1. CASE k = j
      <4>1. 1 \in 1..Len(pending')
        BY <1>0, <1>6
      <4> QED BY <3>1, <4>1, <1>6
    <3>2. CASE k # j
      <4>1. PICK i \in 1..Len(pending) : pending[i] = k
        BY <3>2, <2>3, <1>5 DEF QueueInv, PendingInv
      <4>2. i + 1 \in 1..Len(pending')
        BY <1>0, <1>6
      <4> QED BY <4>1, <4>2, <1>6
    <3> QED BY <3>1, <3>2
  <2>4. ASSUME NEW k \in Jobs, NEW i \in 1..Len(pending'), pending'[i] = k
        PROVE  status'[k] = "queued"
    BY <2>1, <2>4, <1>5, <1>6 DEF QueueInv, PendingInv
  <2> QED BY <2>2, <2>3, <2>4 DEF PendingInv
<1>10. PhaseInv'
  BY <1>1, <1>2, <1>5 DEF QueueInv, PhaseInv, Running, store
<1>11. TypeOK'
  <2>1. status' \in [Jobs -> {"absent"} \cup Unfinished \cup Outcomes]
    BY <1>0, <1>1, <1>2 DEF Unfinished
  <2> QED BY <2>1, <1>2, <1>3, <1>6 DEF QueueInv, TypeOK, Moved, store, history
<1> QED BY <1>7, <1>8, <1>9, <1>10, <1>11 DEF QueueInv

\* The holder of a job decides it, or drops the job that is decided.
LEMMA HolderSettles ==
  ASSUME QueueInv, NEW s \in Sessions, NEW new \in {"absent"} \cup Outcomes,
         status' = [status EXCEPT ![session[s].job] = new], pending' = pending,
         submit' = submit, pc' = pc, toResume' = toResume,
         \A j \in Jobs : record'[j].status # None => record[j].status # None,
         \/ /\ session[s].step = "serving" /\ new \in Outcomes
            /\ Moved(s, "done", session[s].job)
         \/ session[s].step = "settle" /\ Moved(s, "idle", NoJob)
  PROVE  /\ status' \in [Jobs -> {"absent"} \cup Unfinished \cup Outcomes]
         /\ SessionInv' /\ HolderInv' /\ PendingInv' /\ PhaseInv'
<1> DEFINE j == session[s].job
<1>0. status \in [Jobs -> {"absent"} \cup Unfinished \cup Outcomes]
  BY DEF QueueInv, TypeOK
<1>1. j \in Jobs /\ j # NoJob /\ Running /\ toResume = {}
      /\ submit[j] # "none"
  BY AtWork
<1>2. status[j] # "queued" /\ new # "queued" /\ new # "running"
  BY DEF QueueInv, SessionInv, Holding, Completing, Outcomes
<1>3. \A r \in Sessions : r # s /\ session[r].step \in Holding \cup Completing
                             => session[r].job # j /\ session[r].job \in Jobs
  BY OnlyHolder, AtWork DEF Holding, Completing
<1>4. \A k \in Jobs : status'[k] = IF k = j THEN new ELSE status[k]
  BY <1>0
<1> HIDE DEF j
<1>5. SessionInv'
  <2> SUFFICES ASSUME NEW r \in Sessions
               PROVE  /\ session'[r].step = "idle" <=> session'[r].job = NoJob
                      /\ session'[r].job # NoJob
                            => submit[session'[r].job] # "none"
                      /\ session'[r].step \in Holding
                            => status'[session'[r].job] = "running"
                      /\ session'[r].step \in Completing
                            => status'[session'[r].job] \in Outcomes
    BY DEF SessionInv
  <2>1. CASE r = s
    BY <2>1, <1>1, <1>4 DEF Moved, Holding, Completing, j
  <2>2. CASE r # s
    BY <2>2, <1>3, <1>4 DEF Moved, QueueInv, SessionInv
  <2> QED BY <2>1, <2>2
<1>6. HolderInv'
  <2>1. ASSUME NEW r \in Sessions, NEW q \in Sessions,
               session'[r].job = session'[q].job, session'[r].job # NoJob,
               session'[r].step # "requeued", session'[q].step # "requeued"
        PROVE  r = q
    BY <2>1 DEF Moved, QueueInv, HolderInv
  <2>2. ASSUME NEW k \in Jobs, status'[k] = "running"
        PROVE  \E r \in Sessions : session'[r].job = k
                                   /\ session'[r].step # "requeued"
    <3>1. k # j /\ status[k] = "running"
      BY <2>2, <1>2, <1>4
    <3>2. PICK r \in Sessions : session[r].job = k /\ session[r].step # "requeued"
      BY <3>1 DEF QueueInv, HolderInv
    <3>3. r # s
      BY <3>1, <3>2 DEF j
    <3> QED BY <3>2, <3>3 DEF Moved
  <2> QED BY <2>1, <2>2 DEF HolderInv
<1>7. PendingInv'
  BY <1>2, <1>4 DEF QueueInv, PendingInv
<1>8. PhaseInv'
  BY <1>1, <1>4 DEF QueueInv, PhaseInv, Running
<1>9. status' \in [Jobs -> {"absent"} \cup Unfinished \cup Outcomes]
  BY <1>0
<1> QED BY <1>5, <1>6, <1>7, <1>8, <1>9

LEMMA FinishStep ==
  ASSUME QueueInv, NEW s \in Sessions,
         CutShort(s) \/ \E outcome \in Outcomes : Complete(s, outcome)
  PROVE  QueueInv'
<1>1. session[s].step = "serving"
  BY DEF CutShort, Complete
<1>2. session[s].job \in Jobs
  BY <1>1, AtWork
<1>3. PICK new \in Outcomes : FinishJob(s, new)
  BY DEF CutShort, Complete, Outcomes
<1>4. Moved(s, "done", session[s].job)
  BY <1>3, Moves DEF FinishJob, QueueInv, Steps
<1>5. UNCHANGED <<pc, pending, toResume, submit, record, view, faulty, crashes,
                  stops, requeues, accepted, settled, expired, served, taken>>
      /\ cutShort' \subseteq Jobs
  BY <1>2 DEF CutShort, Complete, store, history, QueueInv, TypeOK
<1>6. /\ status' \in [Jobs -> {"absent"} \cup Unfinished \cup Outcomes]
      /\ SessionInv' /\ HolderInv' /\ PendingInv' /\ PhaseInv'
  BY <1>1, <1>3, <1>4, <1>5, HolderSettles DEF FinishJob
<1>7. TypeOK'
  BY <1>4, <1>5, <1>6 DEF QueueInv, TypeOK, Moved
<1> QED BY <1>6, <1>7 DEF QueueInv

LEMMA ForgetStep ==
  ASSUME QueueInv, NEW s \in Sessions, Forget(s)
  PROVE  QueueInv'
<1>1. session[s].step = "settle"
  BY DEF Forget
<1>2. session[s].job \in Jobs /\ status[session[s].job] \in Outcomes
  BY <1>1, AtWork DEF QueueInv, SessionInv, Completing
<1>3. status' = [status EXCEPT ![session[s].job] = "absent"]
  BY <1>2 DEF Forget
<1>4. Moved(s, "idle", NoJob)
  BY Moves DEF Forget, QueueInv
<1>5. UNCHANGED <<pc, pending, toResume, submit, faulty, crashes, stops,
                  requeues, accepted, cutShort, served, taken>>
      /\ settled' \subseteq Jobs
  BY <1>2 DEF Forget, QueueInv, TypeOK
<1>6. /\ record' \in [Jobs -> [status : {None} \cup Unfinished \cup Outcomes,
                               attempts : Nat]]
      /\ view' \in [Jobs -> {None} \cup Outcomes] /\ expired' \subseteq Jobs
      /\ \A j \in Jobs : record'[j] = record[j] \/ record'[j].status = None
  BY SweepType DEF Forget, QueueInv, NoRecord
<1>7. /\ status' \in [Jobs -> {"absent"} \cup Unfinished \cup Outcomes]
      /\ SessionInv' /\ HolderInv' /\ PendingInv' /\ PhaseInv'
  BY <1>1, <1>3, <1>4, <1>5, <1>6, HolderSettles
<1>8. TypeOK'
  BY <1>4, <1>5, <1>6, <1>7 DEF QueueInv, TypeOK, Moved
<1> QED BY <1>7, <1>8 DEF QueueInv

-----------------------------------------------------------------------------
(* Admission, first or again.                                               *)

LEMMA Admitted ==
  ASSUME QueueInv, NEW j \in Jobs, status[j] = "absent",
         \A s \in Sessions : session[s].job # j,
         status' = [status EXCEPT ![j] = "queued"], pending' = Append(pending, j),
         session' = session, submit'[j] # "none",
         \A k \in Jobs : k # j => submit'[k] = submit[k]
  PROVE  /\ status' \in [Jobs -> {"absent"} \cup Unfinished \cup Outcomes]
         /\ pending' \in Seq(Jobs) /\ SessionInv' /\ HolderInv' /\ PendingInv'
<1>0. pending \in Seq(Jobs)
      /\ status \in [Jobs -> {"absent"} \cup Unfinished \cup Outcomes]
  BY DEF QueueInv, TypeOK
<1>1. \A k \in Jobs : status'[k] = IF k = j THEN "queued" ELSE status[k]
  BY <1>0
<1>2. /\ pending' \in Seq(Jobs) /\ Len(pending') = Len(pending) + 1
      /\ pending'[Len(pending) + 1] = j
      /\ \A i \in 1..Len(pending) : pending'[i] = pending[i]
  BY <1>0
<1>3. SessionInv'
  <2> SUFFICES ASSUME NEW r \in Sessions
               PROVE  /\ session[r].step = "idle" <=> session[r].job = NoJob
                      /\ session[r].job # NoJob
                            => submit'[session[r].job] # "none"
                      /\ session[r].step \in Holding
                            => status'[session[r].job] = "running"
                      /\ session[r].step \in Completing
                            => status'[session[r].job] \in Outcomes
    BY DEF SessionInv
  <2>1. session[r].job # j
    OBVIOUS
  <2>2. session[r].step # "idle" => session[r].job \in Jobs
    BY AtWork
  <2>3. session[r].job # NoJob => session[r].step # "idle"
    BY DEF QueueInv, SessionInv
  <2>4. session[r].step \in Holding \cup Completing => session[r].step # "idle"
    BY DEF Holding, Completing
  <2> QED BY <2>1, <2>2, <2>3, <2>4, <1>1 DEF QueueInv, SessionInv
<1>4. HolderInv'
  <2>1. ASSUME NEW k \in Jobs, status'[k] = "running"
        PROVE  \E r \in Sessions : session[r].job = k
                                   /\ session[r].step # "requeued"
    BY <2>1, <1>1 DEF QueueInv, HolderInv
  <2> QED BY <2>1 DEF QueueInv, HolderInv
<1>5. PendingInv'
  <2>0. \A i \in 1..Len(pending) : pending[i] # j
    BY DEF QueueInv, PendingInv
  <2>1. \A i \in 1..Len(pending') :
           \/ i = Len(pending) + 1 /\ pending'[i] = j
           \/ i \in 1..Len(pending) /\ pending'[i] = pending[i]
    BY <1>0, <1>2
  <2>2. \A i, n \in 1..Len(pending') : pending'[i] = pending'[n] => i = n
    BY <2>0, <2>1 DEF QueueInv, PendingInv
  <2>3. ASSUME NEW k \in Jobs, status'[k] = "queued"
        PROVE  \E i \in 1..Len(pending') : pending'[i] = k
    <3>1. CASE k = j
      <4>1. Len(pending) + 1 \in 1..Len(pending')
        BY <1>0, <1>2
      <4> QED BY <3>1, <4>1, <1>2
    <3>2. CASE k # j
      <4>1. PICK i \in 1..Len(pending) : pending[i] = k
        BY <3>2, <2>3, <1>1 DEF QueueInv, PendingInv
      <4>2. i \in 1..Len(pending')
        BY <1>0, <1>2
      <4> QED BY <4>1, <4>2, <1>2
    <3> QED BY <3>1, <3>2
  <2>4. ASSUME NEW k \in Jobs, NEW i \in 1..Len(pending'), pending'[i] = k
        PROVE  status'[k] = "queued"
    BY <2>1, <2>4, <1>1 DEF QueueInv, PendingInv
  <2> QED BY <2>2, <2>3, <2>4 DEF PendingInv
<1>6. status' \in [Jobs -> {"absent"} \cup Unfinished \cup Outcomes]
  BY <1>0 DEF Unfinished
<1> QED BY <1>2, <1>3, <1>4, <1>5, <1>6

LEMMA SubmitStep ==
  ASSUME QueueInv, NEW j \in Jobs, SubmitJob(j)
  PROVE  QueueInv'
<1>1. Running /\ submit[j] = "none" /\ status[j] = "absent" /\ toResume = {}
  BY DEF SubmitJob, QueueInv, PhaseInv
<1>2. \A s \in Sessions : session[s].job # j
  BY <1>1, JobAssumption DEF QueueInv, SessionInv
<1>3. /\ status' = [status EXCEPT ![j] = "queued"]
      /\ pending' = Append(pending, j)
      /\ accepted' = Append(accepted, j)
      /\ submit' = [submit EXCEPT ![j] = "put"]
      /\ UNCHANGED <<pc, toResume, session, record, view, faulty, crashes, stops,
                     requeues, settled, expired, cutShort, served, taken>>
  BY DEF SubmitJob, store
<1>4. submit' \in [Jobs -> {"none", "put", "answered", "lost"}]
      /\ \A k \in Jobs : submit'[k] = IF k = j THEN "put" ELSE submit[k]
  BY <1>3 DEF QueueInv, TypeOK
<1>5. /\ status' \in [Jobs -> {"absent"} \cup Unfinished \cup Outcomes]
      /\ pending' \in Seq(Jobs) /\ SessionInv' /\ HolderInv' /\ PendingInv'
  BY <1>1, <1>2, <1>3, <1>4, Admitted
<1>6. PhaseInv'
  <2>1. \A k \in Jobs : status'[k] = IF k = j THEN "queued" ELSE status[k]
    BY <1>3 DEF QueueInv, TypeOK
  <2> QED BY <2>1, <1>1, <1>3, <1>4 DEF QueueInv, PhaseInv, Running
<1>7. TypeOK'
  <2>1. accepted' \in Seq(Jobs)
    BY <1>3 DEF QueueInv, TypeOK
  <2> QED BY <2>1, <1>3, <1>4, <1>5 DEF QueueInv, TypeOK
<1> QED BY <1>5, <1>6, <1>7 DEF QueueInv

LEMMA PutRecordStep ==
  ASSUME QueueInv, NEW j \in Jobs, PutRecord(j)
  PROVE  QueueInv'
<1>1. Running /\ submit[j] = "put" /\ Put(j, 1) /\ toResume = {}
  BY DEF PutRecord, QueueInv, PhaseInv
<1>2. UNCHANGED <<pc, status, pending, toResume, session, view, history>>
      /\ submit' = [submit EXCEPT ![j] = "answered"]
  BY DEF PutRecord
<1>3. /\ record' \in [Jobs -> [status : {None} \cup Unfinished \cup Outcomes,
                               attempts : Nat]]
      /\ \A k \in Jobs : k # j => record'[k] = record[k]
  BY <1>1, WriteType DEF QueueInv
<1>4. submit' \in [Jobs -> {"none", "put", "answered", "lost"}]
      /\ \A k \in Jobs : submit'[k] = IF k = j THEN "answered" ELSE submit[k]
  BY <1>2 DEF QueueInv, TypeOK
<1>5. HolderInv' /\ PendingInv'
  BY <1>2 DEF QueueInv, HolderInv, PendingInv
<1>6. SessionInv'
  <2>1. ASSUME NEW s \in Sessions, session[s].job # NoJob
        PROVE  submit'[session[s].job] # "none"
    <3>1. session[s].job \in Jobs /\ submit[session[s].job] # "none"
      BY <2>1 DEF QueueInv, TypeOK, SessionInv
    <3> QED BY <3>1, <1>4
  <2> QED BY <2>1, <1>2 DEF QueueInv, SessionInv
<1>7. PhaseInv'
  BY <1>1, <1>2, <1>3, <1>4 DEF QueueInv, PhaseInv, Running
<1>8. TypeOK'
  BY <1>2, <1>3, <1>4 DEF QueueInv, TypeOK, history
<1> QED BY <1>5, <1>6, <1>7, <1>8 DEF QueueInv

-----------------------------------------------------------------------------
(* Stop, death and restart of the process.                                  *)

LEMMA MemoryGoneStep ==
  ASSUME QueueInv, Crash \/ Exit
  PROVE  QueueInv'
<1>1. MemoryGone /\ UNCHANGED <<record, view, faulty, stops, requeues, accepted,
                                settled, expired, cutShort, served>>
      /\ crashes' \in Nat
  BY DEF Crash, Exit, store, QueueInv, TypeOK
<1>2. submit' \in [Jobs -> {"none", "put", "answered", "lost"}]
      /\ \A j \in Jobs : submit'[j] = IF submit[j] = "put" THEN "lost"
                                      ELSE submit[j]
  BY <1>1 DEF MemoryGone, QueueInv, TypeOK
<1>3. /\ pc' = "down" /\ status' = [j \in Jobs |-> "absent"]
      /\ pending' = <<>> /\ toResume' = {}
      /\ session' = [s \in Sessions |-> Idle] /\ taken' = {}
  BY <1>1 DEF MemoryGone
<1>4. SessionInv' /\ HolderInv'
  BY <1>3 DEF SessionInv, HolderInv, Idle, Holding, Completing
<1>5. PendingInv'
  BY <1>3 DEF PendingInv
<1>6. PhaseInv'
  BY <1>1, <1>2, <1>3 DEF QueueInv, PhaseInv, Running
<1>7. TypeOK'
  <2>1. session' \in [Sessions -> [step : Steps, job : Jobs \cup {NoJob}]]
    BY <1>3 DEF Idle, Steps
  <2> QED BY <2>1, <1>1, <1>2, <1>3 DEF QueueInv, TypeOK
<1> QED BY <1>4, <1>5, <1>6, <1>7 DEF QueueInv

\* The order of submission, and where a session's job may be: these hold
\* whatever the store does.
OrderInv ==
    /\ \A i, n \in 1..Len(accepted) : accepted[i] = accepted[n] => i = n
    /\ \A i \in 1..Len(accepted) : submit[accepted[i]] # "none"
    /\ \A s \in Sessions : session[s].step # "idle" =>
          status[session[s].job] # "absent" \/ session[s].job \in settled

LEMMA OrderInitially == Init => OrderInv
BY DEF Init, OrderInv, Idle

\* The session's job is in memory, or carried through to the end.
LEMMA OrderKept ==
  ASSUME QueueInv, OrderInv, submit' = submit, accepted' = accepted,
         settled \subseteq settled',
         \A s \in Sessions : session'[s].step # "idle" =>
            session'[s].job = session[s].job /\ session[s].step # "idle",
         \A j \in Jobs : status[j] # "absent" =>
                            status'[j] # "absent" \/ j \in settled'
  PROVE  OrderInv'
<1>1. ASSUME NEW s \in Sessions, session'[s].step # "idle"
      PROVE  status'[session'[s].job] # "absent" \/ session'[s].job \in settled'
  BY <1>1, AtWork DEF OrderInv
<1> QED BY <1>1 DEF OrderInv

LEMMA OrderStep ==
  ASSUME QueueInv, OrderInv, [Next]_vars
  PROVE  OrderInv'
<1>0. session \in [Sessions -> [step : Steps, job : Jobs \cup {NoJob}]]
      /\ status \in [Jobs -> {"absent"} \cup Unfinished \cup Outcomes]
      /\ accepted \in Seq(Jobs) /\ pending \in Seq(Jobs)
  BY DEF QueueInv, TypeOK
<1>1. ASSUME NEW s \in Sessions, NextJob(s)
      PROVE  OrderInv'
  <2>1. Head(pending) \in Jobs /\ submit' = submit /\ accepted' = accepted
        /\ settled' = settled /\ status' = [status EXCEPT ![Head(pending)] = "running"]
        /\ session' = [session EXCEPT ![s] = [step |-> "picked",
                                              job |-> Head(pending)]]
    BY <1>0, <1>1 DEF NextJob
  <2>2. ASSUME NEW r \in Sessions, session'[r].step # "idle"
        PROVE  status'[session'[r].job] # "absent" \/ session'[r].job \in settled'
    <3>1. CASE r = s
      BY <3>1, <2>1, <1>0
    <3>2. CASE r # s
      BY <3>2, <2>1, <2>2, <1>0, AtWork DEF OrderInv
    <3> QED BY <3>1, <3>2
  <2> QED BY <2>1, <2>2 DEF OrderInv
<1>2. ASSUME NEW s \in Sessions,
             MarkRunning(s) \/ MarkRequeued(s) \/ MarkDone(s) \/ KeepView(s)
             \/ ViewRefused(s)
      PROVE  OrderInv'
  <2>1. submit' = submit /\ accepted' = accepted /\ settled \subseteq settled'
        /\ status' = status
    BY <1>2 DEF MarkRunning, MarkRequeued, MarkDone, KeepView, ViewRefused, history
  <2>2. session[s].step # "idle"
    BY <1>2 DEF MarkRunning, MarkRequeued, MarkDone, KeepView, ViewRefused
  <2>3. session' = [session EXCEPT ![s] = Idle]
        \/ \E t \in Steps : session' = [session EXCEPT ![s].step = t]
    BY <1>2 DEF MarkRunning, MarkRequeued, MarkDone, KeepView, ViewRefused, Steps
  <2>4. \A r \in Sessions : session'[r].step # "idle" =>
            session'[r].job = session[r].job /\ session[r].step # "idle"
    BY <2>2, <2>3, <1>0 DEF Idle
  <2> QED BY <2>1, <2>4, OrderKept
<1>3. ASSUME NEW s \in Sessions,
             RequeueJob(s) \/ CutShort(s)
             \/ \E outcome \in Outcomes : Complete(s, outcome)
      PROVE  OrderInv'
  <2>1. submit' = submit /\ accepted' = accepted /\ settled' = settled
        /\ session[s].step # "idle"
    BY <1>3 DEF RequeueJob, CutShort, Complete, history
  <2>2. PICK t \in Steps : session' = [session EXCEPT ![s].step = t]
    BY <1>3 DEF RequeueJob, CutShort, Complete, FinishJob, Steps
  <2>3. PICK new \in {"queued"} \cup Outcomes :
           status' = [status EXCEPT ![session[s].job] = new]
    BY <1>3 DEF RequeueJob, CutShort, Complete, FinishJob, Outcomes
  <2>4. \A j \in Jobs : status[j] # "absent" => status'[j] # "absent"
    BY <2>3, <1>0 DEF Outcomes
  <2>5. \A r \in Sessions : session'[r].step # "idle" =>
            session'[r].job = session[r].job /\ session[r].step # "idle"
    BY <2>1, <2>2, <1>0
  <2> QED BY <2>1, <2>4, <2>5, OrderKept
<1>4. ASSUME NEW s \in Sessions, Forget(s)
      PROVE  OrderInv'
  <2>1. submit' = submit /\ accepted' = accepted
        /\ settled' = settled \cup {session[s].job}
        /\ session' = [session EXCEPT ![s] = Idle]
        /\ status' = [status EXCEPT ![session[s].job] =
                        IF @ \in Outcomes THEN "absent" ELSE @]
    BY <1>4 DEF Forget
  <2>2. \A j \in Jobs : status[j] # "absent" =>
                           status'[j] # "absent" \/ j \in settled'
    BY <2>1, <1>0
  <2>3. \A r \in Sessions : session'[r].step # "idle" =>
            session'[r].job = session[r].job /\ session[r].step # "idle"
    BY <2>1, <1>0 DEF Idle
  <2> QED BY <2>1, <2>2, <2>3, OrderKept
<1>5. ASSUME NEW j \in Jobs, SubmitJob(j)
      PROVE  OrderInv'
  <2>1. /\ submit[j] = "none" /\ accepted' = Append(accepted, j)
        /\ submit' = [submit EXCEPT ![j] = "put"]
        /\ status' = [status EXCEPT ![j] = "queued"]
        /\ session' = session /\ settled' = settled
    BY <1>5 DEF SubmitJob
  <2>2. \A i \in 1..Len(accepted) : accepted[i] # j
    BY <2>1 DEF OrderInv
  <2>3. /\ Len(accepted') = Len(accepted) + 1
        /\ \A i \in 1..Len(accepted') :
              \/ i = Len(accepted) + 1 /\ accepted'[i] = j
              \/ i \in 1..Len(accepted) /\ accepted'[i] = accepted[i]
    BY <2>1, <1>0
  <2>4. \A i, n \in 1..Len(accepted') : accepted'[i] = accepted'[n] => i = n
    BY <2>2, <2>3 DEF OrderInv
  <2>5. \A k \in Jobs : submit'[k] = IF k = j THEN "put" ELSE submit[k]
    BY <2>1 DEF QueueInv, TypeOK
  <2>6. \A i \in 1..Len(accepted') : submit'[accepted'[i]] # "none"
    BY <2>3, <2>5, <1>0 DEF OrderInv
  <2>7. \A s \in Sessions : session[s].step # "idle" =>
            status'[session[s].job] # "absent" \/ session[s].job \in settled
    BY <2>1, <1>0, AtWork DEF OrderInv
  <2> QED BY <2>1, <2>4, <2>6, <2>7 DEF OrderInv
<1>6. ASSUME NEW j \in Jobs, PutRecord(j)
      PROVE  OrderInv'
  <2>1. /\ submit' = [submit EXCEPT ![j] = "answered"]
        /\ accepted' = accepted /\ status' = status /\ session' = session
        /\ settled' = settled
    BY <1>6 DEF PutRecord, history
  <2>2. \A k \in Jobs : submit'[k] = IF k = j THEN "answered" ELSE submit[k]
    BY <2>1 DEF QueueInv, TypeOK
  <2>3. \A i \in 1..Len(accepted) : submit'[accepted[i]] # "none"
    BY <2>2, <1>0 DEF OrderInv
  <2> QED BY <2>1, <2>3 DEF OrderInv
<1>7. CASE Crash \/ Exit
  <2>1. /\ MemoryGone /\ accepted' = accepted /\ settled' = settled
    BY <1>7 DEF Crash, Exit
  <2>2. \A k \in Jobs : submit'[k] = IF submit[k] = "put" THEN "lost" ELSE submit[k]
    BY <2>1 DEF MemoryGone
  <2>3. \A i \in 1..Len(accepted) : submit'[accepted[i]] # "none"
    BY <2>2, <1>0 DEF OrderInv
  <2>4. \A s \in Sessions : session'[s].step = "idle"
    BY <2>1 DEF MemoryGone, Idle
  <2> QED BY <2>1, <2>3, <2>4 DEF OrderInv
<1>8. CASE ResumeJob
  <2>1. submit' = submit /\ accepted' = accepted /\ settled' = settled
        /\ session' = session
        /\ \E j \in Jobs : status' = [status EXCEPT ![j] = "queued"]
    BY <1>8 DEF ResumeJob, history
  <2>2. \A j \in Jobs : status[j] # "absent" => status'[j] # "absent"
    BY <2>1, <1>0
  <2> QED BY <2>1, <2>2, OrderKept
<1>9. CASE \/ Stop \/ Start \/ PutAgain \/ FailOnRecord \/ FailView \/ Serve
           \/ UNCHANGED vars
  <2>1. submit' = submit /\ accepted' = accepted /\ settled' = settled
        /\ session' = session /\ status' = status
    BY <1>9 DEF Stop, Start, PutAgain, FailOnRecord, FailView, Serve, vars, memory, history
  <2> QED BY <2>1, OrderKept
<1> QED BY <1>1, <1>2, <1>3, <1>4, <1>5, <1>6, <1>7, <1>8, <1>9
        DEF Next, Session, Submission, Restart

LEMMA OldestIsOne ==
  ASSUME QueueInv, OrderInv, NEW j, NEW k, IsOldest(j), IsOldest(k)
  PROVE  j = k
<1>0. DOMAIN accepted = 1..Len(accepted)
  BY DEF QueueInv, TypeOK
<1>1. PICK i, n \in 1..Len(accepted) :
         accepted[i] = j /\ accepted[n] = k /\ i <= n
  BY <1>0 DEF IsOldest
<1>2. PICK a, b \in 1..Len(accepted) :
         accepted[a] = k /\ accepted[b] = j /\ a <= b
  BY <1>0 DEF IsOldest
<1>3. i = b /\ n = a
  BY <1>1, <1>2 DEF OrderInv
<1>4. i = n
  BY <1>1, <1>2, <1>3
<1> QED BY <1>1, <1>4

LEMMA StopStep ==
  ASSUME QueueInv, Stop
  PROVE  QueueInv'
<1>1. /\ pc = "up" /\ pc' = "stopping" /\ stops' = stops + 1
      /\ UNCHANGED <<status, pending, toResume, session, submit, record, view,
                     faulty, crashes, requeues, accepted, settled, expired,
                     cutShort, served, taken>>
  BY DEF Stop, store
<1>2. SessionInv' /\ HolderInv' /\ PendingInv'
  BY <1>1 DEF QueueInv, SessionInv, HolderInv, PendingInv
<1>3. PhaseInv'
  BY <1>1 DEF QueueInv, PhaseInv, Running
<1>4. TypeOK'
  BY <1>1 DEF QueueInv, TypeOK
<1> QED BY <1>2, <1>3, <1>4 DEF QueueInv

LEMMA StartStep ==
  ASSUME QueueInv, Start
  PROVE  QueueInv'
<1>1. /\ pc = "down" /\ pc' = "resuming"
      /\ toResume' = {j \in Jobs : record[j].status \in Unfinished}
      /\ UNCHANGED <<status, pending, session, submit, store, history>>
  BY DEF Start
<1>2. SessionInv' /\ HolderInv' /\ PendingInv'
  BY <1>1 DEF QueueInv, SessionInv, HolderInv, PendingInv
<1>3. PhaseInv'
  BY <1>1 DEF QueueInv, PhaseInv, Running, store, Unfinished, None
<1>4. TypeOK'
  BY <1>1 DEF QueueInv, TypeOK, store, history
<1> QED BY <1>2, <1>3, <1>4 DEF QueueInv

LEMMA ResumeStep ==
  ASSUME QueueInv, ResumeJob
  PROVE  QueueInv'
<1>1. PICK j \in Jobs :
        /\ IsOldest(j) /\ j \in toResume
        /\ status' = [status EXCEPT ![j] = "queued"]
        /\ pending' = Append(pending, j)
  BY DEF ResumeJob, IsOldest
<1>2. /\ pc = "resuming" /\ pc' = "putting"
      /\ UNCHANGED <<toResume, session, submit, store, history>>
  BY DEF ResumeJob
<1>3. ~Running /\ status[j] = "absent" /\ record[j].status # None
      /\ submit[j] = "answered"
  BY <1>1, <1>2 DEF QueueInv, PhaseInv, Running
<1>4. \A s \in Sessions : session[s].job # j
  BY <1>3, JobAssumption DEF QueueInv, PhaseInv, Idle
<1>5. /\ status' \in [Jobs -> {"absent"} \cup Unfinished \cup Outcomes]
      /\ pending' \in Seq(Jobs) /\ SessionInv' /\ HolderInv' /\ PendingInv'
  BY <1>1, <1>2, <1>3, <1>4, Admitted
<1>6. PhaseInv'
  <2>1. \A k \in Jobs : status'[k] = IF k = j THEN "queued" ELSE status[k]
    BY <1>1 DEF QueueInv, TypeOK
  <2>2. IsOldest(j)'
    BY <1>1, <1>2 DEF IsOldest, history
  <2>3. \A k \in toResume' : k \in Jobs /\ record'[k].status # None
                             /\ (k # j => status'[k] = "absent")
    BY <2>1, <1>2 DEF QueueInv, PhaseInv, TypeOK, store
  <2> QED BY <2>1, <2>2, <2>3, <1>2, <1>3 DEF QueueInv, PhaseInv, Running, store
<1>7. TypeOK'
  BY <1>2, <1>5 DEF QueueInv, TypeOK, store, history
<1> QED BY <1>5, <1>6, <1>7 DEF QueueInv

LEMMA PutAgainStep ==
  ASSUME QueueInv, OrderInv, PutAgain
  PROVE  QueueInv'
<1>1. PICK j \in Jobs :
        /\ IsOldest(j) /\ j \in toResume
        /\ Put(j, record[j].attempts + 1)
        /\ toResume' = toResume \ {j}
  BY DEF PutAgain, IsOldest
<1>2. /\ pc = "putting" /\ pc' = "resuming"
      /\ UNCHANGED <<status, pending, session, submit, view, history>>
  BY DEF PutAgain
<1>3. record[j].attempts + 1 \in Nat
  BY DEF QueueInv, TypeOK
<1>4. /\ record' \in [Jobs -> [status : {None} \cup Unfinished \cup Outcomes,
                               attempts : Nat]]
      /\ \A k \in Jobs : k # j => record'[k] = record[k]
  BY <1>1, <1>3, WriteType DEF QueueInv
<1>5. submit[j] = "answered"
  BY <1>1 DEF QueueInv, PhaseInv
<1>6. ASSUME NEW k \in toResume'
      PROVE  k \in Jobs /\ status'[k] = "absent" /\ record'[k].status # None
  <2>1. k \in toResume /\ k # j /\ k \in Jobs
    BY <1>1 DEF QueueInv, TypeOK
  <2>2. ~IsOldest(k)
    BY <1>1, <2>1, OldestIsOne
  <2> QED BY <2>1, <2>2, <1>2, <1>4 DEF QueueInv, PhaseInv
<1>7. SessionInv' /\ HolderInv' /\ PendingInv'
  BY <1>2 DEF QueueInv, SessionInv, HolderInv, PendingInv
<1>8. PhaseInv'
  BY <1>2, <1>4, <1>5, <1>6 DEF QueueInv, PhaseInv, Running
<1>9. TypeOK'
  BY <1>1, <1>2, <1>4 DEF QueueInv, TypeOK, history
<1> QED BY <1>7, <1>8, <1>9 DEF QueueInv

LEMMA RefuseStep ==
  ASSUME QueueInv, FailOnRecord \/ FailView
  PROVE  QueueInv'
<1>1. PICK j \in Jobs :
        /\ j \in toResume
        /\ \/ FailOnRecord /\ SetStatus(j, "failed") /\ toResume' = toResume
              /\ view' = view
           \/ FailView /\ record' = record /\ toResume' = toResume \ {j}
              /\ (view' = [view EXCEPT ![j] = "failed"] \/ view' = view)
  BY DEF FailOnRecord, FailView, IsOldest
<1>2. pc \in {"resuming", "failing"} /\ pc' \in {"resuming", "failing"}
      /\ UNCHANGED <<status, pending, session, submit, history>>
  BY DEF FailOnRecord, FailView
<1>3. view' \in [Jobs -> {None} \cup Outcomes]
  BY <1>1 DEF QueueInv, TypeOK, Outcomes
<1>4. /\ record' \in [Jobs -> [status : {None} \cup Unfinished \cup Outcomes,
                               attempts : Nat]]
      /\ \A k \in Jobs : k # j => record'[k] = record[k]
      /\ record[j].status # None => record'[j].status # None
  BY <1>1, WriteType DEF QueueInv, Outcomes, TypeOK
<1>5. SessionInv' /\ HolderInv' /\ PendingInv'
  BY <1>2 DEF QueueInv, SessionInv, HolderInv, PendingInv
<1>6. PhaseInv'
  <2>1. toResume' \subseteq toResume /\ toResume \subseteq Jobs
    BY <1>1 DEF QueueInv, TypeOK
  <2> QED BY <2>1, <1>1, <1>2, <1>4 DEF QueueInv, PhaseInv, Running
<1>7. TypeOK'
  <2>1. toResume' \subseteq Jobs
    BY <1>1 DEF QueueInv, TypeOK
  <2> QED BY <2>1, <1>2, <1>3, <1>4 DEF QueueInv, TypeOK, history
<1> QED BY <1>5, <1>6, <1>7 DEF QueueInv

LEMMA ServeStep ==
  ASSUME QueueInv, Serve
  PROVE  QueueInv'
<1>1. /\ pc = "resuming" /\ toResume = {} /\ pc' = "up" /\ Sweep
      /\ UNCHANGED <<status, pending, toResume, session, submit, faulty,
                     crashes, stops, requeues, accepted, settled, cutShort,
                     served, taken>>
  BY DEF Serve
<1>2. /\ record' \in [Jobs -> [status : {None} \cup Unfinished \cup Outcomes,
                               attempts : Nat]]
      /\ view' \in [Jobs -> {None} \cup Outcomes] /\ expired' \subseteq Jobs
      /\ \A j \in Jobs : record'[j] = record[j] \/ record'[j].status = None
  BY <1>1, SweepType DEF QueueInv, NoRecord
<1>3. SessionInv' /\ HolderInv' /\ PendingInv'
  BY <1>1 DEF QueueInv, SessionInv, HolderInv, PendingInv
<1>4. PhaseInv'
  BY <1>1, <1>2 DEF QueueInv, PhaseInv, Running
<1>5. TypeOK'
  BY <1>1, <1>2 DEF QueueInv, TypeOK
<1> QED BY <1>3, <1>4, <1>5 DEF QueueInv

LEMMA QueueStutter ==
  ASSUME QueueInv, UNCHANGED vars
  PROVE  QueueInv'
<1>1. SessionInv' /\ HolderInv' /\ PendingInv' /\ PhaseInv'
  BY DEF QueueInv, SessionInv, HolderInv, PendingInv, PhaseInv, Running,
     IsOldest, vars, memory, store, history
<1>2. TypeOK'
  BY DEF QueueInv, TypeOK, vars, memory, store, history
<1> QED BY <1>1, <1>2 DEF QueueInv

LEMMA QueueStep ==
  ASSUME QueueInv, OrderInv, [Next]_vars
  PROVE  QueueInv'
<1>1. ASSUME NEW s \in Sessions, Session(s)
      PROVE  QueueInv'
  BY <1>1, NextJobStep, MarkStep, RequeueStep, FinishStep, ViewStep, ForgetStep
     DEF Session
<1>2. ASSUME NEW j \in Jobs, Submission(j)
      PROVE  QueueInv'
  BY <1>2, SubmitStep, PutRecordStep DEF Submission
<1>3. CASE Restart
  BY <1>3, StartStep, ResumeStep, PutAgainStep, RefuseStep, ServeStep
     DEF Restart
<1> QED BY <1>1, <1>2, <1>3, MemoryGoneStep, StopStep, QueueStutter DEF Next

LEMMA QueueInvariant == Spec => [](QueueInv /\ OrderInv)
BY QueueInitially, OrderInitially, QueueStep, OrderStep, PTL DEF Spec

-----------------------------------------------------------------------------
\* "The queue hands each job to exactly one session": a queued job stands in
\* the queue once and nobody holds it, a running one is held by one session,
\* through Next, Requeue, completions, crashes, stops and resumptions in any
\* order and with a store that refuses writes or not.
THEOREM JobHandedToOne == Spec => []HandedToOne
<1>1. QueueInv => HandedToOne
  <2> SUFFICES ASSUME QueueInv, NEW j \in Jobs
               PROVE  /\ \A s, t \in Holders(j) : s = t
                      /\ status[j] = "queued" =>
                           /\ Holders(j) = {}
                           /\ \E i \in Occurrences(j) : Occurrences(j) = {i}
                      /\ status[j] # "queued" => Occurrences(j) = {}
                      /\ status[j] = "running" => Holders(j) # {}
    BY DEF HandedToOne
  <2>1. ASSUME NEW s \in Holders(j)
        PROVE  session[s].step \in Holding \cup Completing
               /\ s \in Sessions /\ session[s].job = j
    BY JobAssumption DEF Holders, QueueInv, TypeOK, SessionInv, Steps, Holding,
       Completing
  <2>2. \A s, t \in Holders(j) : s = t
    BY JobAssumption DEF Holders, QueueInv, HolderInv
  <2>3. status[j] = "queued" => Holders(j) = {}
    BY <2>1 DEF QueueInv, SessionInv, Outcomes
  <2>4. ASSUME status[j] = "queued"
        PROVE  \E i \in Occurrences(j) : Occurrences(j) = {i}
    <3>1. PICK i \in 1..Len(pending) : pending[i] = j
      BY <2>4 DEF QueueInv, PendingInv
    <3>2. \A n \in 1..Len(pending) : pending[n] = j => n = i
      BY <3>1 DEF QueueInv, PendingInv
    <3>3. Occurrences(j) = {i}
      BY <3>1, <3>2 DEF Occurrences
    <3> QED BY <3>3
  <2>5. status[j] # "queued" => Occurrences(j) = {}
    BY DEF QueueInv, PendingInv, Occurrences
  <2>6. status[j] = "running" => Holders(j) # {}
    BY DEF QueueInv, HolderInv, Holders
  <2> QED BY <2>2, <2>3, <2>4, <2>5, <2>6
<1> QED BY <1>1, QueueInvariant, PTL

-----------------------------------------------------------------------------
(* StoreInv, for a store that takes its writes: the record counts at least  *)
(* the processes whose sessions were handed the job, one more for a job that *)
(* is queued and was not handed out yet by this process; it is there for     *)
(* every job answered for, is unfinished for as long as the job is, and is   *)
(* in memory or still to be resumed.                                         *)

AttemptInv ==
    \A j \in Jobs :
        /\ served[j] <= MaxResume
        /\ record[j].status # None => /\ served[j] <= record[j].attempts
                                      /\ record[j].attempts <= MaxResume
        /\ submit[j] = "none" => served[j] = 0
        /\ submit[j] = "put" => served[j] <= 1

FreshInv ==
    /\ \A j \in Jobs :
          /\ status[j] \in Unfinished => submit[j] \in {"put", "answered"}
          /\ status[j] = "running" => j \in taken
          /\ status[j] = "queued" /\ j \notin taken /\ j \notin toResume =>
                /\ record[j].status # None => served[j] < record[j].attempts
                /\ submit[j] = "put" => served[j] = 0
    /\ pc = "putting" =>
          \A j \in Jobs : IsOldest(j) => /\ record[j].attempts < MaxResume
                                         /\ status[j] = "queued"

RecordedInv ==
    \A j \in Jobs : submit[j] = "answered" =>
        /\ j \notin expired => record[j].status # None
        /\ status[j] \in Unfinished => record[j].status \in Unfinished

HeldInv ==
    /\ Running => \A j \in Jobs :
          (submit[j] = "put" \/ record[j].status \in Unfinished) /\ j \notin settled
             => status[j] # "absent"
    /\ pc \in {"resuming", "putting", "failing"} => \A j \in Jobs :
          record[j].status \in Unfinished => j \in toResume \/ status[j] # "absent"
    /\ pc = "failing" =>
          \A j \in Jobs : IsOldest(j) => record[j].status \notin Unfinished
    /\ \A j \in toResume : \/ record[j].status \in Unfinished
                           \/ pc = "failing" /\ IsOldest(j)

\* A job that leaves memory has its view on disk.
AnswerInv ==
    /\ \A s \in Sessions : session[s].step = "settle" => view[session[s].job] # None
    /\ crashes = 0 /\ stops = 0 =>
          /\ pc = "up"
          /\ \A j \in Jobs : submit[j] \in {"put", "answered"} /\ j \notin expired
                => status[j] # "absent" \/ view[j] # None

StoreInv == AttemptInv /\ FreshInv /\ RecordedInv /\ HeldInv

LEMMA StoreInitially == Init => AnswerInv /\ StoreInv
<1> SUFFICES ASSUME Init PROVE AnswerInv /\ StoreInv
  OBVIOUS
<1>2. AnswerInv
  BY DEF Init, AnswerInv, Idle
<1>3. AttemptInv
  <2>1. \A j \in Jobs : served[j] = 0 /\ record[j].status = None
                        /\ submit[j] = "none"
    BY DEF Init, NoRecord
  <2>2. 0 <= MaxResume
    BY ConfigAssumption
  <2> QED BY <2>1, <2>2 DEF AttemptInv
<1>4. RecordedInv
  BY DEF Init, RecordedInv
<1>5. HeldInv
  BY DEF Init, HeldInv, NoRecord, Running, Unfinished, None
<1>6. FreshInv
  BY DEF Init, FreshInv, Unfinished
<1> QED BY <1>2, <1>3, <1>4, <1>5, <1>6 DEF StoreInv

\* A write the store takes.
LEMMA WriteTaken ==
  ASSUME TypeOK, ~faulty, NEW j \in Jobs
  PROVE  /\ \A n \in Nat : Put(j, n) =>
               /\ record'[j].status = "queued" /\ record'[j].attempts = n
               /\ \A k \in Jobs : k # j => record'[k] = record[k]
         /\ \A new : SetStatus(j, new) =>
               /\ record[j].status = None => record'[j] = record[j]
               /\ record[j].status # None => /\ record'[j].status = new
                                             /\ record'[j].attempts
                                                   = record[j].attempts
               /\ \A k \in Jobs : k # j => record'[k] = record[k]
<1>1. record \in [Jobs -> [status : {None} \cup Unfinished \cup Outcomes,
                           attempts : Nat]]
  BY DEF TypeOK
<1>2. ASSUME NEW n \in Nat, Put(j, n)
      PROVE  /\ record'[j].status = "queued" /\ record'[j].attempts = n
             /\ \A k \in Jobs : k # j => record'[k] = record[k]
  <2>1. record' = [record EXCEPT ![j] = [status |-> "queued", attempts |-> n]]
    BY <1>2 DEF Put, Refused
  <2> QED BY <1>1, <2>1
<1>3. ASSUME NEW new, SetStatus(j, new)
      PROVE  /\ record[j].status = None => record'[j] = record[j]
             /\ record[j].status # None => /\ record'[j].status = new
                                           /\ record'[j].attempts
                                                 = record[j].attempts
             /\ \A k \in Jobs : k # j => record'[k] = record[k]
  <2>1. record' = IF record[j].status = None
                  THEN record ELSE [record EXCEPT ![j].status = new]
    BY <1>3 DEF SetStatus, Refused
  <2> QED BY <1>1, <2>1
<1> QED BY <1>2, <1>3

\* What a sweep means to the store's invariant.
LEMMA StoreSwept ==
  ASSUME QueueInv, StoreInv, Sweep, submit' = submit, served' = served,
         taken' = taken, toResume' = toResume, pc' # "putting",
         \A j \in Jobs : status'[j] \in Unfinished => status'[j] = status[j]
  PROVE  /\ AttemptInv' /\ FreshInv' /\ RecordedInv'
         /\ \A j \in Jobs : record'[j].status \in Unfinished
                               => record'[j] = record[j]
<1>1. expired' \subseteq Jobs /\ \A j \in Jobs :
         \/ record'[j] = record[j]
         \/ /\ record'[j].status = None /\ j \in expired'
            /\ record[j].status \in Outcomes
  BY SweepType DEF QueueInv, Sweepable, NoRecord
<1>2. AttemptInv'
  BY <1>1 DEF StoreInv, AttemptInv
<1>3. \A j \in Jobs : j \in expired => j \in expired'
  BY DEF Sweep
<1>4. RecordedInv'
  BY <1>1, <1>3 DEF StoreInv, RecordedInv, Outcomes, Unfinished
<1>5. \A j \in Jobs : record'[j].status \in Unfinished => record'[j] = record[j]
  BY <1>1 DEF Unfinished, None
<1>6. FreshInv'
  BY <1>1 DEF StoreInv, FreshInv, Unfinished
<1> QED BY <1>2, <1>4, <1>5, <1>6

\* Steps of a session that write to no record.
LEMMA StoreSessionStep ==
  ASSUME QueueInv, StoreInv, ~faulty, NEW s \in Sessions,
         RequeueJob(s) \/ CutShort(s) \/ KeepView(s)
         \/ (\E outcome \in Outcomes : Complete(s, outcome))
  PROVE  StoreInv'
<1>0. status \in [Jobs -> {"absent"} \cup Unfinished \cup Outcomes]
  BY DEF QueueInv, TypeOK
<1>1. record' = record /\ submit' = submit /\ served' = served
      /\ taken' = taken /\ expired' = expired /\ settled' = settled /\ pc' = pc
      /\ toResume' = toResume /\ accepted' = accepted
  BY DEF RequeueJob, CutShort, KeepView, Complete, store, history
<1>2. Running /\ toResume = {}
  BY AtWork DEF RequeueJob, CutShort, KeepView, Complete, Running
<1>3. \A j \in Jobs :
         \/ status'[j] = status[j]
         \/ status[j] = "running" /\ status'[j] = "queued"
         \/ status'[j] \in Outcomes
  <2>1. CASE RequeueJob(s)
    BY <1>0, <2>1 DEF RequeueJob
  <2>2. CASE CutShort(s) \/ \E outcome \in Outcomes : Complete(s, outcome)
    BY <1>0, <2>2 DEF CutShort, Complete, FinishJob, Outcomes
  <2>3. CASE KeepView(s)
    BY <2>3 DEF KeepView
  <2> QED BY <2>1, <2>2, <2>3
<1>4. AttemptInv'
  BY <1>1 DEF StoreInv, AttemptInv
<1>5. RecordedInv'
  BY <1>1, <1>3 DEF StoreInv, RecordedInv, Outcomes, Unfinished
<1>6. HeldInv'
  BY <1>1, <1>2, <1>3 DEF StoreInv, HeldInv, Running, Outcomes, Unfinished
<1>7. FreshInv'
  BY <1>1, <1>2, <1>3 DEF StoreInv, FreshInv, Running, Outcomes, Unfinished
<1> QED BY <1>4, <1>5, <1>6, <1>7 DEF StoreInv

\* A job handed out for the first time by this process is one attempt that is
\* on its record already, or one that was submitted to this process.
LEMMA StoreNextStep ==
  ASSUME QueueInv, StoreInv, ~faulty, NEW s \in Sessions, NextJob(s)
  PROVE  StoreInv'
<1>0. status \in [Jobs -> {"absent"} \cup Unfinished \cup Outcomes]
      /\ pending \in Seq(Jobs) /\ served \in [Jobs -> Nat]
      /\ record \in [Jobs -> [status : {None} \cup Unfinished \cup Outcomes,
                              attempts : Nat]]
  BY DEF QueueInv, TypeOK
<1>1. PICK j \in Jobs : j = Head(pending) /\ j = pending[1]
                         /\ 1 \in 1..Len(pending)
  BY <1>0 DEF NextJob
<1>2. /\ record' = record /\ submit' = submit /\ expired' = expired
      /\ settled' = settled /\ pc' = pc /\ toResume' = toResume
      /\ accepted' = accepted /\ pc = "up" /\ HandOut(j)
      /\ status' = [status EXCEPT ![j] = "running"]
  BY <1>1 DEF NextJob, store
<1>3. Running /\ toResume = {} /\ status[j] = "queued"
  BY <1>1, <1>2 DEF QueueInv, PhaseInv, PendingInv, Running
<1>4. /\ j \in taken'
      /\ \A k \in Jobs : k # j => /\ served'[k] = served[k]
                                  /\ k \in taken' <=> k \in taken
      /\ served'[j] = IF j \in taken THEN served[j] ELSE served[j] + 1
  BY <1>2, HandedOut DEF QueueInv
<1>5. /\ status'[j] = "running"
      /\ \A k \in Jobs : k # j => status'[k] = status[k]
  BY <1>0, <1>2
<1>6. submit[j] \in {"put", "answered"}
  BY <1>3 DEF StoreInv, FreshInv, Unfinished
<1>7. served[j] \in Nat /\ record[j].attempts \in Nat /\ MaxResume \in Nat
      /\ 1 <= MaxResume
  BY <1>0, ConfigAssumption
<1>8. ASSUME j \notin taken
      PROVE  /\ served[j] + 1 <= MaxResume
             /\ record[j].status # None => served[j] + 1 <= record[j].attempts
             /\ submit[j] = "put" => served[j] + 1 <= 1
  <2>1. CASE submit[j] = "put"
    <3>1. served[j] = 0 /\ record[j].status = None
      BY <1>3, <1>8, <2>1 DEF StoreInv, FreshInv, QueueInv, PhaseInv
    <3> QED BY <3>1, <1>7
  <2>2. CASE submit[j] = "answered"
    <3>1. record[j].status # None
      BY <1>3, <2>2 DEF StoreInv, RecordedInv, Unfinished, None
    <3>2. served[j] < record[j].attempts /\ record[j].attempts <= MaxResume
      BY <1>3, <1>8, <3>1 DEF StoreInv, FreshInv, AttemptInv
    <3> QED BY <3>2, <2>2, <1>7
  <2> QED BY <1>6, <2>1, <2>2
<1>9. AttemptInv'
  <2>1. ASSUME NEW k \in Jobs, k # j
        PROVE  served'[k] = served[k]
    BY <2>1, <1>4
  <2>2. submit[j] # "none"
    BY <1>6
  <2> QED BY <2>1, <2>2, <1>2, <1>4, <1>8 DEF StoreInv, AttemptInv
<1>10. FreshInv'
  BY <1>2, <1>3, <1>4, <1>5, <1>6 DEF StoreInv, FreshInv, Unfinished
<1>11. RecordedInv'
  BY <1>2, <1>3, <1>5 DEF StoreInv, RecordedInv, Unfinished
<1>12. HeldInv'
  BY <1>2, <1>3, <1>5 DEF StoreInv, HeldInv, Running
<1> QED BY <1>9, <1>10, <1>11, <1>12 DEF StoreInv

LEMMA StoreMarkStep ==
  ASSUME QueueInv, OrderInv, StoreInv, ~faulty, NEW s \in Sessions,
         MarkRunning(s) \/ MarkRequeued(s) \/ MarkDone(s)
  PROVE  StoreInv'
<1> DEFINE j == session[s].job
<1>1. session[s].step # "idle" /\ j \in Jobs /\ Running /\ toResume = {}
  BY AtWork DEF MarkRunning, MarkRequeued, MarkDone
<1>2. status' = status /\ submit' = submit /\ served' = served
      /\ taken' = taken /\ expired' = expired /\ settled' = settled /\ pc' = pc
      /\ toResume' = toResume
  BY DEF MarkRunning, MarkRequeued, MarkDone, history
<1>3. PICK new \in Unfinished \cup Outcomes :
         /\ SetStatus(j, new)
         /\ new \in Outcomes => status[j] \in Outcomes
  BY DEF MarkRunning, MarkRequeued, MarkDone, QueueInv, SessionInv, Completing,
     Unfinished, Outcomes
<1>4. /\ record[j].status = None => record'[j] = record[j]
      /\ record[j].status # None => /\ record'[j].status = new
                                    /\ record'[j].attempts = record[j].attempts
      /\ \A k \in Jobs : k # j => record'[k] = record[k]
  BY <1>1, <1>3, WriteTaken DEF QueueInv
<1>5. new # None
  BY DEF None, Unfinished, Outcomes
<1>6. status[j] # "absent" \/ j \in settled
  BY <1>1 DEF OrderInv
<1> HIDE DEF j
<1>7. AttemptInv'
  BY <1>1, <1>2, <1>4, <1>5 DEF StoreInv, AttemptInv
<1>8. RecordedInv'
  <2>1. status[j] \in Unfinished => new \in Unfinished
    BY <1>3 DEF Unfinished, Outcomes
  <2> QED BY <2>1, <1>1, <1>2, <1>4, <1>5 DEF StoreInv, RecordedInv
<1>9. HeldInv'
  <2>1. \A k \in Jobs : record'[k].status \in Unfinished
            => record[k].status \in Unfinished \/ k = j
    BY <1>4
  <2> QED BY <2>1, <1>1, <1>2, <1>6 DEF StoreInv, HeldInv, Running
<1>10. FreshInv'
  BY <1>1, <1>2, <1>4, <1>5 DEF StoreInv, FreshInv, Running
<1> QED BY <1>7, <1>8, <1>9, <1>10 DEF StoreInv

LEMMA StoreForgetStep ==
  ASSUME QueueInv, StoreInv, ~faulty, NEW s \in Sessions,
         Forget(s) \/ ViewRefused(s)
  PROVE  StoreInv'
<1>0. Forget(s)
  BY DEF ViewRefused
<1>1. session[s].job \in Jobs /\ Running /\ toResume = {}
  BY <1>0, AtWork DEF Forget
<1>2. /\ Sweep /\ submit' = submit /\ served' = served /\ taken' = taken
      /\ pc' = pc /\ toResume' = toResume
      /\ settled' = settled \cup {session[s].job}
  BY <1>0 DEF Forget
<1>3. \A j \in Jobs : \/ status'[j] = status[j]
                      \/ status'[j] = "absent" /\ j \in settled'
  BY <1>0, <1>1 DEF Forget, QueueInv, TypeOK
<1>4. \A j \in Jobs : status'[j] \in Unfinished => status'[j] = status[j]
  BY <1>3 DEF Unfinished
<1>5. AttemptInv' /\ FreshInv' /\ RecordedInv'
      /\ \A j \in Jobs : record'[j].status \in Unfinished => record'[j] = record[j]
  BY <1>1, <1>2, <1>4, StoreSwept DEF Running
<1>6. HeldInv'
  BY <1>1, <1>2, <1>3, <1>5 DEF StoreInv, HeldInv, Running
<1> QED BY <1>5, <1>6 DEF StoreInv

LEMMA StoreSubmissionStep ==
  ASSUME QueueInv, StoreInv, ~faulty, NEW j \in Jobs, Submission(j)
  PROVE  StoreInv'
<1>0. /\ status \in [Jobs -> {"absent"} \cup Unfinished \cup Outcomes]
      /\ submit \in [Jobs -> {"none", "put", "answered", "lost"}]
  BY DEF QueueInv, TypeOK
<1>1. CASE SubmitJob(j)
  <2>1. /\ Running /\ submit[j] = "none" /\ pc' = pc /\ record' = record
        /\ expired' = expired /\ settled' = settled
        /\ status' = [status EXCEPT ![j] = "queued"]
        /\ submit' = [submit EXCEPT ![j] = "put"]
        /\ served' = served /\ taken' = taken /\ toResume' = toResume
    BY <1>1 DEF SubmitJob, store
  <2>2. served[j] = 0 /\ record[j].status = None /\ toResume = {}
    BY <2>1 DEF QueueInv, PhaseInv, StoreInv, AttemptInv
  <2>3. \A k \in Jobs : k # j => submit'[k] = submit[k] /\ status'[k] = status[k]
    BY <2>1, <1>0
  <2>4. submit'[j] = "put" /\ status'[j] = "queued"
    BY <2>1, <1>0
  <2>5. AttemptInv'
    BY <2>1, <2>2, <2>3, <2>4 DEF StoreInv, AttemptInv
  <2>6. RecordedInv'
    BY <2>1, <2>3, <2>4 DEF StoreInv, RecordedInv
  <2>7. HeldInv'
    BY <2>1, <2>2, <2>3, <2>4 DEF StoreInv, HeldInv, Running
  <2>8. FreshInv'
    BY <2>1, <2>2, <2>3, <2>4 DEF StoreInv, FreshInv, Running, Unfinished
  <2> QED BY <2>5, <2>6, <2>7, <2>8 DEF StoreInv
<1>2. CASE PutRecord(j)
  <2>1. /\ Running /\ submit[j] = "put" /\ pc' = pc /\ status' = status
        /\ expired' = expired /\ settled' = settled /\ served' = served
        /\ submit' = [submit EXCEPT ![j] = "answered"] /\ Put(j, 1)
        /\ taken' = taken /\ toResume' = toResume /\ toResume = {}
    BY <1>2 DEF PutRecord, history, QueueInv, PhaseInv
  <2>2. /\ record'[j].status = "queued" /\ record'[j].attempts = 1
        /\ \A k \in Jobs : k # j => record'[k] = record[k]
    BY <2>1, WriteTaken DEF QueueInv
  <2>3. \A k \in Jobs : submit'[k] = IF k = j THEN "answered" ELSE submit[k]
    BY <2>1, <1>0
  <2>0. 1 <= MaxResume
    BY ConfigAssumption
  <2>4. AttemptInv'
    BY <2>0, <2>1, <2>2, <2>3 DEF StoreInv, AttemptInv
  <2>5. RecordedInv'
    BY <2>1, <2>2, <2>3 DEF StoreInv, RecordedInv, Unfinished, None
  <2>6. HeldInv'
    BY <2>1, <2>2, <2>3 DEF StoreInv, HeldInv, Running
  <2>7. FreshInv'
    BY <2>1, <2>2, <2>3 DEF StoreInv, FreshInv, Running
  <2> QED BY <2>4, <2>5, <2>6, <2>7 DEF StoreInv
<1> QED BY <1>1, <1>2 DEF Submission

LEMMA StoreProcessStep ==
  ASSUME QueueInv, StoreInv, ~faulty, Crash \/ Exit \/ Stop \/ Start
  PROVE  StoreInv'
<1>1. record' = record /\ served' = served /\ expired' = expired
      /\ settled' = settled /\ accepted' = accepted
  BY DEF Crash, Exit, Stop, Start, store, history
<1>2. \A j \in Jobs : \/ submit'[j] = submit[j]
                      \/ submit[j] = "put" /\ submit'[j] = "lost"
  BY DEF Crash, Exit, Stop, Start, MemoryGone
<1>3. \A j \in Jobs : status'[j] = status[j] \/ status'[j] = "absent"
  BY DEF Crash, Exit, Stop, Start, MemoryGone
<1>4. AttemptInv'
  BY <1>1, <1>2 DEF StoreInv, AttemptInv
<1>5. RecordedInv'
  BY <1>1, <1>2, <1>3 DEF StoreInv, RecordedInv, Unfinished
<1>6. HeldInv'
  <2>1. CASE Crash \/ Exit
    <3>1. pc' = "down" /\ toResume' = {}
      BY <2>1 DEF Crash, Exit, MemoryGone
    <3> QED BY <3>1 DEF HeldInv, Running
  <2>2. CASE Stop
    <3>1. toResume' = {}
      BY <2>2 DEF Stop, QueueInv, PhaseInv, Running
    <3> QED BY <1>1, <2>2, <3>1 DEF Stop, StoreInv, HeldInv, Running
  <2>3. CASE Start
    BY <1>1, <2>3 DEF Start, HeldInv, Running
  <2> QED BY <2>1, <2>2, <2>3
<1>7. FreshInv'
  <2>1. CASE Crash \/ Exit
    BY <2>1 DEF Crash, Exit, MemoryGone, FreshInv, Unfinished
  <2>2. CASE Stop
    BY <1>1, <2>2 DEF Stop, StoreInv, FreshInv
  <2>3. CASE Start
    <3>1. \A j \in Jobs : status'[j] = "absent" /\ pc' # "putting"
      BY <2>3 DEF Start, QueueInv, PhaseInv
    <3> QED BY <3>1 DEF FreshInv, Unfinished
  <2> QED BY <2>1, <2>2, <2>3
<1> QED BY <1>4, <1>5, <1>6, <1>7 DEF StoreInv

LEMMA StoreResumeStep ==
  ASSUME QueueInv, OrderInv, StoreInv, ~faulty, ResumeJob
  PROVE  StoreInv'
<1>1. PICK j \in Jobs :
        /\ IsOldest(j) /\ j \in toResume /\ record[j].attempts < MaxResume
        /\ status' = [status EXCEPT ![j] = "queued"]
  BY DEF ResumeJob, IsOldest
<1>2. /\ pc = "resuming" /\ pc' = "putting" /\ submit' = submit
      /\ expired' = expired /\ record' = record /\ toResume' = toResume
      /\ served' = served /\ taken' = taken /\ accepted' = accepted
  BY DEF ResumeJob, store, history
<1>3. submit[j] = "answered" /\ record[j].status \in Unfinished
  BY <1>1, <1>2 DEF QueueInv, PhaseInv, StoreInv, HeldInv
<1>4. \A k \in Jobs : status'[k] = IF k = j THEN "queued" ELSE status[k]
  BY <1>1 DEF QueueInv, TypeOK
<1>5. \A k \in Jobs : IsOldest(k)' => IsOldest(k)
  BY <1>2 DEF IsOldest
<1>6. AttemptInv'
  BY <1>2 DEF StoreInv, AttemptInv
<1>7. RecordedInv'
  BY <1>2, <1>3, <1>4 DEF StoreInv, RecordedInv
<1>8. HeldInv'
  <2>1. \A k \in toResume : record[k].status \in Unfinished
    BY <1>2 DEF StoreInv, HeldInv
  <2> QED BY <2>1, <1>2, <1>4 DEF StoreInv, HeldInv, Running
<1>9. FreshInv'
  <2>1. \A k \in Jobs : IsOldest(k)' => k = j
    BY <1>1, <1>5, OldestIsOne
  <2> QED BY <2>1, <1>1, <1>2, <1>3, <1>4 DEF StoreInv, FreshInv
<1> QED BY <1>6, <1>7, <1>8, <1>9 DEF StoreInv

LEMMA StorePutAgainStep ==
  ASSUME QueueInv, OrderInv, StoreInv, ~faulty, PutAgain
  PROVE  StoreInv'
<1>1. PICK j \in Jobs :
        /\ IsOldest(j) /\ j \in toResume
        /\ Put(j, record[j].attempts + 1)
        /\ toResume' = toResume \ {j}
  BY DEF PutAgain, IsOldest
<1>2. /\ pc = "putting" /\ pc' = "resuming" /\ submit' = submit
      /\ expired' = expired /\ status' = status /\ served' = served
      /\ taken' = taken
  BY DEF PutAgain, history
<1>3. submit[j] = "answered" /\ record[j].status # None
      /\ record[j].attempts < MaxResume
  BY <1>1, <1>2 DEF QueueInv, PhaseInv, StoreInv, FreshInv
<1>4. record[j].attempts \in Nat /\ served[j] \in Nat /\ MaxResume \in Nat
      /\ toResume \subseteq Jobs
  BY ConfigAssumption DEF QueueInv, TypeOK
<1>5. /\ record'[j].status = "queued"
      /\ record'[j].attempts = record[j].attempts + 1
      /\ \A k \in Jobs : k # j => record'[k] = record[k]
  BY <1>1, <1>4, WriteTaken DEF QueueInv
<1>6. /\ served[j] < record'[j].attempts /\ served[j] <= record'[j].attempts
      /\ record'[j].attempts <= MaxResume
  BY <1>3, <1>4, <1>5 DEF StoreInv, AttemptInv
<1>7. AttemptInv'
  BY <1>2, <1>3, <1>5, <1>6 DEF StoreInv, AttemptInv
<1>8. RecordedInv'
  BY <1>2, <1>5 DEF StoreInv, RecordedInv, Unfinished, None
<1>9. HeldInv'
  <2>1. \A k \in toResume' : record'[k].status \in Unfinished
    BY <1>1, <1>2, <1>4, <1>5 DEF StoreInv, HeldInv
  <2>2. status[j] # "absent"
    BY <1>1, <1>2 DEF StoreInv, FreshInv
  <2> QED BY <2>1, <2>2, <1>1, <1>2, <1>5 DEF StoreInv, HeldInv, Running
<1>10. FreshInv'
  BY <1>1, <1>2, <1>3, <1>5, <1>6 DEF StoreInv, FreshInv
<1> QED BY <1>7, <1>8, <1>9, <1>10 DEF StoreInv

LEMMA StoreRefuseStep ==
  ASSUME QueueInv, OrderInv, StoreInv, ~faulty, FailOnRecord \/ FailView
  PROVE  StoreInv'
<1>1. submit' = submit /\ expired' = expired /\ served' = served
      /\ status' = status /\ accepted' = accepted /\ taken' = taken
  BY DEF FailOnRecord, FailView, history
<1>2. CASE FailOnRecord
  <2>1. PICK j \in Jobs : IsOldest(j) /\ SetStatus(j, "failed")
    BY <1>2 DEF FailOnRecord
  <2>2. pc = "resuming" /\ pc' = "failing" /\ toResume' = toResume
    BY <1>2 DEF FailOnRecord
  <2>3. record[j].status # None /\ status[j] = "absent"
    BY <2>1, <2>2 DEF QueueInv, PhaseInv, IsOldest
  <2>4. /\ record'[j].status = "failed"
        /\ record'[j].attempts = record[j].attempts
        /\ \A k \in Jobs : k # j => record'[k] = record[k]
    BY <2>1, <2>3, WriteTaken DEF QueueInv
  <2>5. AttemptInv'
    BY <1>1, <2>3, <2>4 DEF StoreInv, AttemptInv
  <2>6. RecordedInv'
    BY <1>1, <2>3, <2>4 DEF StoreInv, RecordedInv, Unfinished, None
  <2>7. \A k \in Jobs : IsOldest(k)' => record'[k].status \notin Unfinished
    <3>1. \A k \in Jobs : IsOldest(k)' => IsOldest(k)
      BY <1>1, <2>2 DEF IsOldest
    <3> QED BY <3>1, <2>1, <2>4, OldestIsOne DEF Unfinished
  <2>8. \A k \in Jobs : record'[k].status \in Unfinished
           => k \in toResume' \/ status'[k] # "absent"
    BY <1>1, <2>2, <2>4 DEF StoreInv, HeldInv, Unfinished
  <2>9. \A k \in toResume' : record'[k].status \in Unfinished \/ IsOldest(k)'
    <3>1. IsOldest(j)'
      BY <1>1, <2>1, <2>2 DEF IsOldest
    <3>2. \A k \in toResume : k \in Jobs /\ record[k].status \in Unfinished
      BY <2>2 DEF StoreInv, HeldInv, QueueInv, TypeOK
    <3> QED BY <3>1, <3>2, <2>2, <2>4
  <2>10. HeldInv'
    BY <2>2, <2>7, <2>8, <2>9 DEF HeldInv, Running
  <2>11. FreshInv'
    BY <1>1, <2>2, <2>3, <2>4 DEF StoreInv, FreshInv
  <2> QED BY <2>5, <2>6, <2>10, <2>11 DEF StoreInv
<1>3. CASE FailView
  <2>1. PICK j \in Jobs : IsOldest(j) /\ toResume' = toResume \ {j}
    BY <1>3 DEF FailView
  <2>2. pc = "failing" /\ pc' = "resuming" /\ record' = record
    BY <1>3 DEF FailView
  <2>3. record[j].status \notin Unfinished
    BY <2>1, <2>2 DEF StoreInv, HeldInv
  <2>4. AttemptInv' /\ RecordedInv'
    BY <1>1, <2>2 DEF StoreInv, AttemptInv, RecordedInv
  <2>5. \A k \in Jobs : record'[k].status \in Unfinished
           => k \in toResume' \/ status'[k] # "absent"
    BY <1>1, <2>1, <2>2, <2>3 DEF StoreInv, HeldInv
  <2>6. \A k \in toResume' : record'[k].status \in Unfinished
    <3>1. ASSUME NEW k \in toResume'
          PROVE  record[k].status \in Unfinished
      <4>1. k \in toResume /\ k # j
        BY <2>1
      <4>2. ~IsOldest(k)
        BY <2>1, <4>1, OldestIsOne
      <4> QED BY <4>1, <4>2 DEF StoreInv, HeldInv
    <3> QED BY <3>1, <2>2
  <2>7. HeldInv'
    BY <2>2, <2>5, <2>6 DEF HeldInv, Running
  <2>8. FreshInv'
    <3>1. status[j] = "absent"
      BY <2>1, <2>2 DEF IsOldest, QueueInv, PhaseInv
    <3> QED BY <1>1, <2>1, <2>2, <3>1 DEF StoreInv, FreshInv
  <2> QED BY <2>4, <2>7, <2>8 DEF StoreInv
<1> QED BY <1>2, <1>3

LEMMA StoreServeStep ==
  ASSUME QueueInv, StoreInv, ~faulty, Serve
  PROVE  StoreInv'
<1>1. /\ pc = "resuming" /\ toResume = {} /\ pc' = "up" /\ Sweep
      /\ status' = status /\ submit' = submit /\ served' = served
      /\ taken' = taken /\ toResume' = toResume
  BY DEF Serve
<1>2. AttemptInv' /\ FreshInv' /\ RecordedInv'
      /\ \A j \in Jobs : record'[j].status \in Unfinished => record'[j] = record[j]
  BY <1>1, StoreSwept
<1>3. \A j \in Jobs : submit[j] # "put"
  BY <1>1 DEF QueueInv, PhaseInv, Running
<1>4. HeldInv'
  BY <1>1, <1>2, <1>3 DEF StoreInv, HeldInv, Running
<1> QED BY <1>2, <1>4 DEF StoreInv

LEMMA StoreStep ==
  ASSUME QueueInv, OrderInv, ~faulty => StoreInv, [Next]_vars
  PROVE  ~faulty' => StoreInv'
<1>1. faulty' = faulty
  BY DEF Next, Session, Submission, Restart, NextJob, MarkRunning, RequeueJob,
     MarkRequeued, Complete, CutShort, MarkDone, KeepView, ViewRefused, Forget,
     SubmitJob, PutRecord, Start, ResumeJob, PutAgain, FailOnRecord, FailView, Serve,
     Crash, Stop, Exit, vars, history
<1>2. SUFFICES ASSUME ~faulty, StoreInv PROVE StoreInv'
  BY <1>1
<1>3. ASSUME NEW s \in Sessions, Session(s)
      PROVE  StoreInv'
  BY <1>2, <1>3, StoreSessionStep, StoreNextStep, StoreMarkStep,
     StoreForgetStep DEF Session
<1>4. CASE Restart
  BY <1>2, <1>4, StoreProcessStep, StoreResumeStep, StorePutAgainStep,
     StoreRefuseStep, StoreServeStep DEF Restart
<1>5. CASE UNCHANGED vars
  <2>1. AttemptInv' /\ RecordedInv'
    BY <1>2, <1>5 DEF StoreInv, AttemptInv, RecordedInv, vars, memory, store,
       history
  <2>2. HeldInv'
    BY <1>2, <1>5 DEF StoreInv, HeldInv, Running, IsOldest, vars, memory, store,
       history
  <2>3. FreshInv'
    BY <1>2, <1>5 DEF StoreInv, FreshInv, IsOldest, vars, memory, store, history
  <2> QED BY <2>1, <2>2, <2>3 DEF StoreInv
<1> QED BY <1>2, <1>3, <1>4, <1>5, StoreSubmissionStep, StoreProcessStep DEF Next

-----------------------------------------------------------------------------
(* AnswerInv.                                                               *)

\* A step that leaves the views alone, takes no job out of memory and makes no
\* session settle.
LEMMA AnswerKept ==
  ASSUME QueueInv, AnswerInv, view' = view, expired' = expired, pc' = pc,
         crashes' = crashes, stops' = stops,
         \A s \in Sessions : session'[s].step = "settle" => session'[s] = session[s],
         \A j \in Jobs : status[j] # "absent" => status'[j] # "absent",
         \A j \in Jobs : submit'[j] \in {"put", "answered"} =>
            submit[j] \in {"put", "answered"} \/ status'[j] # "absent"
  PROVE  AnswerInv'
BY DEF AnswerInv

LEMMA AnswerWorkStep ==
  ASSUME QueueInv, AnswerInv, NEW s \in Sessions,
         \/ NextJob(s) \/ MarkRunning(s) \/ RequeueJob(s) \/ MarkRequeued(s)
         \/ CutShort(s) \/ MarkDone(s) \/ \E outcome \in Outcomes : Complete(s, outcome)
  PROVE  AnswerInv'
<1>0. session \in [Sessions -> [step : Steps, job : Jobs \cup {NoJob}]]
      /\ status \in [Jobs -> {"absent"} \cup Unfinished \cup Outcomes]
      /\ pending \in Seq(Jobs)
  BY DEF QueueInv, TypeOK
<1>1. view' = view /\ expired' = expired /\ pc' = pc /\ crashes' = crashes
      /\ stops' = stops /\ submit' = submit
  BY DEF NextJob, MarkRunning, RequeueJob, MarkRequeued, CutShort, MarkDone,
     Complete, history, store
<1>2. \A r \in Sessions : r # s => session'[r] = session[r]
  BY <1>0 DEF NextJob, MarkRunning, RequeueJob, MarkRequeued, CutShort, MarkDone,
     Complete, FinishJob
<1>3. session'[s].step # "settle"
  BY <1>0 DEF NextJob, MarkRunning, RequeueJob, MarkRequeued, CutShort, MarkDone,
     Complete, FinishJob, Idle
<1>4. status' = status
      \/ \E j \in Jobs \cup {NoJob}, new \in Unfinished \cup Outcomes :
            status' = [status EXCEPT ![j] = new]
  <2>1. CASE NextJob(s)
    BY <1>0, <2>1 DEF NextJob, Unfinished
  <2>2. CASE RequeueJob(s)
    BY <1>0, <2>2 DEF RequeueJob, Unfinished
  <2>3. CASE CutShort(s) \/ \E outcome \in Outcomes : Complete(s, outcome)
    BY <1>0, <2>3 DEF CutShort, Complete, FinishJob, Outcomes
  <2> QED BY <2>1, <2>2, <2>3 DEF MarkRunning, MarkRequeued, MarkDone
<1>5. \A j \in Jobs : status[j] # "absent" => status'[j] # "absent"
  BY <1>0, <1>4 DEF Unfinished, Outcomes
<1> QED BY <1>1, <1>2, <1>3, <1>5, AnswerKept

\* The view is written, or refused and the job stays; a job that is forgotten
\* has its view, and no sweep takes the view of a job in a session's hands.
LEMMA AnswerViewStep ==
  ASSUME QueueInv, AnswerInv, NEW s \in Sessions,
         KeepView(s) \/ ViewRefused(s) \/ Forget(s)
  PROVE  AnswerInv'
<1> DEFINE j == session[s].job
<1>0. session \in [Sessions -> [step : Steps, job : Jobs \cup {NoJob}]]
      /\ status \in [Jobs -> {"absent"} \cup Unfinished \cup Outcomes]
      /\ view \in [Jobs -> {None} \cup Outcomes]
  BY DEF QueueInv, TypeOK
<1>1. session[s].step \in Completing /\ session[s].step # "idle"
  BY DEF KeepView, ViewRefused, Forget, Completing
<1>2. j \in Jobs /\ status[j] \in Outcomes
  BY <1>1, AtWork DEF QueueInv, SessionInv
<1>3. pc' = pc /\ crashes' = crashes /\ stops' = stops /\ submit' = submit
  BY DEF KeepView, ViewRefused, Forget, history
<1>4. CASE KeepView(s)
  <2>1. /\ view' = [view EXCEPT ![j] = status[j]] /\ expired' = expired
        /\ session' = [session EXCEPT ![s].step = "settle"] /\ status' = status
    BY <1>4 DEF KeepView, history
  <2>2. /\ view'[j] # None
        /\ \A k \in Jobs : k # j => view'[k] = view[k]
    BY <1>0, <1>2, <2>1 DEF Outcomes, None
  <2>3. /\ \A r \in Sessions : r # s => session'[r] = session[r]
        /\ session'[s].job = j
    BY <1>0, <2>1
  <2>4. \A r \in Sessions : session[r].step = "settle" => session[r].job \in Jobs
    BY AtWork
  <2> HIDE DEF j
  <2>5. ASSUME NEW r \in Sessions, session'[r].step = "settle"
        PROVE  view'[session'[r].job] # None
    <3>1. CASE r = s
      BY <3>1, <2>2, <2>3
    <3>2. CASE r # s
      BY <3>2, <2>2, <2>3, <2>4, <2>5 DEF AnswerInv
    <3> QED BY <3>1, <3>2
  <2> QED BY <1>3, <2>1, <2>2, <2>5 DEF AnswerInv
<1>5. CASE ViewRefused(s) \/ Forget(s)
  <2>1. Sweep /\ session' = [session EXCEPT ![s] = Idle]
        /\ \A k \in Jobs : k # j \/ ViewRefused(s) => status'[k] = status[k]
    BY <1>0, <1>5 DEF ViewRefused, Forget
  <2>2. \A k \in Jobs :
           \/ view'[k] = view[k]
           \/ k \in expired' /\ \A r \in Sessions : session[r].job # k
    BY <2>1, SweepType DEF QueueInv, Sweepable
  <2>3. \A k \in Jobs : k \in expired => k \in expired'
    BY <2>1 DEF Sweep
  <2>4. ASSUME NEW r \in Sessions, session'[r].step = "settle"
        PROVE  view'[session'[r].job] # None
    <3>1. session'[r] = session[r]
      BY <1>0, <2>1, <2>4 DEF Idle
    <3>2. session[r].job \in Jobs
      BY <3>1, <2>4, AtWork
    <3> QED BY <3>1, <3>2, <2>2, <2>4 DEF AnswerInv
  <2>5. Forget(s) => view'[j] # None
    BY <1>2, <2>2 DEF Forget, AnswerInv
  <2> HIDE DEF j
  <2> QED BY <1>3, <1>5, <2>1, <2>2, <2>3, <2>4, <2>5 DEF AnswerInv
<1> QED BY <1>4, <1>5

LEMMA AnswerStep ==
  ASSUME QueueInv, AnswerInv, [Next]_vars
  PROVE  AnswerInv'
<1>0. crashes \in Nat /\ stops \in Nat
      /\ submit \in [Jobs -> {"none", "put", "answered", "lost"}]
      /\ status \in [Jobs -> {"absent"} \cup Unfinished \cup Outcomes]
  BY DEF QueueInv, TypeOK
<1>1. ASSUME NEW s \in Sessions, Session(s)
      PROVE  AnswerInv'
  BY <1>1, AnswerWorkStep, AnswerViewStep DEF Session
<1>2. ASSUME NEW j \in Jobs, Submission(j)
      PROVE  AnswerInv'
  <2>1. view' = view /\ expired' = expired /\ pc' = pc /\ crashes' = crashes
        /\ stops' = stops /\ session' = session
    BY <1>2 DEF Submission, SubmitJob, PutRecord, history, store
  <2>2. CASE SubmitJob(j)
    <3>1. /\ \A k \in Jobs : k # j => status'[k] = status[k] /\ submit'[k] = submit[k]
          /\ status'[j] = "queued"
      BY <1>0, <2>2 DEF SubmitJob
    <3> QED BY <2>1, <3>1, AnswerKept
  <2>3. CASE PutRecord(j)
    <3>1. status' = status /\ submit[j] = "put"
          /\ \A k \in Jobs : k # j => submit'[k] = submit[k]
      BY <1>0, <2>3 DEF PutRecord
    <3> QED BY <2>1, <3>1, AnswerKept
  <2> QED BY <1>2, <2>2, <2>3 DEF Submission
<1>3. CASE Restart \/ Crash \/ Exit
  <2>1. \A s \in Sessions : session'[s].step # "settle"
    <3>1. CASE Crash \/ Exit
      BY <3>1 DEF Crash, Exit, MemoryGone, Idle
    <3>2. CASE Restart
      <4>1. ~Running /\ session' = session
        BY <3>2 DEF Restart, Start, ResumeJob, PutAgain, FailOnRecord, FailView, Serve,
           Running
      <4> QED BY <4>1 DEF QueueInv, PhaseInv, Idle
    <3> QED BY <1>3, <3>1, <3>2
  <2>2. ~(crashes' = 0 /\ stops' = 0)
    <3>1. CASE Crash
      BY <1>0, <3>1 DEF Crash
    <3>2. CASE Restart \/ Exit
      <4>1. pc # "up" /\ crashes' = crashes /\ stops' = stops
        BY <3>2 DEF Restart, Start, ResumeJob, PutAgain, FailOnRecord, FailView, Serve, Exit,
           history
      <4> QED BY <4>1 DEF AnswerInv
    <3> QED BY <1>3, <3>1, <3>2
  <2> QED BY <2>1, <2>2 DEF AnswerInv
<1>4. CASE Stop
  BY <1>0, <1>4 DEF Stop, store, AnswerInv
<1>5. CASE UNCHANGED vars
  BY <1>5, AnswerKept DEF vars, memory, store, history
<1> QED BY <1>1, <1>2, <1>3, <1>4, <1>5 DEF Next

LEMMA StoreInvariant ==
  Spec => [](QueueInv /\ OrderInv /\ AnswerInv /\ (~faulty => StoreInv))
<1> DEFINE I == QueueInv /\ OrderInv /\ AnswerInv /\ (~faulty => StoreInv)
<1>1. Init => I
  BY QueueInitially, OrderInitially, StoreInitially
<1>2. I /\ [Next]_vars => I'
  BY QueueStep, OrderStep, AnswerStep, StoreStep
<1> QED BY <1>1, <1>2, PTL DEF Spec

-----------------------------------------------------------------------------
\* However often the process dies, also between the admission of a job and the
\* write of its raised counter, sessions of at most queue.max_resume_attempts
\* processes are handed a job whose record the store keeps: no session of a
\* process is handed a job before the record counts that process
\* (SubmitRecorded, Resume, Record.Attempts, Next).
THEOREM ResumptionsBounded == Spec => []ResumesBounded
<1>1. (~faulty => StoreInv) => ResumesBounded
  BY DEF StoreInv, AttemptInv, ResumesBounded
<1> QED BY <1>1, StoreInvariant, PTL

\* A restart loses nothing the authority answered for: an answered job is on
\* record until it expires, unfinished until its outcome is decided, and a
\* daemon that serves holds every unfinished job of its record (ADR 0026).
THEOREM AnsweredIsOnRecord == Spec => []AcceptedOnRecord
<1>1. (~faulty => StoreInv) => AcceptedOnRecord
  <2> SUFFICES ASSUME StoreInv, NEW j \in Jobs, submit[j] = "answered"
               PROVE  /\ j \notin expired => record[j].status # None
                      /\ status[j] \in Unfinished
                            => record[j].status \in Unfinished
                      /\ /\ Running /\ record[j].status \in Unfinished
                         /\ j \notin settled
                         => status[j] # "absent"
    BY DEF AcceptedOnRecord
  <2> QED BY DEF StoreInv, RecordedInv, HeldInv
<1> QED BY <1>1, StoreInvariant, PTL

\* As long as the process lives, every accepted job is in memory or has its
\* view on disk until it expires, also when the store refuses writes (GetRaw,
\* keepView, forget).
THEOREM JobsAnswer == Spec => []AlwaysAnswers
<1>1. AnswerInv => AlwaysAnswers
  BY DEF AnswerInv, AlwaysAnswers
<1> QED BY <1>1, StoreInvariant, PTL
=============================================================================
