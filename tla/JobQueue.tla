------------------------------ MODULE JobQueue ------------------------------
(***************************************************************************)
(* sagvd's job queue and its store on disk (ADR 0026):                     *)
(*   cmd/sagvd/job_queue.go          JobQueue;                             *)
(*   internal/vault/jobstore/store.go  Store;                              *)
(*   cmd/sagvd/http_api.go           admit, ResumeJobs;                    *)
(*   cmd/sagvd/daemon.go             serveOne, as far as it moves a job;   *)
(*   cmd/sagvd/main.go               the order of start and stop.          *)
(*                                                                         *)
(* The queue's mutex covers memory only: each operation changes memory     *)
(* under the lock, releases it, and then writes to the store, so the       *)
(* writes of two goroutines reach the store in any order.  Every store     *)
(* write is one bbolt transaction and an action of its own.                *)
(*                                                                         *)
(* A job is its name; its flow, genome and answer are left out, the        *)
(* outcome is "succeeded" or "failed".                                     *)
(***************************************************************************)
EXTENDS Naturals, Sequences

CONSTANTS Jobs, Sessions,
          MaxResume,    \* queue.max_resume_attempts
          Retains,      \* FALSE: queue.retain_finished_seconds is set
          StoreFaults,  \* a store that may refuse writes is looked at too
          MaxCrashes,   \* bound: processes that die
          MaxStops,     \* bound: processes that are stopped
          MaxRequeues   \* bound: stale Evidence met by one process

ASSUME ConfigAssumption ==
    /\ MaxResume \in Nat \ {0}
    /\ Retains \in BOOLEAN
    /\ StoreFaults \in BOOLEAN
ASSUME BoundAssumption ==
    MaxCrashes \in Nat /\ MaxStops \in Nat /\ MaxRequeues \in Nat

VARIABLES
    \* memory
    pc,        \* "down", "resuming", "putting", "failing", "up" or "stopping"
    status,    \* JobQueue.jobs: the status of each job held, or "absent"
    pending,   \* JobQueue.pending
    toResume,  \* what Resume has still to look at
    session,   \* what each session is doing, and with which job
    submit,    \* where POST /v1/jobs is with each job
    \* the store
    record,    \* the jobs bucket: status and admissions
    view,      \* the views bucket
    faulty,    \* whether this store may refuse a write
    \* bounds and history
    crashes, stops, requeues,
    accepted,  \* the jobs in the order of their submission
    settled,   \* jobs whose completion was carried through to the end
    expired,   \* jobs swept from the store
    cutShort,  \* jobs in flight when their process was stopped
    served,    \* in how many processes a session was handed each job
    taken      \* the jobs this process has handed to a session

memory == <<pc, status, pending, toResume, session, submit>>
store == <<record, view>>
history == <<faulty, crashes, stops, requeues, accepted, settled, expired,
             cutShort, served, taken>>
vars == <<memory, store, history>>

Outcomes == {"succeeded", "failed"}
Unfinished == {"queued", "running"}
None == "none"
NoJob == "no job"

ASSUME JobAssumption == NoJob \notin Jobs

Steps == {"idle", "picked", "serving", "requeued", "done", "view", "settle"}
Idle == [step |-> "idle", job |-> NoJob]
NoRecord == [status |-> None, attempts |-> 0]

TypeOK ==
    /\ pc \in {"down", "resuming", "putting", "failing", "up", "stopping"}
    /\ status \in [Jobs -> {"absent"} \cup Unfinished \cup Outcomes]
    /\ pending \in Seq(Jobs)
    /\ toResume \subseteq Jobs
    /\ session \in [Sessions -> [step : Steps, job : Jobs \cup {NoJob}]]
    /\ submit \in [Jobs -> {"none", "put", "answered", "lost"}]
    /\ record \in [Jobs -> [status : {None} \cup Unfinished \cup Outcomes,
                            attempts : Nat]]
    /\ view \in [Jobs -> {None} \cup Outcomes]
    /\ faulty \in BOOLEAN
    /\ crashes \in Nat /\ stops \in Nat /\ requeues \in Nat
    /\ accepted \in Seq(Jobs)
    /\ settled \subseteq Jobs /\ expired \subseteq Jobs
    /\ cutShort \subseteq Jobs
    /\ served \in [Jobs -> Nat] /\ taken \subseteq Jobs

Init ==
    /\ pc = "up"
    /\ status = [j \in Jobs |-> "absent"]
    /\ pending = <<>> /\ toResume = {}
    /\ session = [s \in Sessions |-> Idle]
    /\ submit = [j \in Jobs |-> "none"]
    /\ record = [j \in Jobs |-> NoRecord]
    /\ view = [j \in Jobs |-> None]
    /\ faulty \in {FALSE, StoreFaults}
    /\ crashes = 0 /\ stops = 0 /\ requeues = 0
    /\ accepted = <<>>
    /\ settled = {} /\ expired = {} /\ cutShort = {}
    /\ served = [j \in Jobs |-> 0] /\ taken = {}

-----------------------------------------------------------------------------
(* The store's operations.  A refused write leaves the store as it was; the *)
(* queue logs it and goes on.                                               *)

Running == pc \in {"up", "stopping"}

\* Bound: refused writes and restarts are not looked at together.
OneKindOfFault == ~faulty

Refused == faulty /\ UNCHANGED record

\* Mutant of Put: the admission's number is not kept.
PutAsFirst(j, attempts) ==
    \/ record' = [record EXCEPT ![j] = [status |-> "queued", attempts |-> 1]]
    \/ Refused

Put(j, attempts) ==
    \/ record' = [record EXCEPT ![j] = [status |-> "queued",
                                        attempts |-> attempts]]
    \/ Refused

\* A transition belongs to a job the store knows.
SetStatus(j, new) ==
    \/ record' = IF record[j].status = None
                 THEN record ELSE [record EXCEPT ![j].status = new]
    \/ Refused

\* sweepIfDue, run after a completion and at start: the finished jobs that
\* are old enough are deleted, record and view; which ones is the clock's
\* choice.  A job that a goroutine is still writing is younger than any
\* retention.
Sweepable ==
    {j \in Jobs : /\ record[j].status \in Outcomes
                  /\ \A s \in Sessions : session[s].job # j
                  /\ submit[j] # "put"}

Sweep ==
    \E old \in IF Retains THEN {{}} ELSE SUBSET Sweepable :
        /\ record' = [j \in Jobs |-> IF j \in old THEN NoRecord ELSE record[j]]
        /\ view' = [j \in Jobs |-> IF j \in old THEN None ELSE view[j]]
        /\ expired' = expired \cup old

-----------------------------------------------------------------------------
(* POST /v1/jobs: admit, then SubmitRecorded.                               *)

\* Under the lock: the job is in the map and at the end of the queue.  The
\* HTTP server is closed only after the sessions of a stop have ended.
SubmitJob(j) ==
    /\ Running /\ submit[j] = "none"
    /\ status' = [status EXCEPT ![j] = "queued"]
    /\ pending' = Append(pending, j)
    /\ accepted' = Append(accepted, j)
    /\ submit' = [submit EXCEPT ![j] = "put"]
    /\ UNCHANGED <<pc, toResume, session, store, faulty, crashes, stops,
                   requeues, settled, expired, cutShort, served, taken>>

\* After the lock: the record, and the answer to the submitter.
PutRecord(j) ==
    /\ Running /\ submit[j] = "put"
    /\ Put(j, 1)
    /\ submit' = [submit EXCEPT ![j] = "answered"]
    /\ UNCHANGED <<pc, status, pending, toResume, session, view, history>>

-----------------------------------------------------------------------------
(* A session: serveOne from queue.Next on.                                  *)

\* History: the job is handed to a session of this process.
HandOut(j) ==
    /\ served' = IF j \in taken THEN served
                               ELSE [served EXCEPT ![j] = @ + 1]
    /\ taken' = taken \cup {j}

\* Mutant of NextJob: the head of the queue is read and not taken.
NextJobPeeks(s) ==
    /\ pc = "up" /\ session[s].step = "idle"
    /\ pending # <<>>
    /\ status' = [status EXCEPT ![Head(pending)] = "running"]
    /\ session' = [session EXCEPT ![s] = [step |-> "picked",
                                          job |-> Head(pending)]]
    /\ HandOut(Head(pending))
    /\ UNCHANGED <<pc, pending, toResume, submit, store, faulty, crashes,
                   stops, requeues, accepted, settled, expired, cutShort>>

\* Next, under the lock.  A Next that looked at its context just before the
\* daemon was stopped is one that took its job before the stop: nothing that
\* happens in between depends on which came first.
NextJob(s) ==
    /\ pc = "up" /\ session[s].step = "idle"
    /\ pending # <<>>
    /\ pending' = Tail(pending)
    /\ status' = [status EXCEPT ![Head(pending)] = "running"]
    /\ session' = [session EXCEPT ![s] = [step |-> "picked",
                                          job |-> Head(pending)]]
    /\ HandOut(Head(pending))
    /\ UNCHANGED <<pc, toResume, submit, store, faulty, crashes, stops,
                   requeues, accepted, settled, expired, cutShort>>

\* Next, after the lock: transition to running.
MarkRunning(s) ==
    /\ session[s].step = "picked"
    /\ SetStatus(session[s].job, "running")
    /\ session' = [session EXCEPT ![s].step = "serving"]
    /\ UNCHANGED <<pc, status, pending, toResume, submit, view, history>>

\* The worker's Evidence is too old: Requeue, under the lock.
RequeueJob(s) ==
    /\ session[s].step = "serving"
    /\ requeues < MaxRequeues /\ requeues' = requeues + 1
    /\ status[session[s].job] = "running"
    /\ status' = [status EXCEPT ![session[s].job] = "queued"]
    /\ pending' = <<session[s].job>> \o pending
    /\ session' = [session EXCEPT ![s].step = "requeued"]
    /\ UNCHANGED <<pc, toResume, submit, store, faulty, crashes, stops,
                   accepted, settled, expired, cutShort, served, taken>>

\* Requeue, after the lock; the session is closed.
MarkRequeued(s) ==
    /\ session[s].step = "requeued"
    /\ SetStatus(session[s].job, "queued")
    /\ session' = [session EXCEPT ![s] = Idle]
    /\ UNCHANGED <<pc, status, pending, toResume, submit, view, history>>

\* CompleteGated or CompleteFailure, under the lock.
FinishJob(s, outcome) ==
    /\ status' = [status EXCEPT ![session[s].job] = outcome]
    /\ session' = [session EXCEPT ![s].step = "done"]

Complete(s, outcome) ==
    /\ session[s].step = "serving"
    /\ FinishJob(s, outcome)
    /\ UNCHANGED <<pc, pending, toResume, submit, store, history>>

\* The daemon is stopping: its context closes the worker's connection, and
\* the error aborts the job (abortJob, CompleteFailure).
CutShort(s) ==
    /\ session[s].step = "serving" /\ pc = "stopping"
    /\ FinishJob(s, "failed")
    /\ cutShort' = cutShort \cup {session[s].job}
    /\ UNCHANGED <<pc, pending, toResume, submit, store, faulty, crashes,
                   stops, requeues, accepted, settled, expired, served,
                   taken>>

\* The rest of a completion, after the lock: the terminal status,
MarkDone(s) ==
    /\ session[s].step = "done"
    /\ SetStatus(session[s].job, status[session[s].job])
    /\ session' = [session EXCEPT ![s].step = "view"]
    /\ UNCHANGED <<pc, status, pending, toResume, submit, view, history>>

\* the view,
KeepView(s) ==
    /\ session[s].step = "view"
    /\ view' = [view EXCEPT ![session[s].job] = status[session[s].job]]
    /\ session' = [session EXCEPT ![s].step = "settle"]
    /\ UNCHANGED <<pc, status, pending, toResume, submit, record, history>>

\* Mutant of ViewRefused: the job leaves memory all the same.
ViewRefusedForgets(s) ==
    /\ faulty /\ session[s].step = "view"
    /\ status' = [status EXCEPT ![session[s].job] = "absent"]
    /\ session' = [session EXCEPT ![s] = Idle]
    /\ Sweep
    /\ settled' = settled \cup {session[s].job}
    /\ UNCHANGED <<pc, pending, toResume, submit, faulty, crashes, stops,
                   requeues, accepted, cutShort, served, taken>>

\* (a view the store refuses keeps the job in memory)
ViewRefused(s) ==
    /\ faulty /\ session[s].step = "view"
    /\ session' = [session EXCEPT ![s] = Idle]
    /\ Sweep
    /\ settled' = settled \cup {session[s].job}
    /\ UNCHANGED <<pc, status, pending, toResume, submit, faulty, crashes,
                   stops, requeues, accepted, cutShort, served, taken>>

\* and the job leaves memory; the sweep comes last.
Forget(s) ==
    /\ session[s].step = "settle"
    /\ status' = [status EXCEPT ![session[s].job] =
                    IF @ \in Outcomes THEN "absent" ELSE @]
    /\ session' = [session EXCEPT ![s] = Idle]
    /\ Sweep
    /\ settled' = settled \cup {session[s].job}
    /\ UNCHANGED <<pc, pending, toResume, submit, faulty, crashes, stops,
                   requeues, accepted, cutShort, served, taken>>

-----------------------------------------------------------------------------
(* Start and stop of the process.                                           *)

MemoryGone ==
    /\ pc' = "down"
    /\ status' = [j \in Jobs |-> "absent"]
    /\ pending' = <<>> /\ toResume' = {}
    /\ session' = [s \in Sessions |-> Idle]
    /\ submit' = [j \in Jobs |-> IF submit[j] = "put" THEN "lost"
                                                      ELSE submit[j]]
    /\ taken' = {}

Crash ==
    /\ pc # "down" /\ crashes < MaxCrashes /\ OneKindOfFault
    /\ crashes' = crashes + 1
    /\ MemoryGone
    /\ UNCHANGED <<faulty, store, stops, requeues, accepted, settled, expired,
                   cutShort, served>>

\* SIGTERM: no session waits for a job any more, those with a job end.
Stop ==
    /\ pc = "up" /\ stops < MaxStops /\ OneKindOfFault
    /\ stops' = stops + 1
    /\ pc' = "stopping"
    /\ UNCHANGED <<status, pending, toResume, session, submit, store, faulty,
                   crashes, requeues, accepted, settled, expired, cutShort,
                   served, taken>>

Exit ==
    /\ pc = "stopping"
    /\ \A s \in Sessions : session[s].step = "idle"
    /\ \A j \in Jobs : submit[j] # "put"
    /\ MemoryGone
    /\ UNCHANGED <<store, faulty, crashes, stops, requeues, accepted, settled,
                   expired, cutShort, served>>

\* Mutant of Start: only what was queued is taken up again.
StartQueuedOnly ==
    /\ pc = "down"
    /\ pc' = "resuming"
    /\ toResume' = {j \in Jobs : record[j].status = "queued"}
    /\ UNCHANGED <<status, pending, session, submit, store, history>>

\* Store.Pending: the unfinished records.
Start ==
    /\ pc = "down"
    /\ pc' = "resuming"
    /\ toResume' = {j \in Jobs : record[j].status \in Unfinished}
    /\ UNCHANGED <<status, pending, session, submit, store, history>>

\* Resume goes through them oldest submission first.
IsOldest(j) ==
    /\ j \in toResume
    /\ \A k \in toResume : \E i, n \in DOMAIN accepted :
          accepted[i] = j /\ accepted[n] = k /\ i <= n

\* Resume, one record: admitted again under its own id, in memory (under the
\* lock; nothing serves or dispatches yet),
ResumeJob ==
    /\ pc = "resuming"
    /\ \E j \in Jobs :
        /\ IsOldest(j)
        /\ record[j].attempts < MaxResume
        /\ status' = [status EXCEPT ![j] = "queued"]
        /\ pending' = Append(pending, j)
    /\ pc' = "putting"
    /\ UNCHANGED <<toResume, session, submit, store, history>>

\* and then, after the lock, on the record as one more attempt.
PutAgain ==
    /\ pc = "putting"
    /\ \E j \in Jobs :
        /\ IsOldest(j)
        /\ Put(j, record[j].attempts + 1)
        /\ toResume' = toResume \ {j}
    /\ pc' = "resuming"
    /\ UNCHANGED <<status, pending, session, submit, view, history>>

\* Resume, one record: too many admissions, or the admission refuses it (the
\* bundle is gone, the log does not take the request).  failOnRecord writes
\* the status, and then the view.
FailOnRecord ==
    /\ pc = "resuming"
    /\ \E j \in Jobs : IsOldest(j) /\ SetStatus(j, "failed")
    /\ pc' = "failing"
    /\ UNCHANGED <<status, pending, toResume, session, submit, view, history>>

FailView ==
    /\ pc = "failing"
    /\ \E j \in Jobs :
        /\ IsOldest(j)
        /\ \/ view' = [view EXCEPT ![j] = "failed"]
           \/ faulty /\ UNCHANGED view
        /\ toResume' = toResume \ {j}
    /\ pc' = "resuming"
    /\ UNCHANGED <<status, pending, session, submit, record, history>>

\* Resume ends with a sweep; then the API serves and the dispatcher runs.
Serve ==
    /\ pc = "resuming" /\ toResume = {}
    /\ pc' = "up"
    /\ UNCHANGED <<status, pending, toResume, session, submit, faulty,
                   crashes, stops, requeues, accepted, settled, cutShort,
                   served, taken>>
    /\ Sweep

-----------------------------------------------------------------------------

Session(s) ==
    \/ NextJob(s) \/ MarkRunning(s) \/ RequeueJob(s) \/ MarkRequeued(s)
    \/ \E outcome \in Outcomes : Complete(s, outcome)
    \/ CutShort(s) \/ MarkDone(s) \/ KeepView(s) \/ ViewRefused(s) \/ Forget(s)

Submission(j) == SubmitJob(j) \/ PutRecord(j)

Restart ==
    Start \/ ResumeJob \/ PutAgain \/ FailOnRecord \/ FailView \/ Serve

Next ==
    \/ \E s \in Sessions : Session(s)
    \/ \E j \in Jobs : Submission(j)
    \/ Restart \/ Crash \/ Stop \/ Exit

Spec == Init /\ [][Next]_vars

\* Goroutines run, workers dial in and answer or time out, the supervisor
\* starts the daemon again.
Fairness ==
    /\ \A s \in Sessions : WF_vars(Session(s))
    /\ \A j \in Jobs : WF_vars(PutRecord(j))
    /\ WF_vars(Restart) /\ WF_vars(Exit)

FairSpec == Spec /\ Fairness

-----------------------------------------------------------------------------
(* Correctness.                                                             *)

Occurrences(j) == {i \in 1..Len(pending) : pending[i] = j}

\* The sessions that are between Next and the end of a completion with j.
Holders(j) ==
    {s \in Sessions : session[s].job = j /\ session[s].step # "requeued"}

\* "The queue hands each job to exactly one session": a job is queued and in
\* the queue once, or running and held by one session, or finished; whatever
\* Requeue, completions and other sessions' Next do in between
\* (JobQueue.Next, Requeue, CompleteGated, forget).
HandedToOne ==
    \A j \in Jobs :
        /\ \A s, t \in Holders(j) : s = t
        /\ status[j] = "queued" =>
            /\ Holders(j) = {}
            /\ \E i \in Occurrences(j) : Occurrences(j) = {i}
        /\ status[j] # "queued" => Occurrences(j) = {}
        /\ status[j] = "running" => Holders(j) # {}

\* A restart loses nothing the authority answered for (ADR 0026): as long as
\* the store takes its writes, every accepted job is on record until it
\* expires, as unfinished until its outcome is decided, and a daemon that
\* serves holds every unfinished job of its record
\* (SubmitRecorded, transition, Resume).
AcceptedOnRecord ==
    ~faulty => \A j \in Jobs : submit[j] = "answered" =>
        /\ j \notin expired => record[j].status # None
        /\ status[j] \in Unfinished => record[j].status \in Unfinished
        /\ /\ Running /\ record[j].status \in Unfinished
           /\ j \notin settled
           => status[j] # "absent"

\* "a job that crashes the authority must not crash it forever" (config.go):
\* however the process dies, also between the admission of a job and the
\* write of its raised counter, sessions of at most
\* queue.max_resume_attempts processes work on a job whose record the store
\* keeps (SubmitRecorded, Resume, Record.Attempts, Next).
ResumesBounded == ~faulty => \A j \in Jobs : served[j] <= MaxResume

\* As long as the process lives, GET /v1/jobs/{id} answers for every accepted
\* job until it expires: a job leaves memory only after its view is on disk,
\* also when the store refuses writes (GetRaw, keepView, forget).
AlwaysAnswers ==
    crashes = 0 /\ stops = 0 => \A j \in Jobs :
        submit[j] = "answered" /\ j \notin expired =>
            status[j] # "absent" \/ view[j] # None

\* With a store that takes its writes, every accepted job ends: in a view, or
\* as a terminal record, through any crash and stop (Resume, Next,
\* CompleteGated, CompleteFailure).
EveryJobEnds ==
    \A j \in Jobs : ~faulty /\ submit[j] = "answered" ~>
        view[j] # None \/ record[j].status \in Outcomes \/ j \in expired

-----------------------------------------------------------------------------
(* What the repository says and the code does not keep.                      *)

\* "Terminal states are immutable; no re-queue on failure" (job_queue.go):
\* the record of a job whose completion was carried through is never again
\* that of an unfinished one.
TerminalIsImmutable ==
    \A j \in settled : record[j].status \notin Unfinished

\* "a job finished before the restart still answers GET /v1/jobs/{id}"
\* (disaster_recovery.md): a record that says the job finished has its view
\* beside it, or the job is in memory.
FinishedAnswers ==
    \A j \in Jobs : Running /\ record[j].status \in Outcomes =>
        view[j] # None \/ status[j] # "absent"

\* "a restart admits again what was queued or in flight" (00_overview.md): a
\* job the stop of the daemon cut short is not failed on the record.
StopKeepsInFlight ==
    \A j \in cutShort : record[j].status # "failed"
=============================================================================
