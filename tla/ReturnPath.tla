----------------------------- MODULE ReturnPath -----------------------------
(***************************************************************************)
(* The Return Path between the vault and a worker:                         *)
(*   internal/compute/returnpath   the attested handshake, the session and *)
(*                                 the job exchange, client and server;    *)
(*   cmd/acp-compute/daemon.go     the worker's dial and serve loop;       *)
(*   cmd/sagvd/daemon.go           the vault's accept loop, session slots  *)
(*                                 and the wire side of serveOne.          *)
(*                                                                         *)
(* A connection is TCP: frames arrive in order or not at all.  It may be   *)
(* cut: then what is sent is lost, and a read fails or waits until its     *)
(* deadline.  Deadlines run on clocks nothing ties together, so one may    *)
(* pass at any step; that each does pass is all the fairness assumes.      *)
(* Names of connections and jobs are used again once they are done with.   *)
(* The queue and the stages of a job are JobQueue's and Flow's.            *)
(***************************************************************************)
EXTENDS Naturals, Sequences, FiniteSets

CONSTANTS Conns, Jobs,
          Slots         \* runtime.max_sessions

ASSUME SlotsAssumption == Slots \in Nat \ {0}

VARIABLES
    worker,     \* the worker's daemon
    told,       \* the worker has been told to stop
    vault,      \* the vault's daemon: up, stopping or down
    net,        \* the connections
    sess,       \* the vault's session on each
    job,        \* the jobs: none, queued or taken
    sent, got   \* what each end made of a connection's job (history)

vars == <<worker, told, vault, net, sess, job, sent, got>>

-----------------------------------------------------------------------------
None == "none"

ASSUME NoneAssumption == None \notin Conns /\ None \notin Jobs

Idle == [pc |-> "idle", conn |-> None]
Off == [pc |-> "off", conn |-> None]
NoSession == [pc |-> None, job |-> None]

\* up and down are the frames under way; w and v say whether the worker and
\* the vault still have their end open; wOk and vOk whether the Evidence of
\* each is one the other's verifier accepts.
Free == [up |-> <<>>, down |-> <<>>, w |-> FALSE, v |-> FALSE, cut |-> FALSE,
         wOk |-> FALSE, vOk |-> FALSE]

Frame(t) == [type |-> t]
JobRequest(j) == [type |-> "job_request", job |-> j]

\* WriteFrame: nobody reads what is sent after a cut, or to a closed end.
ToVault(n, fs) == IF n.v /\ ~n.cut THEN [n EXCEPT !.up = @ \o fs] ELSE n
ToWorker(n, fs) == IF n.w /\ ~n.cut THEN [n EXCEPT !.down = @ \o fs] ELSE n

\* Close
WorkerCloses(n) == IF n.v THEN [n EXCEPT !.w = FALSE, !.down = <<>>] ELSE Free
VaultCloses(n) == IF n.w THEN [n EXCEPT !.v = FALSE, !.up = <<>>] ELSE Free

\* ReadFrame
VaultReads(c, t) == net[c].v /\ net[c].up # <<>> /\ Head(net[c].up).type = t
WorkerReads(t) ==
    LET n == net[worker.conn]
    IN  n.w /\ n.down # <<>> /\ Head(n.down).type = t

TakenUp(n) == [n EXCEPT !.up = Tail(@)]
TakenDown(n) == [n EXCEPT !.down = Tail(@)]

\* The end was closed, here or there, or the connection is cut.
VaultReadFails(n) == ~n.v \/ n.cut \/ (~n.w /\ n.up = <<>>)
WorkerReadFails(n) == ~n.w \/ n.cut \/ (~n.v /\ n.down = <<>>)

-----------------------------------------------------------------------------
(* The worker: Run, runOnce, client.Dial, client.ServeOneJob.               *)

In(pc) == worker.pc = pc
C == worker.conn

\* What Run does after a cycle that failed.
AfterCycle(err) == IF told \/ err = "deadline" THEN Off ELSE Idle

\* dial, and HELLO_CLIENT; the vault's listener has the connection.
Dial(c, w, v) ==
    /\ In("idle") /\ ~told /\ vault = "up"
    /\ net[c] = Free /\ sess[c] = NoSession
    /\ worker' = [pc |-> "hello", conn |-> c]
    /\ net' = [net EXCEPT ![c] = [Free EXCEPT !.up = <<Frame("hello_client")>>,
                                   !.w = TRUE, !.v = TRUE, !.wOk = w, !.vOk = v]]
    /\ sess' = [sess EXCEPT ![c].pc = "accepted"]
    /\ sent' = [sent EXCEPT ![c] = None] /\ got' = [got EXCEPT ![c] = None]
    /\ UNCHANGED <<told, vault, job>>

\* The vault's host does not answer, or it accepts and stalls: the dial, or
\* the TLS handshake, ends with the context's deadline.
DialTimesOut ==
    /\ In("idle") /\ ~told
    /\ worker' = AfterCycle("deadline")
    /\ UNCHANGED <<told, vault, net, sess, job, sent, got>>

\* A cycle ends: fs are written, then the connection is closed.
EndCycle(n, fs, next) ==
    /\ net' = [net EXCEPT ![C] = WorkerCloses(ToVault(n, fs))]
    /\ worker' = next

ReadHelloServer ==
    /\ In("hello") /\ WorkerReads("hello_server")
    /\ LET n == TakenDown(net[C])
       IN  \/ /\ n.vOk
              /\ worker' = [worker EXCEPT !.pc = "ready"]
              /\ net' = [net EXCEPT ![C] = ToVault(n, <<Frame("attest_client")>>)]
           \/ \* the vault's Evidence does not verify, or there is none to send
              EndCycle(n, <<Frame("error")>>, AfterCycle("refused"))
    /\ UNCHANGED <<told, vault, sess, job, sent, got>>

ReadSessionReady ==
    /\ In("ready") /\ WorkerReads("session_ready")
    /\ worker' = [worker EXCEPT !.pc = "await"]
    /\ net' = [net EXCEPT ![C] = TakenDown(@)]
    /\ UNCHANGED <<told, vault, sess, job, sent, got>>

\* The vault ended it: an error in the handshake, a shutdown in the session.
ReadEnd ==
    /\ worker.pc \in {"hello", "ready", "await"}
    /\ WorkerReads("error") \/ WorkerReads("shutdown")
    /\ EndCycle(TakenDown(net[C]), <<Frame("shutdown")>>, AfterCycle("ended"))
    /\ UNCHANGED <<told, vault, sess, job, sent, got>>

AcceptJob ==
    /\ In("await") /\ WorkerReads("job_request")
    /\ worker' = [worker EXCEPT !.pc = "work"]
    /\ net' = [net EXCEPT ![C] = ToVault(TakenDown(@), <<Frame("job_accept")>>)]
    /\ UNCHANGED <<told, vault, sess, job, sent, got>>

\* The material does not unseal, or the job's deadline has passed.
RejectJob ==
    /\ In("await") /\ WorkerReads("job_request")
    /\ EndCycle(TakenDown(net[C]), <<Frame("job_reject"), Frame("shutdown")>>,
                AfterCycle("refused"))
    /\ sent' = [sent EXCEPT ![C] = "job_reject"]
    /\ UNCHANGED <<told, vault, sess, job, got>>

Produce ==
    /\ In("work")
    /\ EndCycle(net[C], <<Frame("candidate_output"), Frame("shutdown")>>, Idle)
    /\ sent' = [sent EXCEPT ![C] = "candidate_output"]
    /\ UNCHANGED <<told, vault, sess, job, got>>

\* Mutant of ReconstructFails: what there is of the output is sent.
ReconstructFailsPartly ==
    /\ In("work")
    /\ \E f \in {"candidate_output"} :
          EndCycle(net[C], <<Frame(f), Frame("shutdown")>>, AfterCycle("refused"))
    /\ sent' = [sent EXCEPT ![C] = "job_reject"]
    /\ UNCHANGED <<told, vault, sess, job, got>>

\* The door fails, or its output is not what was asked for: a reject, after
\* the accept; its context was over before it began: the same, and the
\* context's error.
ReconstructFails ==
    /\ In("work")
    /\ \E err \in {"refused", "deadline"} :
          EndCycle(net[C], <<Frame("job_reject"), Frame("shutdown")>>,
                   AfterCycle(err))
    /\ sent' = [sent EXCEPT ![C] = "job_reject"]
    /\ UNCHANGED <<told, vault, sess, job, got>>

SignFails ==
    /\ In("work")
    /\ EndCycle(net[C], <<Frame("shutdown")>>, AfterCycle("refused"))
    /\ UNCHANGED <<told, vault, sess, job, sent, got>>

\* HandshakeTimeout, then JobTimeout: the connection is closed under whatever
\* waits on it.
WorkerTimesOut ==
    /\ worker.pc \in {"hello", "ready", "await", "work"}
    /\ EndCycle(net[C], <<>>, AfterCycle("io"))
    /\ UNCHANGED <<told, vault, sess, job, sent, got>>

WorkerReadError ==
    /\ worker.pc \in {"hello", "ready", "await"} /\ WorkerReadFails(net[C])
    /\ EndCycle(net[C], <<>>, AfterCycle("io"))
    /\ UNCHANGED <<told, vault, sess, job, sent, got>>

\* SIGTERM: the connection is closed, and Run returns.
StopWorker ==
    /\ ~told /\ ~In("off")
    /\ told' = TRUE
    /\ worker' = Off
    /\ net' = IF C = None THEN net ELSE [net EXCEPT ![C] = WorkerCloses(@)]
    /\ UNCHANGED <<vault, sess, job, sent, got>>

\* The worker's host dies, without a word on its connection, and is back.
WorkerDies ==
    /\ C # None
    /\ worker' = Idle
    /\ net' = [net EXCEPT ![C] = WorkerCloses([@ EXCEPT !.cut = TRUE])]
    /\ UNCHANGED <<told, vault, sess, job, sent, got>>

StartWorker ==
    /\ In("off")
    /\ worker' = Idle /\ told' = FALSE
    /\ UNCHANGED <<vault, net, sess, job, sent, got>>

-----------------------------------------------------------------------------
(* The vault: Run, serveInSlot, serveOne, server.Accept, ServeOneJob.       *)

At(c, pc) == sess[c].pc = pc
Goes(c, pc) == sess' = [sess EXCEPT ![c].pc = pc]
InSlot == {c \in Conns : sess[c].pc \notin {None, "accepted"}}

TakeSlot(c) ==
    /\ At(c, "accepted") /\ Cardinality(InSlot) < Slots
    /\ Goes(c, "hello")
    /\ UNCHANGED <<worker, told, vault, net, job, sent, got>>

\* A session ends: fs are written, the connection closed, the slot freed.
EndSession(c, n, fs) ==
    /\ net' = [net EXCEPT ![c] = VaultCloses(ToWorker(n, fs))]
    /\ sess' = [sess EXCEPT ![c] = NoSession]

\* Every slot was taken for as long as it waited, or the daemon stops.
Busy(c) ==
    /\ At(c, "accepted")
    /\ Cardinality(InSlot) >= Slots \/ vault = "stopping"
    /\ EndSession(c, net[c], <<>>)
    /\ UNCHANGED <<worker, told, vault, job, sent, got>>

ReadHelloClient(c) ==
    /\ At(c, "hello") /\ VaultReads(c, "hello_client")
    /\ \/ /\ Goes(c, "attest")
          /\ net' = [net EXCEPT ![c] = ToWorker(TakenUp(@),
                                                <<Frame("hello_server")>>)]
       \/ \* no Evidence to answer with
          EndSession(c, TakenUp(net[c]), <<Frame("error")>>)
    /\ UNCHANGED <<worker, told, vault, job, sent, got>>

\* verifyPeerRecord, over the challenge of both nonces.
Verifies(n) == n.wOk

ReadAttestClient(c) ==
    /\ At(c, "attest") /\ VaultReads(c, "attest_client")
    /\ IF Verifies(net[c])
       THEN /\ Goes(c, "next")
            /\ net' = [net EXCEPT ![c] = ToWorker(TakenUp(@),
                                                  <<Frame("session_ready")>>)]
       ELSE EndSession(c, TakenUp(net[c]), <<Frame("error")>>)
    /\ UNCHANGED <<worker, told, vault, job, sent, got>>

\* The peer's error, the handshake's deadline, a failed read.
HandshakeFails(c) ==
    /\ At(c, "hello") \/ At(c, "attest")
    /\ EndSession(c, net[c], <<>>)
    /\ UNCHANGED <<worker, told, vault, job, sent, got>>

TakeJob(c, j) ==
    /\ At(c, "next") /\ job[j] = "queued" /\ vault = "up"
    /\ job' = [job EXCEPT ![j] = "taken"]
    /\ sess' = [sess EXCEPT ![c] = [pc |-> "flow", job |-> j]]
    /\ UNCHANGED <<worker, told, vault, net, sent, got>>

\* Mutant of AttestAgain: the job is not put back.
AttestAgainOnly(c, j) ==
    /\ At(c, "next") /\ job[j] = "queued" /\ vault = "up"
    /\ job' = [job EXCEPT ![j] = "taken"]
    /\ EndSession(c, net[c], <<Frame("shutdown")>>)
    /\ UNCHANGED <<worker, told, vault, sent, got>>

\* The session's Evidence is too old for the job it took: the job keeps its
\* place.
AttestAgain(c, j) ==
    /\ At(c, "next") /\ job[j] = "queued" /\ vault = "up"
    /\ EndSession(c, net[c], <<Frame("shutdown")>>)
    /\ UNCHANGED <<worker, told, vault, job, sent, got>>

\* queue.Next ends with the session's context.
NoWork(c) ==
    /\ At(c, "next")
    /\ EndSession(c, net[c], <<Frame("shutdown")>>)
    /\ UNCHANGED <<worker, told, vault, job, sent, got>>

Dispatch(c) ==
    /\ At(c, "flow")
    /\ Goes(c, "reply")
    /\ net' = [net EXCEPT ![c] = ToWorker(@, <<JobRequest(sess[c].job)>>)]
    /\ UNCHANGED <<worker, told, vault, job, sent, got>>

\* abortJob, refuseAtTrust, CompleteGated: the job is over, the worker told.
Ends(c, n) ==
    /\ EndSession(c, n, <<Frame("shutdown")>>)
    /\ job' = [job EXCEPT ![sess[c].job] = None]

\* A stage before the dispatch refuses the job or fails.
FlowEnds(c) ==
    /\ At(c, "flow")
    /\ Ends(c, net[c])
    /\ UNCHANGED <<worker, told, vault, sent, got>>

ReadAccept(c) ==
    /\ At(c, "reply") /\ VaultReads(c, "job_accept")
    /\ Goes(c, "output")
    /\ net' = [net EXCEPT ![c] = TakenUp(@)]
    /\ UNCHANGED <<worker, told, vault, job, sent, got>>

ReadReject(c) ==
    /\ At(c, "reply") /\ VaultReads(c, "job_reject")
    /\ got' = [got EXCEPT ![c] = "job_reject"]
    /\ Ends(c, TakenUp(net[c]))
    /\ UNCHANGED <<worker, told, vault, sent>>

\* The bindings match, the size fits, the signature verifies.
ReadOutput(c) ==
    /\ At(c, "output") /\ VaultReads(c, "candidate_output")
    /\ got' = [got EXCEPT ![c] = "candidate_output"]
    /\ Goes(c, "judge")
    /\ net' = [net EXCEPT ![c] = TakenUp(@)]
    /\ UNCHANGED <<worker, told, vault, job, sent>>

\* One of them fails.
RefuseOutput(c) ==
    /\ At(c, "output") /\ VaultReads(c, "candidate_output")
    /\ Ends(c, TakenUp(net[c]))
    /\ UNCHANGED <<worker, told, vault, sent, got>>

\* Anything else: a shutdown, a reject that comes after the accept.
ReadUnexpected(c) ==
    /\ At(c, "reply") \/ At(c, "output")
    /\ \/ VaultReads(c, "shutdown")
       \/ At(c, "output") /\ VaultReads(c, "job_reject")
    /\ Ends(c, TakenUp(net[c]))
    /\ UNCHANGED <<worker, told, vault, sent, got>>

\* Mutant of ServeTimesOut: the session's deadline is not the connection's.
ServeTimesOutAccept(c) ==
    /\ At(c, "reply")
    /\ Ends(c, net[c])
    /\ UNCHANGED <<worker, told, vault, sent, got>>

\* The session's deadline.
ServeTimesOut(c) ==
    /\ At(c, "reply") \/ At(c, "output")
    /\ Ends(c, net[c])
    /\ UNCHANGED <<worker, told, vault, sent, got>>

ServeReadError(c) ==
    /\ At(c, "reply") \/ At(c, "output")
    /\ VaultReadFails(net[c])
    /\ Ends(c, net[c])
    /\ UNCHANGED <<worker, told, vault, sent, got>>

\* Stages 6 to 9.
Judge(c) ==
    /\ At(c, "judge")
    /\ Ends(c, net[c])
    /\ UNCHANGED <<worker, told, vault, sent, got>>

\* SIGTERM: the listener and every connection are closed.
StopVault ==
    /\ vault = "up"
    /\ vault' = "stopping"
    /\ net' = [c \in Conns |-> IF net[c].v THEN VaultCloses(net[c]) ELSE net[c]]
    /\ UNCHANGED <<worker, told, sess, job, sent, got>>

\* Run returns once every session has.
VaultStops ==
    /\ vault = "stopping" /\ \A c \in Conns : sess[c] = NoSession
    /\ vault' = "down"
    /\ UNCHANGED <<worker, told, net, sess, job, sent, got>>

StartVault ==
    /\ vault = "down"
    /\ vault' = "up"
    /\ UNCHANGED <<worker, told, net, sess, job, sent, got>>

-----------------------------------------------------------------------------
Submit(j) ==
    /\ job[j] = None /\ vault = "up"
    /\ job' = [job EXCEPT ![j] = "queued"]
    /\ UNCHANGED <<worker, told, vault, net, sess, sent, got>>

\* What is under way is lost, and what is sent from now on.
Cut(c) ==
    /\ net[c].w /\ net[c].v /\ ~net[c].cut
    /\ net' = [net EXCEPT ![c] = [@ EXCEPT !.cut = TRUE, !.up = <<>>,
                                           !.down = <<>>]]
    /\ UNCHANGED <<worker, told, vault, sess, job, sent, got>>

Init ==
    /\ worker = Idle /\ told = FALSE /\ vault = "up"
    /\ net = [c \in Conns |-> Free]
    /\ sess = [c \in Conns |-> NoSession]
    /\ job = [j \in Jobs |-> None]
    /\ sent = [c \in Conns |-> None] /\ got = [c \in Conns |-> None]

\* What the worker does with what it reads.
WorkerStep ==
    \/ ReadHelloServer \/ ReadSessionReady \/ ReadEnd \/ AcceptJob \/ RejectJob
    \/ Produce \/ ReconstructFails \/ SignFails \/ WorkerReadError

\* What a session does by itself, with what it reads and what the queue has.
SessionStep(c) ==
    \/ TakeSlot(c) \/ Busy(c) \/ ReadHelloClient(c) \/ ReadAttestClient(c)
    \/ Dispatch(c) \/ FlowEnds(c) \/ ReadAccept(c)
    \/ ReadReject(c) \/ ReadOutput(c) \/ RefuseOutput(c) \/ ReadUnexpected(c)
    \/ Judge(c)

\* Its deadlines.
SessionTimer(c) == HandshakeFails(c) \/ NoWork(c) \/ ServeTimesOut(c)

Next ==
    \/ \E c \in Conns, w, v \in BOOLEAN : Dial(c, w, v)
    \/ DialTimesOut
    \/ WorkerStep \/ WorkerTimesOut
    \/ StopWorker \/ WorkerDies \/ StartWorker
    \/ \E c \in Conns : SessionStep(c)
    \/ \E c \in Conns : SessionTimer(c)
    \/ \E c \in Conns : ServeReadError(c)
    \/ \E c \in Conns, j \in Jobs : TakeJob(c, j)
    \/ \E c \in Conns, j \in Jobs : AttestAgain(c, j)
    \/ StopVault \/ VaultStops \/ StartVault
    \/ \E j \in Jobs : Submit(j)
    \/ \E c \in Conns : Cut(c)

Spec == Init /\ [][Next]_vars

\* Both daemons run, and their deadlines pass.  That a read notices a peer
\* that is gone is not assumed.
FairSpec ==
    /\ Spec
    /\ WF_vars(WorkerTimesOut)
    /\ \A c \in Conns : WF_vars(SessionStep(c)) /\ WF_vars(SessionTimer(c))

-----------------------------------------------------------------------------
Words == {None, "job_reject", "candidate_output"}

TypeOK ==
    /\ worker.pc \in {"idle", "off", "hello", "ready", "await", "work"}
    /\ worker.conn \in Conns \cup {None}
    /\ (worker.conn = None) <=> worker.pc \in {"idle", "off"}
    /\ told \in BOOLEAN /\ vault \in {"up", "stopping", "down"}
    /\ \A c \in Conns :
          /\ sess[c].pc \in {None, "accepted", "hello", "attest", "next", "flow",
                             "reply", "output", "judge"}
          /\ Len(net[c].up) <= 3 /\ Len(net[c].down) <= 3
    /\ job \in [Jobs -> {None, "queued", "taken"}]
    /\ sent \in [Conns -> Words] /\ got \in [Conns -> Words]

(* A job that was taken from the queue is in exactly one session, and a     *)
(* session holds none that is not taken: none of serveOne's returns leaves  *)
(* a job behind (abortJob, Requeue, CompleteGated on every path).           *)
TakenIsHeld ==
    \A j \in Jobs :
        Cardinality({c \in Conns : sess[c].job = j})
            = IF job[j] = "taken" THEN 1 ELSE 0

(* What the vault made of a job is what the worker said: an output it       *)
(* judges was sent as one, a refusal it reports was one, through cuts,      *)
(* timeouts and restarts of either end (ServeOneJob on both sides).         *)
VaultHearsTheWorker ==
    \A c \in Conns : got[c] # None => got[c] = sent[c]

(* Nobody waits for ever: every session of the vault ends, and its slot is  *)
(* free again, whatever became of the worker; and the worker is never       *)
(* caught in a session, it dials again or has left (SetDeadline, the        *)
(* contexts of serveOne and runOnce).                                       *)
EverySessionEnds ==
    /\ \A c \in Conns : sess[c] # NoSession ~> sess[c] = NoSession
    /\ worker.conn # None ~> worker.conn = None

(* "Run returns nil when ctx is cancelled (graceful shutdown) ... every     *)
(* wire-level failure loops" (cmd/acp-compute/daemon.go): a worker that was *)
(* not told to stop goes on.                                                *)
WorkerGoesOn == In("off") => told
=============================================================================
