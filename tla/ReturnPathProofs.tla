-------------------------- MODULE ReturnPathProofs --------------------------
(***************************************************************************)
(* Proofs about ReturnPath, for any number of connections, jobs and        *)
(* session slots and any pattern of cuts, timeouts, deaths and restarts.   *)
(*                                                                         *)
(* TakenIsHeld rests on which steps of a session hold a job, and on two    *)
(* sessions never holding the same one.  VaultHearsTheWorker rests on what *)
(* is under way: a reject or an output on its way up is the one word the   *)
(* worker said on that connection, and while the worker is still on a      *)
(* connection it has said none, so a word never changes once it is said    *)
(* and a name of a connection is used again only with nothing under way.   *)
(*                                                                         *)
(* The second half proves Attestation, what a session's side admits its    *)
(* peer on; the two components share no variable.                          *)
(***************************************************************************)
EXTENDS ReturnPath, Attestation, FiniteSetTheorems, TLAPS

-----------------------------------------------------------------------------
(* Sessions and the jobs they hold.                                         *)

Holding == {"flow", "reply", "output", "judge"}
SessPcs == {None, "accepted", "hello", "attest", "next"} \cup Holding

Sessions ==
    /\ sess \in [Conns -> [pc : SessPcs, job : Jobs \cup {None}]]
    /\ job \in [Jobs -> {None, "queued", "taken"}]

(* A session holds a job in the steps after it took one and in no other.    *)
HoldsInStep == \A c \in Conns : sess[c].job # None <=> sess[c].pc \in Holding

HeldIsTaken == \A c \in Conns : sess[c].job # None => job[sess[c].job] = "taken"
TakenHasSession == \A j \in Jobs : job[j] = "taken" => \E c \in Conns : sess[c].job = j
HeldByOne == \A c, d \in Conns : sess[c].job # None /\ sess[c].job = sess[d].job => c = d

HeldInv == Sessions /\ HoldsInStep /\ HeldIsTaken /\ TakenHasSession /\ HeldByOne

LEMMA HeldIsCounted == HeldInv => TakenIsHeld
<1> SUFFICES ASSUME HeldInv, NEW j \in Jobs
             PROVE  Cardinality({c \in Conns : sess[c].job = j})
                       = IF job[j] = "taken" THEN 1 ELSE 0
  BY DEF TakenIsHeld
<1>1. CASE job[j] = "taken"
  <2> PICK c \in Conns : sess[c].job = j
    BY <1>1 DEF HeldInv, TakenHasSession
  <2>1. {d \in Conns : sess[d].job = j} = {c}
    BY NoneAssumption DEF HeldInv, HeldByOne
  <2> QED BY <1>1, <2>1, FS_Singleton
<1>2. CASE job[j] # "taken"
  <2>1. {d \in Conns : sess[d].job = j} = {}
    BY <1>2, NoneAssumption DEF HeldInv, HeldIsTaken
  <2> QED BY <1>2, <2>1, FS_EmptySet
<1> QED BY <1>1, <1>2

LEMMA InitHeld == Init => HeldInv
BY DEF Init, HeldInv, Sessions, HoldsInStep, HeldIsTaken, TakenHasSession, HeldByOne,
       NoSession, SessPcs, Holding, None

(* A session moves on without taking a job or letting one go.               *)
LEMMA SessionMoves ==
    ASSUME HeldInv, NEW c \in Conns, NEW pc \in SessPcs, Goes(c, pc), job' = job,
           pc \in Holding <=> sess[c].pc \in Holding
    PROVE  HeldInv'
<1> DEFINE x == [sess[c] EXCEPT !.pc = pc]
<1>1. x \in [pc : SessPcs, job : Jobs \cup {None}] /\ x.job = sess[c].job /\ x.pc = pc
  BY DEF HeldInv, Sessions
<1>2. sess' = [sess EXCEPT ![c] = x]
  BY DEF Goes, HeldInv, Sessions
<1> HIDE DEF x
<1>3. sess'[c] = x /\ \A d \in Conns : d # c => sess'[d] = sess[d]
  BY <1>2 DEF HeldInv, Sessions
<1>4. \A d \in Conns : sess'[d].job = sess[d].job
  BY <1>1, <1>3
<1>5. Sessions'
  BY <1>1, <1>2 DEF HeldInv, Sessions
<1>6. HoldsInStep'
  BY <1>1, <1>3 DEF HeldInv, HoldsInStep
<1>7. HeldIsTaken' /\ TakenHasSession' /\ HeldByOne'
  BY <1>4 DEF HeldInv, HeldIsTaken, TakenHasSession, HeldByOne
<1> QED BY <1>5, <1>6, <1>7 DEF HeldInv

(* A session that holds no job ends.                                        *)
LEMMA SessionEnds ==
    ASSUME HeldInv, NEW c \in Conns, sess' = [sess EXCEPT ![c] = NoSession], job' = job,
           sess[c].pc \notin Holding
    PROVE  HeldInv'
<1>1. sess'[c] = NoSession /\ \A d \in Conns : d # c => sess'[d] = sess[d]
  BY DEF HeldInv, Sessions
<1>2. sess[c].job = None /\ NoSession.job = None /\ NoSession.pc = None
      /\ NoSession \in [pc : SessPcs, job : Jobs \cup {None}] /\ None \notin Holding
  BY DEF HeldInv, HoldsInStep, NoSession, SessPcs, Holding, None
<1>3. \A d \in Conns : sess'[d].job = sess[d].job
  BY <1>1, <1>2
<1>4. Sessions'
  BY <1>2 DEF HeldInv, Sessions
<1>5. HoldsInStep'
  BY <1>1, <1>2 DEF HeldInv, HoldsInStep
<1>6. HeldIsTaken' /\ TakenHasSession' /\ HeldByOne'
  BY <1>3 DEF HeldInv, HeldIsTaken, TakenHasSession, HeldByOne
<1> QED BY <1>4, <1>5, <1>6 DEF HeldInv

(* A session ends with its job.                                             *)
LEMMA JobEnds ==
    ASSUME HeldInv, NEW c \in Conns, NEW n, Ends(c, n), sess[c].pc \in Holding
    PROVE  HeldInv'
<1> PICK j : j = sess[c].job
  OBVIOUS
<1>1. j # None /\ j \in Jobs
  BY DEF HeldInv, HoldsInStep, Sessions
<1>2. sess' = [sess EXCEPT ![c] = NoSession] /\ job' = [job EXCEPT ![j] = None]
  BY DEF Ends, EndSession
<1>3. /\ sess'[c] = NoSession /\ \A d \in Conns : d # c => sess'[d] = sess[d]
      /\ job'[j] = None /\ \A k \in Jobs : k # j => job'[k] = job[k]
  BY <1>1, <1>2 DEF HeldInv, Sessions
<1>4. NoSession.job = None /\ NoSession.pc = None /\ None # "taken"
      /\ NoSession \in [pc : SessPcs, job : Jobs \cup {None}] /\ None \notin Holding
  BY DEF NoSession, SessPcs, Holding, None
<1>5. \A d \in Conns : d # c => sess[d].job # j
  BY <1>1 DEF HeldInv, HeldByOne
<1>6. Sessions'
  BY <1>1, <1>2, <1>4 DEF HeldInv, Sessions
<1>7. HoldsInStep'
  BY <1>3, <1>4 DEF HeldInv, HoldsInStep
<1>8. HeldIsTaken'
  <2> SUFFICES ASSUME NEW d \in Conns, sess'[d].job # None
               PROVE  job'[sess'[d].job] = "taken"
    BY DEF HeldIsTaken
  <2>1. d # c /\ sess'[d] = sess[d] /\ sess[d].job # j /\ sess[d].job \in Jobs
    BY <1>3, <1>4, <1>5 DEF HeldInv, Sessions
  <2> QED BY <1>3, <2>1 DEF HeldInv, HeldIsTaken
<1>9. TakenHasSession'
  <2> SUFFICES ASSUME NEW k \in Jobs, job'[k] = "taken"
               PROVE  \E d \in Conns : sess'[d].job = k
    BY DEF TakenHasSession
  <2>1. k # j /\ job[k] = "taken"
    BY <1>3, <1>4
  <2> PICK d \in Conns : sess[d].job = k
    BY <2>1 DEF HeldInv, TakenHasSession
  <2> QED BY <1>3, <2>1
<1>10. HeldByOne'
  BY <1>3, <1>4 DEF HeldInv, HeldByOne
<1> QED BY <1>6, <1>7, <1>8, <1>9, <1>10 DEF HeldInv

LEMMA TakeJobHeld ==
    ASSUME HeldInv, NEW c \in Conns, NEW j \in Jobs, TakeJob(c, j)
    PROVE  HeldInv'
<1> DEFINE x == [pc |-> "flow", job |-> j]
<1>1. /\ sess' = [sess EXCEPT ![c] = x] /\ job' = [job EXCEPT ![j] = "taken"]
      /\ sess[c].pc = "next" /\ job[j] = "queued"
  BY DEF TakeJob, At
<1>2. x.job = j /\ x.pc = "flow" /\ x \in [pc : SessPcs, job : Jobs \cup {None}] /\ "flow" \in Holding
  BY DEF SessPcs, Holding
<1> HIDE DEF x
<1>3. /\ sess'[c] = x /\ \A d \in Conns : d # c => sess'[d] = sess[d]
      /\ job'[j] = "taken" /\ \A k \in Jobs : k # j => job'[k] = job[k]
  BY <1>1 DEF HeldInv, Sessions
<1>4. sess[c].job = None
  BY <1>1 DEF HeldInv, HoldsInStep, Holding
<1>5. \A d \in Conns : sess[d].job # j
  BY <1>1, NoneAssumption DEF HeldInv, HeldIsTaken
<1>6. Sessions'
  BY <1>1, <1>2 DEF HeldInv, Sessions
<1>7. HoldsInStep'
  BY <1>2, <1>3, NoneAssumption DEF HeldInv, HoldsInStep
<1>8. HeldIsTaken'
  BY <1>2, <1>3, <1>5, NoneAssumption DEF HeldInv, HeldIsTaken, Sessions
<1>9. TakenHasSession'
  <2> SUFFICES ASSUME NEW k \in Jobs, job'[k] = "taken"
               PROVE  \E d \in Conns : sess'[d].job = k
    BY DEF TakenHasSession
  <2>1. CASE k = j
    BY <1>2, <1>3, <2>1
  <2>2. CASE k # j
    <3> PICK d \in Conns : sess[d].job = k
      BY <1>3, <2>2 DEF HeldInv, TakenHasSession
    <3>1. d # c
      BY <1>4, NoneAssumption
    <3> QED BY <1>3, <3>1
  <2> QED BY <2>1, <2>2
<1>10. HeldByOne'
  BY <1>2, <1>3, <1>5 DEF HeldInv, HeldByOne
<1> QED BY <1>6, <1>7, <1>8, <1>9, <1>10 DEF HeldInv

(* A job that nobody has taken is queued.                                   *)
LEMMA SubmitHeld ==
    ASSUME HeldInv, NEW j \in Jobs, Submit(j) PROVE HeldInv'
<1>1. sess' = sess /\ job' = [job EXCEPT ![j] = "queued"] /\ job[j] = None
  BY DEF Submit
<1>2. job'[j] = "queued" /\ \A k \in Jobs : k # j => job'[k] = job[k]
  BY <1>1 DEF HeldInv, Sessions
<1>3. \A c \in Conns : sess[c].job # j
  BY <1>1, NoneAssumption DEF HeldInv, HeldIsTaken, None
<1>4. Sessions'
  BY <1>1 DEF HeldInv, Sessions
<1>5. HeldIsTaken' /\ TakenHasSession'
  BY <1>1, <1>2, <1>3 DEF HeldInv, HeldIsTaken, TakenHasSession, Sessions
<1>6. HoldsInStep' /\ HeldByOne'
  BY <1>1 DEF HeldInv, HoldsInStep, HeldByOne
<1> QED BY <1>4, <1>5, <1>6 DEF HeldInv

LEMMA StutterHeld == ASSUME HeldInv, UNCHANGED <<sess, job>> PROVE HeldInv'
BY DEF HeldInv, Sessions, HoldsInStep, HeldIsTaken, TakenHasSession, HeldByOne

LEMMA SessionStepHeld ==
    ASSUME HeldInv, NEW c \in Conns, SessionStep(c) PROVE HeldInv'
<1>1. CASE TakeSlot(c)
  <2>1. /\ Goes(c, "hello") /\ job' = job /\ "hello" \in SessPcs
        /\ sess[c].pc \notin Holding /\ "hello" \notin Holding
    BY <1>1 DEF TakeSlot, At, SessPcs, Holding
  <2> QED BY <2>1, SessionMoves
<1>2. CASE Busy(c)
  BY <1>2, SessionEnds DEF Busy, EndSession, At, Holding
<1>3. CASE ReadHelloClient(c)
  <2>1. "attest" \in SessPcs /\ "attest" \notin Holding /\ sess[c].pc \notin Holding
        /\ job' = job
    BY <1>3 DEF ReadHelloClient, At, SessPcs, Holding
  <2>2. CASE Goes(c, "attest")
    BY <2>1, <2>2, SessionMoves
  <2>3. CASE sess' = [sess EXCEPT ![c] = NoSession]
    BY <2>1, <2>3, SessionEnds
  <2> QED BY <1>3, <2>2, <2>3 DEF ReadHelloClient, EndSession
<1>4. CASE ReadAttestClient(c)
  <2>1. "next" \in SessPcs /\ "next" \notin Holding /\ sess[c].pc \notin Holding
        /\ job' = job
    BY <1>4 DEF ReadAttestClient, At, SessPcs, Holding
  <2>2. CASE Goes(c, "next")
    BY <2>1, <2>2, SessionMoves
  <2>3. CASE sess' = [sess EXCEPT ![c] = NoSession]
    BY <2>1, <2>3, SessionEnds
  <2> QED BY <1>4, <2>2, <2>3 DEF ReadAttestClient, EndSession
<1>5. CASE Dispatch(c)
  <2>1. /\ Goes(c, "reply") /\ job' = job /\ "reply" \in SessPcs
        /\ sess[c].pc \in Holding /\ "reply" \in Holding
    BY <1>5 DEF Dispatch, At, SessPcs, Holding
  <2> QED BY <2>1, SessionMoves
<1>6. CASE ReadAccept(c)
  <2>1. /\ Goes(c, "output") /\ job' = job /\ "output" \in SessPcs
        /\ sess[c].pc \in Holding /\ "output" \in Holding
    BY <1>6 DEF ReadAccept, At, SessPcs, Holding
  <2> QED BY <2>1, SessionMoves
<1>7. CASE ReadOutput(c)
  <2>1. /\ Goes(c, "judge") /\ job' = job /\ "judge" \in SessPcs
        /\ sess[c].pc \in Holding /\ "judge" \in Holding
    BY <1>7 DEF ReadOutput, At, SessPcs, Holding
  <2> QED BY <2>1, SessionMoves
<1>8. CASE FlowEnds(c) \/ ReadReject(c) \/ RefuseOutput(c) \/ ReadUnexpected(c) \/ Judge(c)
  BY <1>8, JobEnds DEF FlowEnds, ReadReject, RefuseOutput, ReadUnexpected, Judge, At, Holding
<1> QED BY <1>1, <1>2, <1>3, <1>4, <1>5, <1>6, <1>7, <1>8 DEF SessionStep

LEMMA NextHeld == HeldInv /\ [Next]_vars => HeldInv'
<1> SUFFICES ASSUME HeldInv, [Next]_vars PROVE HeldInv'
  OBVIOUS
<1>1. CASE \E c \in Conns, w, v \in BOOLEAN : Dial(c, w, v)
  <2> PICK c \in Conns, w \in BOOLEAN, v \in BOOLEAN : Dial(c, w, v)
    BY <1>1
  <2>1. /\ Goes(c, "accepted") /\ job' = job /\ "accepted" \in SessPcs
        /\ "accepted" \notin Holding /\ sess[c].pc \notin Holding
    BY DEF Dial, Goes, NoSession, SessPcs, Holding, None
  <2> QED BY <2>1, SessionMoves
<1>2. CASE UNCHANGED <<sess, job>>
  BY <1>2, StutterHeld
<1>3. CASE \E c \in Conns : SessionStep(c)
  BY <1>3, SessionStepHeld
<1>4. CASE \E c \in Conns : HandshakeFails(c) \/ NoWork(c)
  BY <1>4, SessionEnds DEF HandshakeFails, NoWork, EndSession, At, Holding
<1>5. CASE \E c \in Conns : ServeTimesOut(c) \/ ServeReadError(c)
  BY <1>5, JobEnds DEF ServeTimesOut, ServeReadError, At, Holding
<1>6. CASE \E c \in Conns, j \in Jobs : TakeJob(c, j)
  BY <1>6, TakeJobHeld
<1>7. CASE \E c \in Conns, j \in Jobs : AttestAgain(c, j)
  BY <1>7, SessionEnds DEF AttestAgain, EndSession, At, Holding
<1>8. CASE \E j \in Jobs : Submit(j)
  BY <1>8, SubmitHeld
<1>9. CASE WorkerStep \/ DialTimesOut \/ WorkerTimesOut \/ StopWorker \/ WorkerDies
             \/ StartWorker \/ StopVault \/ VaultStops \/ StartVault
             \/ \E c \in Conns : Cut(c)
  <2>1. UNCHANGED <<sess, job>>
    BY <1>9 DEF WorkerStep, ReadHelloServer, ReadSessionReady, ReadEnd, AcceptJob,
         RejectJob, Produce, ReconstructFails, SignFails, WorkerReadError, DialTimesOut,
         WorkerTimesOut, StopWorker, WorkerDies, StartWorker, StopVault, VaultStops,
         StartVault, Cut
  <2> QED BY <2>1, StutterHeld
<1> QED BY <1>1, <1>2, <1>3, <1>4, <1>5, <1>6, <1>7, <1>8, <1>9
        DEF Next, SessionTimer, vars

LEMMA HeldInvariant == Spec => []HeldInv
BY InitHeld, NextHeld, PTL DEF Spec

(* A job taken from the queue is in exactly one session, and a session      *)
(* holds none that is not taken: no return of serveOne, and no cut, timeout *)
(* or stop, leaves a job behind.                                            *)
THEOREM TakenJobsAreHeld == Spec => []TakenIsHeld
BY HeldInvariant, HeldIsCounted, PTL

-----------------------------------------------------------------------------
(* What is under way on a connection.                                       *)

Said == {"job_reject", "candidate_output"}
UpTypes == {"hello_client", "attest_client", "job_accept", "error", "shutdown"} \cup Said
UpFrames == [type : UpTypes]
DownFrames == [type : {"hello_server", "session_ready", "error", "shutdown"}]
                \cup [type : {"job_request"}, job : Jobs \cup {None}]
Links == [up : Seq(UpFrames), down : Seq(DownFrames), w : BOOLEAN, v : BOOLEAN,
          cut : BOOLEAN, wOk : BOOLEAN, vOk : BOOLEAN]

(* Of the frames fs, those that answer a job say word.                      *)
Say(fs, word) == \A i \in DOMAIN fs : fs[i].type \in Said => fs[i].type = word

(* Connection n carries, of the worker's answers, only word.                *)
Carries(n, word) == n \in Links /\ Say(n.up, word)

(* A link with its two queues and its ends replaced.                        *)
LEMMA LinkUpdates ==
    ASSUME NEW n \in Links, NEW up \in Seq(UpFrames), NEW down \in Seq(DownFrames)
    PROVE  /\ [n EXCEPT !.up = up] \in Links /\ [n EXCEPT !.up = up].up = up
           /\ [n EXCEPT !.down = down] \in Links /\ [n EXCEPT !.down = down].up = n.up
           /\ [n EXCEPT !.w = FALSE, !.down = down] \in Links
           /\ [n EXCEPT !.w = FALSE, !.down = down].up = n.up
           /\ [n EXCEPT !.v = FALSE, !.up = up] \in Links
           /\ [n EXCEPT !.v = FALSE, !.up = up].up = up
           /\ [n EXCEPT !.cut = TRUE] \in Links /\ [n EXCEPT !.cut = TRUE].up = n.up
           /\ [n EXCEPT !.cut = TRUE, !.up = up, !.down = down] \in Links
           /\ [n EXCEPT !.cut = TRUE, !.up = up, !.down = down].up = up
           /\ n.up \in Seq(UpFrames) /\ n.down \in Seq(DownFrames)
BY DEF Links

LEMMA EmptyQueues ==
    /\ <<>> \in Seq(UpFrames) /\ <<>> \in Seq(DownFrames)
    /\ \A word : Say(<<>>, word)
BY DEF Say

LEMMA FreeCarries == \A word : Carries(Free, word)
BY EmptyQueues DEF Carries, Free, Links

LEMMA SayConcat ==
    ASSUME NEW s \in Seq(UpFrames), NEW t \in Seq(UpFrames), NEW word,
           Say(s, word), Say(t, word)
    PROVE  s \o t \in Seq(UpFrames) /\ Say(s \o t, word)
<1>1. s \o t \in Seq(UpFrames) /\ Len(s \o t) = Len(s) + Len(t)
      /\ \A i \in 1..(Len(s) + Len(t)) :
            (s \o t)[i] = IF i <= Len(s) THEN s[i] ELSE t[i - Len(s)]
  OBVIOUS
<1> SUFFICES ASSUME NEW i \in 1..(Len(s) + Len(t)), (s \o t)[i].type \in Said
             PROVE  (s \o t)[i].type = word
  BY <1>1 DEF Say
<1>2. CASE i <= Len(s)
  <2>1. (s \o t)[i] = s[i] /\ i \in DOMAIN s
    BY <1>1, <1>2
  <2> QED BY <2>1 DEF Say
<1>3. CASE ~(i <= Len(s))
  <2>1. (s \o t)[i] = t[i - Len(s)] /\ i - Len(s) \in DOMAIN t
    BY <1>1, <1>3
  <2> QED BY <2>1 DEF Say
<1> QED BY <1>2, <1>3

LEMMA SayTail ==
    ASSUME NEW s \in Seq(UpFrames), s # <<>>, NEW word, Say(s, word)
    PROVE  Tail(s) \in Seq(UpFrames) /\ Say(Tail(s), word)
<1>1. Tail(s) \in Seq(UpFrames) /\ \A i \in DOMAIN Tail(s) : Tail(s)[i] = s[i + 1] /\ i + 1 \in DOMAIN s
  OBVIOUS
<1> QED BY <1>1 DEF Say

LEMMA ToVaultCarries ==
    ASSUME NEW n, NEW word, Carries(n, word), NEW fs \in Seq(UpFrames), Say(fs, word)
    PROVE  Carries(ToVault(n, fs), word)
<1>1. n \in Links /\ n.up \in Seq(UpFrames) /\ Say(n.up, word) /\ n.down \in Seq(DownFrames)
  BY LinkUpdates, EmptyQueues DEF Carries
<1>2. n.up \o fs \in Seq(UpFrames) /\ Say(n.up \o fs, word)
  BY <1>1, SayConcat
<1> PICK up : up = n.up \o fs
  OBVIOUS
<1>3. [n EXCEPT !.up = up] \in Links /\ [n EXCEPT !.up = up].up = up
  BY <1>1, <1>2 DEF Links
<1>4. ToVault(n, fs) = n \/ ToVault(n, fs) = [n EXCEPT !.up = up]
  BY DEF ToVault
<1> QED BY <1>2, <1>3, <1>4 DEF Carries

LEMMA ToWorkerCarries ==
    ASSUME NEW n, NEW word, Carries(n, word), NEW fs \in Seq(DownFrames)
    PROVE  Carries(ToWorker(n, fs), word)
<1>1. n \in Links /\ n.up \in Seq(UpFrames) /\ Say(n.up, word) /\ n.down \in Seq(DownFrames)
  BY LinkUpdates, EmptyQueues DEF Carries
<1> PICK down : down = n.down \o fs
  OBVIOUS
<1>2. down \in Seq(DownFrames)
  BY <1>1
<1>3. [n EXCEPT !.down = down] \in Links /\ [n EXCEPT !.down = down].up = n.up
  BY <1>1, <1>2, LinkUpdates
<1>4. ToWorker(n, fs) = n \/ ToWorker(n, fs) = [n EXCEPT !.down = down]
  BY DEF ToWorker
<1> QED BY <1>1, <1>3, <1>4 DEF Carries

LEMMA ClosesCarry ==
    ASSUME NEW n, NEW word, Carries(n, word)
    PROVE  Carries(WorkerCloses(n), word) /\ Carries(VaultCloses(n), word)
<1>1. n \in Links /\ n.up \in Seq(UpFrames) /\ Say(n.up, word) /\ n.down \in Seq(DownFrames)
  BY LinkUpdates, EmptyQueues DEF Carries
<1>2. /\ [n EXCEPT !.w = FALSE, !.down = <<>>] \in Links
      /\ [n EXCEPT !.w = FALSE, !.down = <<>>].up = n.up
      /\ [n EXCEPT !.v = FALSE, !.up = <<>>] \in Links
      /\ [n EXCEPT !.v = FALSE, !.up = <<>>].up = <<>>
  BY <1>1, LinkUpdates, EmptyQueues
<1>3. Carries(WorkerCloses(n), word)
  BY <1>1, <1>2, FreeCarries DEF WorkerCloses, Carries
<1>4. Carries(VaultCloses(n), word)
  BY <1>2, EmptyQueues, FreeCarries DEF VaultCloses, Carries
<1> QED BY <1>3, <1>4

LEMMA CutCarries ==
    ASSUME NEW n, NEW word, Carries(n, word)
    PROVE  /\ Carries([n EXCEPT !.cut = TRUE], word)
           /\ Carries([n EXCEPT !.cut = TRUE, !.up = <<>>, !.down = <<>>], word)
<1>1. n \in Links /\ Say(n.up, word)
  BY DEF Carries
<1>2. [n EXCEPT !.cut = TRUE] \in Links /\ [n EXCEPT !.cut = TRUE].up = n.up
  BY <1>1 DEF Links
<1>3. /\ [n EXCEPT !.cut = TRUE, !.up = <<>>, !.down = <<>>] \in Links
      /\ [n EXCEPT !.cut = TRUE, !.up = <<>>, !.down = <<>>].up = <<>>
  BY <1>1, EmptyQueues DEF Links
<1> QED BY <1>1, <1>2, <1>3, EmptyQueues DEF Carries

LEMMA TakenCarries ==
    ASSUME NEW n, NEW word, Carries(n, word)
    PROVE  /\ n.up # <<>> => Carries(TakenUp(n), word)
           /\ n.down # <<>> => Carries(TakenDown(n), word)
<1>1. n \in Links /\ n.up \in Seq(UpFrames) /\ Say(n.up, word) /\ n.down \in Seq(DownFrames)
  BY LinkUpdates, EmptyQueues DEF Carries
<1>2. ASSUME n.up # <<>> PROVE Carries(TakenUp(n), word)
  <2> PICK up : up = Tail(n.up)
    OBVIOUS
  <2>1. up \in Seq(UpFrames) /\ Say(up, word)
    BY <1>1, <1>2, SayTail
  <2>2. [n EXCEPT !.up = up] \in Links /\ [n EXCEPT !.up = up].up = up
    BY <1>1, <2>1 DEF Links
  <2>3. TakenUp(n) = [n EXCEPT !.up = up]
    BY DEF TakenUp
  <2> QED BY <2>1, <2>2, <2>3 DEF Carries
<1>3. ASSUME n.down # <<>> PROVE Carries(TakenDown(n), word)
  <2> PICK down : down = Tail(n.down)
    OBVIOUS
  <2>1. down \in Seq(DownFrames)
    BY <1>1, <1>3
  <2>2. [n EXCEPT !.down = down] \in Links /\ [n EXCEPT !.down = down].up = n.up
    BY <1>1, <2>1, LinkUpdates
  <2>3. TakenDown(n) = [n EXCEPT !.down = down]
    BY DEF TakenDown
  <2> QED BY <1>1, <2>2, <2>3 DEF Carries
<1> QED BY <1>2, <1>3

(* Where nothing was said, anything may be said.                            *)
LEMMA SilentCarries ==
    ASSUME NEW n, Carries(n, None) PROVE \A word : Carries(n, word)
BY DEF Carries, Say, Said, None

(* What the vault reads is the worker's word.                               *)
LEMMA HeadIsWord ==
    ASSUME NEW n, NEW word, Carries(n, word), n.up # <<>>, Head(n.up).type \in Said
    PROVE  Head(n.up).type = word
<1>1. n.up \in Seq(UpFrames) /\ Say(n.up, word)
  BY LinkUpdates, EmptyQueues DEF Carries
<1>2. Head(n.up) = n.up[1] /\ 1 \in DOMAIN n.up
  BY <1>1
<1> QED BY <1>1, <1>2 DEF Say

-----------------------------------------------------------------------------
(* The worker, its words, and what the vault heard.                         *)

Active == {"hello", "ready", "await", "work"}
Workers == {Idle, Off} \cup [pc : Active, conn : Conns]

HeardInv ==
    /\ worker \in Workers /\ net \in [Conns -> Links]
    /\ sent \in [Conns -> Words] /\ got \in [Conns -> Words]
    /\ \A c \in Conns : Carries(net[c], sent[c])
    /\ \A c \in Conns : worker.conn = c => sent[c] = None
    /\ VaultHearsTheWorker

LEMMA InitHeard == Init => HeardInv
<1> SUFFICES ASSUME Init PROVE HeardInv
  OBVIOUS
<1>1. Free \in Links
  BY FreeCarries DEF Carries
<1> QED BY <1>1, FreeCarries, NoneAssumption
        DEF Init, HeardInv, Workers, Idle, Words, VaultHearsTheWorker

(* The vault reads from a connection, writes to it or closes it.            *)
LEMMA VaultActs ==
    ASSUME HeardInv, NEW c \in Conns, NEW n, Carries(n, sent[c]),
           net' = [net EXCEPT ![c] = n], UNCHANGED <<worker, sent>>,
           got' = got \/ got' = [got EXCEPT ![c] = sent[c]]
    PROVE  HeardInv'
<1>1. net' \in [Conns -> Links] /\ \A d \in Conns : Carries(net'[d], sent'[d])
  BY DEF HeardInv, Carries
<1>2. got' \in [Conns -> Words]
  BY DEF HeardInv
<1>3. VaultHearsTheWorker'
  BY DEF HeardInv, VaultHearsTheWorker
<1> QED BY <1>1, <1>2, <1>3 DEF HeardInv

(* The worker acts on its connection, and has said word if it leaves it.    *)
LEMMA WorkerActs ==
    ASSUME HeardInv, NEW c \in Conns, worker.conn = c, NEW word \in Words, NEW n,
           Carries(n, word), net' = [net EXCEPT ![c] = n],
           sent' = [sent EXCEPT ![c] = word], got' = got, worker' \in Workers,
           worker'.conn = None \/ (worker'.conn = c /\ word = None)
    PROVE  HeardInv'
<1>1. sent[c] = None /\ got[c] = None
  BY DEF HeardInv, VaultHearsTheWorker
<1>2. /\ sent' \in [Conns -> Words] /\ sent'[c] = word
      /\ \A d \in Conns : d # c => sent'[d] = sent[d]
  BY DEF HeardInv
<1>3. /\ net' \in [Conns -> Links] /\ net'[c] = n
      /\ \A d \in Conns : d # c => net'[d] = net[d]
  BY DEF HeardInv, Carries
<1>4. \A d \in Conns : Carries(net'[d], sent'[d])
  BY <1>2, <1>3 DEF HeardInv
<1>5. \A d \in Conns : worker'.conn = d => sent'[d] = None
  BY <1>2, NoneAssumption
<1>6. VaultHearsTheWorker'
  BY <1>1, <1>2 DEF HeardInv, VaultHearsTheWorker
<1> QED BY <1>2, <1>3, <1>4, <1>5, <1>6 DEF HeardInv

(* The frames each end writes.                                              *)
LEMMA FramesDown ==
    /\ <<Frame("hello_server")>> \in Seq(DownFrames)
    /\ <<Frame("session_ready")>> \in Seq(DownFrames)
    /\ <<Frame("error")>> \in Seq(DownFrames)
    /\ <<Frame("shutdown")>> \in Seq(DownFrames)
    /\ \A j \in Jobs \cup {None} : <<JobRequest(j)>> \in Seq(DownFrames)
<1>1. \A t \in {"hello_server", "session_ready", "error", "shutdown"} : Frame(t) \in DownFrames
  BY DEF Frame, DownFrames
<1>2. \A j \in Jobs \cup {None} : JobRequest(j) \in DownFrames
  BY DEF JobRequest, DownFrames
<1> HIDE DEF DownFrames
<1> QED BY <1>1, <1>2

LEMMA FrameIs == \A t \in UpTypes : Frame(t) \in UpFrames /\ Frame(t).type = t
BY DEF Frame, UpFrames

(* One frame up, or an answer and a shutdown.                               *)
LEMMA FramesUp ==
    /\ \A t \in UpTypes \ Said : \A word :
          <<Frame(t)>> \in Seq(UpFrames) /\ Say(<<Frame(t)>>, word)
    /\ \A t \in Said : /\ <<Frame(t), Frame("shutdown")>> \in Seq(UpFrames)
                       /\ Say(<<Frame(t), Frame("shutdown")>>, t)
<1>1. ASSUME NEW t \in UpTypes \ Said, NEW word
      PROVE  <<Frame(t)>> \in Seq(UpFrames) /\ Say(<<Frame(t)>>, word)
  BY FrameIs DEF Say
<1>2. ASSUME NEW t \in Said
      PROVE  /\ <<Frame(t), Frame("shutdown")>> \in Seq(UpFrames)
             /\ Say(<<Frame(t), Frame("shutdown")>>, t)
  <2>1. t \in UpTypes /\ "shutdown" \in UpTypes /\ "shutdown" \notin Said
    BY DEF UpTypes, Said
  <2>2. Frame(t) \in UpFrames /\ Frame("shutdown") \in UpFrames
        /\ Frame(t).type = t /\ Frame("shutdown").type = "shutdown"
    BY <2>1, FrameIs
  <2> QED BY <2>1, <2>2 DEF Say
<1> QED BY <1>1, <1>2

(* A session ends on a connection.                                          *)
LEMMA EndSessionHeard ==
    ASSUME HeardInv, NEW c \in Conns, NEW n, Carries(n, sent[c]),
           NEW fs \in Seq(DownFrames), EndSession(c, n, fs), UNCHANGED <<worker, sent>>,
           got' = got \/ got' = [got EXCEPT ![c] = sent[c]]
    PROVE  HeardInv'
<1> PICK m : m = VaultCloses(ToWorker(n, fs))
  OBVIOUS
<1>1. Carries(m, sent[c])
  BY ToWorkerCarries, ClosesCarry
<1>2. net' = [net EXCEPT ![c] = m]
  BY DEF EndSession
<1> QED BY <1>1, <1>2, VaultActs

(* A cycle of the worker ends with a word, or without one.                  *)
LEMMA EndCycleHeard ==
    ASSUME HeardInv, worker.pc \in Active, NEW n, Carries(n, None), NEW word \in Words,
           NEW fs \in Seq(UpFrames), Say(fs, word), NEW next \in {Idle, Off},
           EndCycle(n, fs, next), sent' = [sent EXCEPT ![C] = word], got' = got
    PROVE  HeardInv'
<1> PICK m : m = WorkerCloses(ToVault(n, fs))
  OBVIOUS
<1> PICK c : c = worker.conn
  OBVIOUS
<1>1. c \in Conns
  BY DEF HeardInv, Workers, Idle, Off, Active
<1>2. Carries(m, word)
  BY SilentCarries, ToVaultCarries, ClosesCarry
<1>3. net' = [net EXCEPT ![c] = m] /\ worker' = next /\ sent' = [sent EXCEPT ![c] = word]
  BY DEF EndCycle, C
<1>4. worker' \in Workers /\ worker'.conn = None
  BY <1>3 DEF Workers, Idle, Off
<1>5. worker.conn = c
  OBVIOUS
<1> QED BY <1>1, <1>2, <1>3, <1>4, <1>5, WorkerActs

LEMMA AfterCycleIs == \A err : AfterCycle(err) \in {Idle, Off}
BY DEF AfterCycle

(* What the worker's connection carries, and what it may read.              *)
LEMMA WorkersOwn ==
    ASSUME HeardInv, worker.pc \in Active
    PROVE  /\ C \in Conns /\ sent[C] = None /\ Carries(net[C], None)
           /\ sent = [sent EXCEPT ![C] = None]
           /\ \A t : WorkerReads(t) => Carries(TakenDown(net[C]), None)
<1>1. C \in Conns
  BY DEF HeardInv, Workers, Idle, Off, Active, C
<1>2. sent[C] = None /\ Carries(net[C], None)
  BY <1>1 DEF HeardInv, C
<1>3. sent = [sent EXCEPT ![C] = None]
  BY <1>1, <1>2 DEF HeardInv
<1>4. ASSUME NEW t, WorkerReads(t) PROVE Carries(TakenDown(net[C]), None)
  <2>1. net[C].down # <<>>
    BY <1>4 DEF WorkerReads, C
  <2> QED BY <1>2, <2>1, TakenCarries
<1> QED BY <1>1, <1>2, <1>3, <1>4

-----------------------------------------------------------------------------
(* The worker's steps.                                                      *)

(* The worker goes on with its connection, now m.                           *)
LEMMA WorkerCarriesOn ==
    ASSUME HeardInv, worker.pc \in Active, NEW m, Carries(m, None),
           worker' \in Workers, worker'.conn = C,
           net' = [net EXCEPT ![C] = m], UNCHANGED <<sent, got>>
    PROVE  HeardInv'
<1> PICK c : c = worker.conn
  OBVIOUS
<1>1. c \in Conns /\ sent = [sent EXCEPT ![c] = None] /\ None \in Words
  BY WorkersOwn DEF C, Words
<1>2. net' = [net EXCEPT ![c] = m] /\ worker'.conn = c
  BY DEF C
<1> QED BY <1>1, <1>2, WorkerActs

LEMMA WorkerAdvances ==
    ASSUME HeardInv, worker.pc \in Active
    PROVE  \A p \in Active : /\ [worker EXCEPT !.pc = p] \in Workers
                             /\ [worker EXCEPT !.pc = p].conn = C
BY DEF HeardInv, Workers, Idle, Off, Active, C

(* A cycle that ends without a word of the job.                             *)
LEMMA SilentEnd ==
    ASSUME HeardInv, worker.pc \in Active, NEW n, Carries(n, None),
           NEW fs \in Seq(UpFrames), Say(fs, None), NEW next \in {Idle, Off},
           EndCycle(n, fs, next), UNCHANGED <<sent, got>>
    PROVE  HeardInv'
<1>1. sent' = [sent EXCEPT ![C] = None] /\ None \in Words
  BY WorkersOwn DEF Words
<1> QED BY <1>1, EndCycleHeard

LEMMA UpWords ==
    /\ {"hello_client", "attest_client", "job_accept", "error", "shutdown"} \subseteq UpTypes \ Said
    /\ {"job_reject", "candidate_output"} = Said /\ Said \subseteq Words
BY DEF UpTypes, Said, Words

LEMMA WorkerStepHeard ==
    ASSUME HeardInv, WorkerStep \/ WorkerTimesOut PROVE HeardInv'
<1>1. CASE ReadHelloServer
  <2>1. worker.pc \in Active /\ "ready" \in Active /\ UNCHANGED <<sent, got>>
    BY <1>1 DEF ReadHelloServer, In, Active
  <2>2. Carries(TakenDown(net[C]), None)
    BY <1>1, <2>1, WorkersOwn DEF ReadHelloServer
  <2>3. CASE /\ worker' = [worker EXCEPT !.pc = "ready"]
             /\ net' = [net EXCEPT ![C] = ToVault(TakenDown(net[C]), <<Frame("attest_client")>>)]
    <3>1. Carries(ToVault(TakenDown(net[C]), <<Frame("attest_client")>>), None)
      BY <2>2, FramesUp, UpWords, ToVaultCarries
    <3>2. worker' \in Workers /\ worker'.conn = C
      BY <2>1, <2>3, WorkerAdvances
    <3> QED BY <2>1, <2>3, <3>1, <3>2, WorkerCarriesOn
  <2>4. CASE EndCycle(TakenDown(net[C]), <<Frame("error")>>, AfterCycle("refused"))
    BY <2>1, <2>2, <2>4, FramesUp, UpWords, AfterCycleIs, SilentEnd
  <2> QED BY <1>1, <2>3, <2>4 DEF ReadHelloServer
<1>2. CASE ReadSessionReady
  <2>1. worker.pc \in Active /\ "await" \in Active /\ UNCHANGED <<sent, got>>
    BY <1>2 DEF ReadSessionReady, In, Active
  <2>2. Carries(TakenDown(net[C]), None)
    BY <1>2, <2>1, WorkersOwn DEF ReadSessionReady
  <2>3. /\ worker' = [worker EXCEPT !.pc = "await"]
        /\ net' = [net EXCEPT ![C] = TakenDown(net[C])]
    BY <1>2 DEF ReadSessionReady
  <2>4. worker' \in Workers /\ worker'.conn = C
    BY <2>1, <2>3, WorkerAdvances
  <2> QED BY <2>1, <2>2, <2>3, <2>4, WorkerCarriesOn
<1>3. CASE ReadEnd
  <2>1. /\ worker.pc \in Active /\ UNCHANGED <<sent, got>>
        /\ EndCycle(TakenDown(net[C]), <<Frame("shutdown")>>, AfterCycle("ended"))
    BY <1>3 DEF ReadEnd, In, Active
  <2>2. Carries(TakenDown(net[C]), None)
    BY <1>3, <2>1, WorkersOwn DEF ReadEnd
  <2> QED BY <2>1, <2>2, FramesUp, UpWords, AfterCycleIs, SilentEnd
<1>4. CASE AcceptJob
  <2>1. /\ worker.pc \in Active /\ "work" \in Active /\ UNCHANGED <<sent, got>>
        /\ worker' = [worker EXCEPT !.pc = "work"]
        /\ net' = [net EXCEPT ![C] = ToVault(TakenDown(net[C]), <<Frame("job_accept")>>)]
    BY <1>4 DEF AcceptJob, In, Active
  <2>2. Carries(TakenDown(net[C]), None)
    BY <1>4, <2>1, WorkersOwn DEF AcceptJob
  <2>3. Carries(ToVault(TakenDown(net[C]), <<Frame("job_accept")>>), None)
    BY <2>2, FramesUp, UpWords, ToVaultCarries
  <2>4. worker' \in Workers /\ worker'.conn = C
    BY <2>1, WorkerAdvances
  <2> QED BY <2>1, <2>3, <2>4, WorkerCarriesOn
<1>5. CASE RejectJob
  <2>1. /\ worker.pc \in Active /\ got' = got /\ sent' = [sent EXCEPT ![C] = "job_reject"]
        /\ EndCycle(TakenDown(net[C]), <<Frame("job_reject"), Frame("shutdown")>>,
                    AfterCycle("refused"))
    BY <1>5 DEF RejectJob, In, Active
  <2>2. Carries(TakenDown(net[C]), None)
    BY <1>5, <2>1, WorkersOwn DEF RejectJob
  <2> QED BY <2>1, <2>2, FramesUp, UpWords, AfterCycleIs, EndCycleHeard
<1>6. CASE Produce
  <2>1. /\ worker.pc \in Active /\ got' = got /\ sent' = [sent EXCEPT ![C] = "candidate_output"]
        /\ EndCycle(net[C], <<Frame("candidate_output"), Frame("shutdown")>>, Idle)
    BY <1>6 DEF Produce, In, Active
  <2> QED BY <2>1, FramesUp, UpWords, WorkersOwn, EndCycleHeard
<1>7. CASE ReconstructFails
  <2>1. /\ worker.pc \in Active /\ got' = got /\ sent' = [sent EXCEPT ![C] = "job_reject"]
        /\ \E err \in {"refused", "deadline"} :
              EndCycle(net[C], <<Frame("job_reject"), Frame("shutdown")>>, AfterCycle(err))
    BY <1>7 DEF ReconstructFails, In, Active
  <2> QED BY <2>1, FramesUp, UpWords, WorkersOwn, AfterCycleIs, EndCycleHeard
<1>8. CASE SignFails
  <2>1. /\ worker.pc \in Active /\ UNCHANGED <<sent, got>>
        /\ EndCycle(net[C], <<Frame("shutdown")>>, AfterCycle("refused"))
    BY <1>8 DEF SignFails, In, Active
  <2> QED BY <2>1, FramesUp, UpWords, WorkersOwn, AfterCycleIs, SilentEnd
<1>9. CASE WorkerReadError \/ WorkerTimesOut
  <2>1. /\ worker.pc \in Active /\ UNCHANGED <<sent, got>>
        /\ EndCycle(net[C], <<>>, AfterCycle("io"))
    BY <1>9 DEF WorkerReadError, WorkerTimesOut, Active
  <2> QED BY <2>1, EmptyQueues, WorkersOwn, AfterCycleIs, SilentEnd
<1> QED BY <1>1, <1>2, <1>3, <1>4, <1>5, <1>6, <1>7, <1>8, <1>9 DEF WorkerStep

(* The worker stops, or dies, in a cycle or between two.                    *)
LEMMA WorkerLeavesHeard ==
    ASSUME HeardInv, StopWorker \/ WorkerDies \/ StartWorker \/ DialTimesOut
    PROVE  HeardInv'
<1> PICK c : c = worker.conn
  OBVIOUS
<1>1. worker' \in {Idle, Off} /\ UNCHANGED <<sent, got>>
  BY AfterCycleIs DEF StopWorker, WorkerDies, StartWorker, DialTimesOut
<1>2. worker' \in Workers /\ worker'.conn = None
  BY <1>1 DEF Workers, Idle, Off
<1>3. CASE net' = net
  BY <1>1, <1>2, <1>3, NoneAssumption DEF HeardInv, VaultHearsTheWorker
<1>4. CASE net' # net
  <2>1. c # None /\ \/ net' = [net EXCEPT ![c] = WorkerCloses(net[c])]
                     \/ net' = [net EXCEPT ![c] = WorkerCloses([net[c] EXCEPT !.cut = TRUE])]
    BY <1>4 DEF StopWorker, WorkerDies, StartWorker, DialTimesOut, C
  <2>2. c \in Conns
    BY <2>1 DEF HeardInv, Workers, Idle, Off
  <2>3. Carries(net[c], None) /\ sent = [sent EXCEPT ![c] = None] /\ None \in Words
    BY <2>2 DEF HeardInv, Words
  <2> PICK m : m \in {WorkerCloses(net[c]), WorkerCloses([net[c] EXCEPT !.cut = TRUE])}
                 /\ net' = [net EXCEPT ![c] = m]
    BY <2>1
  <2>4. Carries(m, None)
    BY <2>3, CutCarries, ClosesCarry
  <2> QED BY <1>1, <1>2, <2>2, <2>3, <2>4, WorkerActs
<1> QED BY <1>3, <1>4

LEMMA DialHeard ==
    ASSUME HeardInv, NEW c \in Conns, NEW w \in BOOLEAN, NEW v \in BOOLEAN, Dial(c, w, v)
    PROVE  HeardInv'
<1> DEFINE n == [Free EXCEPT !.up = <<Frame("hello_client")>>,
                             !.w = TRUE, !.v = TRUE, !.wOk = w, !.vOk = v]
<1>1. /\ worker' = [pc |-> "hello", conn |-> c] /\ net' = [net EXCEPT ![c] = n]
      /\ sent' = [sent EXCEPT ![c] = None] /\ got' = [got EXCEPT ![c] = None]
  BY DEF Dial
<1>2. Carries(n, None)
  <2> PICK up : up = <<Frame("hello_client")>>
    OBVIOUS
  <2>1. up \in Seq(UpFrames) /\ Say(up, None)
    BY FramesUp, UpWords
  <2>2. n \in Links /\ n.up = up
    BY <2>1, EmptyQueues DEF Free, Links
  <2> QED BY <2>1, <2>2 DEF Carries
<1> HIDE DEF n
<1>3. /\ sent' \in [Conns -> Words] /\ got' \in [Conns -> Words] /\ net' \in [Conns -> Links]
      /\ sent'[c] = None /\ got'[c] = None /\ net'[c] = n
      /\ \A d \in Conns : d # c => sent'[d] = sent[d] /\ got'[d] = got[d] /\ net'[d] = net[d]
  BY <1>1, <1>2 DEF HeardInv, Words, Carries
<1>4. \A d \in Conns : Carries(net'[d], sent'[d])
  BY <1>2, <1>3 DEF HeardInv
<1>5. worker' \in Workers /\ worker'.conn = c
  BY <1>1 DEF Workers, Active
<1>6. VaultHearsTheWorker'
  BY <1>3 DEF HeardInv, VaultHearsTheWorker
<1> QED BY <1>3, <1>4, <1>5, <1>6 DEF HeardInv

-----------------------------------------------------------------------------
(* The vault's steps.                                                       *)

LEMMA StutterHeard ==
    ASSUME HeardInv, UNCHANGED <<worker, net, sent, got>> PROVE HeardInv'
BY DEF HeardInv, VaultHearsTheWorker

(* What the vault has of a connection, before and after a read.             *)
LEMMA VaultsOwn ==
    ASSUME HeardInv, NEW c \in Conns
    PROVE  /\ Carries(net[c], sent[c])
           /\ \A t : VaultReads(c, t) => Carries(TakenUp(net[c]), sent[c])
           /\ \A t \in Said : VaultReads(c, t) => sent[c] = t
<1>1. Carries(net[c], sent[c])
  BY DEF HeardInv
<1>2. ASSUME NEW t, VaultReads(c, t) PROVE Carries(TakenUp(net[c]), sent[c])
  <2>1. net[c].up # <<>>
    BY <1>2 DEF VaultReads
  <2> QED BY <1>1, <2>1, TakenCarries
<1>3. ASSUME NEW t \in Said, VaultReads(c, t) PROVE sent[c] = t
  <2>1. net[c].up # <<>> /\ Head(net[c].up).type = t
    BY <1>3 DEF VaultReads
  <2> QED BY <1>1, <2>1, HeadIsWord
<1> QED BY <1>1, <1>2, <1>3

(* A session goes on, on the connection as it was, read or written to.      *)
LEMMA SessionStepHeard ==
    ASSUME HeldInv, HeardInv, NEW c \in Conns, SessionStep(c) PROVE HeardInv'
<1> USE VaultsOwn, FramesDown, EmptyQueues
<1>1. CASE TakeSlot(c)
  BY <1>1, StutterHeard DEF TakeSlot
<1>2. CASE Busy(c)
  BY <1>2, EndSessionHeard DEF Busy
<1>3. CASE ReadHelloClient(c)
  <2>1. Carries(TakenUp(net[c]), sent[c]) /\ UNCHANGED <<worker, sent, got>>
    BY <1>3 DEF ReadHelloClient
  <2>2. CASE net' = [net EXCEPT ![c] = ToWorker(TakenUp(net[c]), <<Frame("hello_server")>>)]
    <3>1. Carries(ToWorker(TakenUp(net[c]), <<Frame("hello_server")>>), sent[c])
      BY <2>1, ToWorkerCarries
    <3> QED BY <2>1, <2>2, <3>1, VaultActs
  <2>3. CASE EndSession(c, TakenUp(net[c]), <<Frame("error")>>)
    BY <2>1, <2>3, EndSessionHeard
  <2> QED BY <1>3, <2>2, <2>3 DEF ReadHelloClient
<1>4. CASE ReadAttestClient(c)
  <2>1. Carries(TakenUp(net[c]), sent[c]) /\ UNCHANGED <<worker, sent, got>>
    BY <1>4 DEF ReadAttestClient
  <2>2. CASE net' = [net EXCEPT ![c] = ToWorker(TakenUp(net[c]), <<Frame("session_ready")>>)]
    <3>1. Carries(ToWorker(TakenUp(net[c]), <<Frame("session_ready")>>), sent[c])
      BY <2>1, ToWorkerCarries
    <3> QED BY <2>1, <2>2, <3>1, VaultActs
  <2>3. CASE EndSession(c, TakenUp(net[c]), <<Frame("error")>>)
    BY <2>1, <2>3, EndSessionHeard
  <2> QED BY <1>4, <2>2, <2>3 DEF ReadAttestClient
<1>5. CASE Dispatch(c)
  <2>1. /\ UNCHANGED <<worker, sent, got>>
        /\ net' = [net EXCEPT ![c] = ToWorker(net[c], <<JobRequest(sess[c].job)>>)]
    BY <1>5 DEF Dispatch
  <2>2. sess[c].job \in Jobs \cup {None}
    BY DEF HeldInv, Sessions
  <2>3. Carries(ToWorker(net[c], <<JobRequest(sess[c].job)>>), sent[c])
    BY <2>2, ToWorkerCarries
  <2> QED BY <2>1, <2>3, VaultActs
<1>6. CASE FlowEnds(c) \/ Judge(c)
  BY <1>6, EndSessionHeard DEF FlowEnds, Judge, Ends
<1>7. CASE ReadAccept(c)
  BY <1>7, VaultActs DEF ReadAccept
<1>8. CASE ReadReject(c)
  <2>1. /\ EndSession(c, TakenUp(net[c]), <<Frame("shutdown")>>)
        /\ got' = [got EXCEPT ![c] = "job_reject"] /\ UNCHANGED <<worker, sent>>
        /\ VaultReads(c, "job_reject")
    BY <1>8 DEF ReadReject, Ends
  <2>2. "job_reject" = sent[c] /\ Carries(TakenUp(net[c]), sent[c])
    BY <2>1 DEF Said
  <2> QED BY <2>1, <2>2, EndSessionHeard
<1>9. CASE ReadOutput(c)
  <2>1. /\ net' = [net EXCEPT ![c] = TakenUp(net[c])]
        /\ got' = [got EXCEPT ![c] = "candidate_output"] /\ UNCHANGED <<worker, sent>>
        /\ VaultReads(c, "candidate_output")
    BY <1>9 DEF ReadOutput
  <2>2. "candidate_output" = sent[c] /\ Carries(TakenUp(net[c]), sent[c])
    BY <2>1 DEF Said
  <2> QED BY <2>1, <2>2, VaultActs
<1>10. CASE RefuseOutput(c) \/ ReadUnexpected(c)
  <2>1. /\ EndSession(c, TakenUp(net[c]), <<Frame("shutdown")>>)
        /\ UNCHANGED <<worker, sent, got>> /\ \E t : VaultReads(c, t)
    BY <1>10 DEF RefuseOutput, ReadUnexpected, Ends
  <2> QED BY <2>1, EndSessionHeard
<1> QED BY <1>1, <1>2, <1>3, <1>4, <1>5, <1>6, <1>7, <1>8, <1>9, <1>10 DEF SessionStep

LEMMA SessionEndsHeard ==
    ASSUME HeardInv, NEW c \in Conns,
           SessionTimer(c) \/ ServeReadError(c) \/ \E j \in Jobs : AttestAgain(c, j)
    PROVE  HeardInv'
<1>1. /\ UNCHANGED <<worker, sent, got>>
      /\ EndSession(c, net[c], <<>>) \/ EndSession(c, net[c], <<Frame("shutdown")>>)
  BY DEF SessionTimer, HandshakeFails, NoWork, ServeTimesOut, ServeReadError, AttestAgain, Ends
<1> QED BY <1>1, VaultsOwn, FramesDown, EmptyQueues, EndSessionHeard

LEMMA StopVaultHeard == ASSUME HeardInv, StopVault PROVE HeardInv'
<1>1. /\ UNCHANGED <<worker, sent, got>>
      /\ net' = [c \in Conns |-> IF net[c].v THEN VaultCloses(net[c]) ELSE net[c]]
  BY DEF StopVault
<1>2. \A c \in Conns : Carries(VaultCloses(net[c]), sent[c]) /\ Carries(net[c], sent[c])
  BY VaultsOwn, ClosesCarry
<1>3. \A c \in Conns : Carries(net'[c], sent[c])
  BY <1>1, <1>2
<1>4. net' \in [Conns -> Links]
  <2>1. \A c \in Conns : net'[c] \in Links
    BY <1>3 DEF Carries
  <2>2. net' = [c \in Conns |-> net'[c]]
    BY <1>1
  <2> QED BY <2>1, <2>2
<1> QED BY <1>1, <1>3, <1>4 DEF HeardInv, VaultHearsTheWorker

LEMMA CutHeard == ASSUME HeardInv, NEW c \in Conns, Cut(c) PROVE HeardInv'
<1> PICK m : m = [net[c] EXCEPT !.cut = TRUE, !.up = <<>>, !.down = <<>>]
  OBVIOUS
<1>1. UNCHANGED <<worker, sent, got>> /\ net' = [net EXCEPT ![c] = m]
  BY DEF Cut
<1>2. Carries(m, sent[c])
  BY VaultsOwn, CutCarries
<1> QED BY <1>1, <1>2, VaultActs

LEMMA NextHeard == HeldInv /\ HeardInv /\ [Next]_vars => HeardInv'
<1> SUFFICES ASSUME HeldInv, HeardInv, [Next]_vars PROVE HeardInv'
  OBVIOUS
<1>1. CASE \E c \in Conns, w, v \in BOOLEAN : Dial(c, w, v)
  BY <1>1, DialHeard
<1>2. CASE WorkerStep \/ WorkerTimesOut
  BY <1>2, WorkerStepHeard
<1>3. CASE StopWorker \/ WorkerDies \/ StartWorker \/ DialTimesOut
  BY <1>3, WorkerLeavesHeard
<1>4. CASE \E c \in Conns : SessionStep(c)
  BY <1>4, SessionStepHeard
<1>5. CASE \E c \in Conns : SessionTimer(c) \/ ServeReadError(c)
                             \/ \E j \in Jobs : AttestAgain(c, j)
  BY <1>5, SessionEndsHeard
<1>6. CASE StopVault
  BY <1>6, StopVaultHeard
<1>7. CASE \E c \in Conns : Cut(c)
  BY <1>7, CutHeard
<1>8. CASE UNCHANGED <<worker, net, sent, got>>
  BY <1>8, StutterHeard
<1>9. CASE (\E c \in Conns, j \in Jobs : TakeJob(c, j)) \/ (\E j \in Jobs : Submit(j))
             \/ VaultStops \/ StartVault
  BY <1>8, <1>9 DEF TakeJob, Submit, VaultStops, StartVault
<1> QED BY <1>1, <1>2, <1>3, <1>4, <1>5, <1>6, <1>7, <1>8, <1>9 DEF Next, vars

(* What the vault made of a job is what the worker said of it, through      *)
(* cuts, timeouts and restarts of either end and the reuse of connections   *)
(* (ServeOneJob on both sides).                                             *)
THEOREM VaultHearsWhatWasSaid == Spec => []VaultHearsTheWorker
<1>1. Spec => [](HeldInv /\ HeardInv)
  <2>1. Init => HeldInv /\ HeardInv
    BY InitHeld, InitHeard
  <2>2. (HeldInv /\ HeardInv) /\ [Next]_vars => (HeldInv /\ HeardInv)'
    BY NextHeld, NextHeard
  <2> QED BY <2>1, <2>2, PTL DEF Spec
<1>2. HeardInv => VaultHearsTheWorker
  BY DEF HeardInv
<1> QED BY <1>1, <1>2, PTL

-----------------------------------------------------------------------------
(***************************************************************************)
(* Attestation: what the verifiers of a session's peer admit, for any      *)
(* machines, challenges, families, validity and skew.                      *)
(*                                                                         *)
(* Whose parts are admitted follows from the verifiers alone, once it is   *)
(* known of each family what can be wrong with its machines.  What the     *)
(* dates of documents promise needs an invariant of the caches: whatever   *)
(* is kept, and wherever it came from, was issued by now, and if it does   *)
(* not know of a replacement, before that.  That a rotated key set is      *)
(* followed needs one of the quotes: one signed with the new key was made  *)
(* after the rotation.                                                     *)
(***************************************************************************)

(* A document a cache may hold, and its dates: it was issued by now, and   *)
(* if it does not know of a replacement, before that.                      *)
Documents == {NoDoc} \cup [body : {"genuine", "garbage"}, newer : BOOLEAN, until : Nat]
Replaced == {"tcbInfo", "qeIdentity", "ocsp", "jwks"}

Dated(d, x) ==
    /\ x \in Documents
    /\ x.until <= now + Validity
    /\ d[1] \in Replaced /\ ~x.newer => x.until <= published[d[1]] + Validity

(* What every family's verifier rests on. *)
Surroundings ==
    /\ cfg \in Configs
    /\ fact \in [Machines -> Defects(cfg.family)]
    /\ now \in Nat /\ now <= MaxTime
    /\ published \in [Replaced -> Nat]

(* A quote is of a machine, for a challenge that is not short, and signed  *)
(* with the new key only once there is one.                                *)
Quotes == [of : Machines, nonce : Nonces \ ShortNonces, at : Nat, key : {"old", "new"}]

QuotesInv ==
    /\ quoted \subseteq Quotes
    /\ \A q \in quoted : q.key = "new" => published["jwks"] # Never

CachesInv ==
    /\ DOMAIN mem = Machines /\ \A m \in Machines : Dated(VCEKId(m), mem[m])
    /\ DOMAIN disk = DocIds /\ \A d \in DocIds : Dated(d, disk[d])

AttestationInv == Surroundings /\ QuotesInv /\ CachesInv

-----------------------------------------------------------------------------
(* The documents.                                                          *)

LEMMA NothingIsDated ==
    ASSUME Surroundings, NEW d
    PROVE  Dated(d, NoDoc)
<1>1. NoDoc \in Documents /\ NoDoc.until = 0
  BY DEF Documents, NoDoc
<1>2. 0 <= now + Validity /\ (d[1] \in Replaced => 0 <= published[d[1]] + Validity)
  BY AttestationAssumption DEF Surroundings
<1> QED BY <1>1, <1>2 DEF Dated

(* What a vendor answers today is dated, whatever it answers.               *)
LEMMA FetchedIsDated ==
    ASSUME Surroundings, NEW d, NEW a
    PROVE  Dated(d, Fetched(d, a))
<1>1. CASE a = "down"
  BY <1>1, NothingIsDated DEF Fetched
<1>2. CASE a # "down"
  <2>1. PICK newer \in BOOLEAN : newer = (d[1] \in DOMAIN published /\ published[d[1]] # Never)
    OBVIOUS
  <2>2. PICK body \in {"genuine", "garbage"} : body = IF a = "good" THEN "genuine" ELSE "garbage"
    OBVIOUS
  <2>3. PICK until \in Nat : /\ until = IF a = "garbage" \/ d[1] \in {"jwks", "rim"} THEN 0 ELSE now + Validity
                             /\ until <= now + Validity
    BY AttestationAssumption DEF Surroundings
  <2>4. Fetched(d, a) = [body |-> body, newer |-> newer, until |-> until]
    BY <1>2, <2>1, <2>2, <2>3 DEF Fetched
  <2>5. ASSUME d[1] \in Replaced, ~newer PROVE until <= published[d[1]] + Validity
    <3>1. published[d[1]] = Never
      BY <2>1, <2>5 DEF Surroundings
    <3> QED BY <3>1, <2>3, AttestationAssumption DEF Never, Surroundings
  <2>6. PICK x : x = [body |-> body, newer |-> newer, until |-> until]
    OBVIOUS
  <2>7. x \in Documents /\ x.until = until /\ x.newer = newer
    BY <2>6 DEF Documents
  <2> QED BY <2>3, <2>4, <2>5, <2>6, <2>7 DEF Dated
<1> QED BY <1>1, <1>2

LEMMA KeptIsDated ==
    ASSUME AttestationInv, NEW d \in DocIds
    PROVE  Dated(d, Kept(d))
BY NothingIsDated DEF AttestationInv, CachesInv, Kept

(* So is what each client of a vendor returns.                             *)
LEMMA AskedIsDated ==
    ASSUME AttestationInv, NEW m \in Machines, NEW a, NEW key,
           NEW memory, \A x \in Machines : Dated(VCEKId(x), memory[x])
    PROVE  /\ Dated(VCEKId(m), VCEK(m, a, memory))
           /\ Dated(TCBInfo, PCSDocument(TCBInfo, a))
           /\ Dated(QEIdentity, PCSDocument(QEIdentity, a))
           /\ Dated(JWKS, JWKSFor(key, a))
           /\ Dated(RIM, RIMManifest(a))
           /\ Dated(OCSPId(m), OCSPAnswer(m, a))
<1>1. /\ VCEKId(m) \in DocIds /\ OCSPId(m) \in DocIds
      /\ TCBInfo \in DocIds /\ QEIdentity \in DocIds /\ JWKS \in DocIds /\ RIM \in DocIds
  BY DEF DocIds, VCEKId, OCSPId, TCBInfo, QEIdentity, JWKS, RIM
<1>2. \A d : Dated(d, NoDoc) /\ Dated(d, Fetched(d, a))
  BY NothingIsDated, FetchedIsDated DEF AttestationInv
<1>3. \A d \in DocIds : Dated(d, Kept(d))
  BY KeptIsDated
<1>4. Dated(VCEKId(m), VCEK(m, a, memory))
  BY <1>1, <1>2, <1>3 DEF VCEK
<1>5. \A d \in DocIds : Dated(d, PCSDocument(d, a))
  BY <1>2, <1>3 DEF PCSDocument
<1>6. \A refresh \in BOOLEAN : Dated(JWKS, LoadJWKS(refresh, a))
  BY <1>1, <1>2, <1>3 DEF LoadJWKS
<1>7. Dated(JWKS, JWKSFor(key, a))
  BY <1>6 DEF JWKSFor
<1>8. Dated(RIM, RIMManifest(a))
  BY <1>1, <1>2, <1>3 DEF RIMManifest
<1>9. Dated(OCSPId(m), OCSPAnswer(m, a))
  BY <1>1, <1>2, <1>3 DEF OCSPAnswer
<1> QED BY <1>1, <1>4, <1>5, <1>7, <1>8, <1>9

-----------------------------------------------------------------------------
(* Evidence is made of quotes, a machine's own too.                        *)
PartsQuoted(ev) ==
    /\ ev.chip \in quoted
    /\ QuotesTheBoot(cfg.family) => ev.boot \in quoted
    /\ cfg.family = "azure-cgpu" => ev.gpu \in quoted

LEMMA EvidenceIsQuoted ==
    ASSUME NEW ev \in Evidence
    PROVE  PartsQuoted(ev)
<1>1. PICK c \in quoted,
           k \in IF cfg.family = "gcp-sev-snp-vtpm" THEN quoted ELSE {[of |-> "none"]},
           b \in IF QuotesTheBoot(cfg.family) THEN quoted ELSE {<<>>},
           g \in IF cfg.family = "azure-cgpu" THEN quoted ELSE {<<>>} :
              ev = [chip |-> c, ak |-> AK(k.of), boot |-> b, gpu |-> g]
  BY DEF Evidence
<1> QED BY <1>1 DEF PartsQuoted

LEMMA OwnIsQuoted ==
    ASSUME NEW q \in quoted
    PROVE  PartsQuoted(Own(q))
BY DEF Own, PartsQuoted

(* The documents a verification uses are dated.                            *)
LEMMA UsedIsDated ==
    ASSUME AttestationInv, NEW ev, PartsQuoted(ev), NEW n, NEW a,
           NEW memory, \A x \in Machines : Dated(VCEKId(x), memory[x]),
           NEW u \in Used(ev, n, a, memory)
    PROVE  Dated(u[1], u[2])
<1>1. ev.chip.of \in Machines /\ (cfg.family = "azure-cgpu" => ev.gpu.of \in Machines)
  BY DEF AttestationInv, QuotesInv, Quotes, PartsQuoted
<1>2. \A x, key : /\ Dated(TCBInfo, PCSDocument(TCBInfo, x)) /\ Dated(QEIdentity, PCSDocument(QEIdentity, x))
                  /\ Dated(JWKS, JWKSFor(key, x)) /\ Dated(RIM, RIMManifest(x))
                  /\ \A m \in Machines : Dated(OCSPId(m), OCSPAnswer(m, x)) /\ Dated(VCEKId(m), VCEK(m, x, memory))
  BY <1>1, AskedIsDated
<1>3. CASE cfg.family = "gcp-tdx" /\ n \notin ShortNonces /\ TDXQuoteSigned(ev)
  <2>1. "vcek" \notin Asked
    BY <1>3 DEF Asked, SEVFamilies
  <2>2. u \in UsedOfIntel(ev, a)
    BY <1>3, <2>1 DEF Used
  <2> QED BY <2>2, <1>2 DEF UsedOfIntel
<1>4. CASE cfg.family = "azure-cgpu" /\ SNPHolds(ev, n, a, memory)
  <2>1. "vcek" \notin Asked
    BY <1>4 DEF Asked, SEVFamilies
  <2>2. u \in UsedOfNVIDIA(ev, n, a)
    BY <1>4, <2>1 DEF Used
  <2> QED BY <2>2, <1>1, <1>2, <1>4 DEF UsedOfNVIDIA
<1>5. CASE /\ ~(cfg.family = "gcp-tdx" /\ n \notin ShortNonces /\ TDXQuoteSigned(ev))
           /\ ~(cfg.family = "azure-cgpu" /\ SNPHolds(ev, n, a, memory))
           /\ "vcek" \in Asked /\ n \notin ShortNonces
  <2>1. u = <<VCEKId(ev.chip.of), VCEKOf(ev, a, memory)>>
    BY <1>5 DEF Used
  <2>2. Dated(VCEKId(ev.chip.of), VCEKOf(ev, a, memory))
    BY <1>1, <1>2, FetchedIsDated DEF VCEKOf, AttestationInv
  <2> QED BY <2>1, <2>2
<1>6. CASE /\ ~(cfg.family = "gcp-tdx" /\ n \notin ShortNonces /\ TDXQuoteSigned(ev))
           /\ ~(cfg.family = "azure-cgpu" /\ SNPHolds(ev, n, a, memory))
           /\ ~("vcek" \in Asked /\ n \notin ShortNonces)
  BY <1>6 DEF Used
<1> QED BY <1>3, <1>4, <1>5, <1>6

LEMMA StoredIsDated ==
    ASSUME AttestationInv, NEW used, \A u \in used : Dated(u[1], u[2]),
           NEW memory, \A x \in Machines : Dated(VCEKId(x), memory[x])
    PROVE  /\ DOMAIN Stored(used, memory) = DocIds
           /\ \A d \in DocIds : Dated(d, Stored(used, memory)[d])
           /\ DOMAIN Remembered(used, memory) = Machines
           /\ \A m \in Machines : Dated(VCEKId(m), Remembered(used, memory)[m])
<1>1. ASSUME NEW d, \E u \in used : u[1] = d
      PROVE  Dated(d, (CHOOSE u \in used : u[1] = d)[2])
  <2>1. PICK v : v = CHOOSE u \in used : u[1] = d
    OBVIOUS
  <2>2. v \in used /\ v[1] = d
    BY <1>1, <2>1
  <2> QED BY <2>1, <2>2
<1>2. ASSUME NEW d \in DocIds PROVE Dated(d, Stored(used, memory)[d])
  <2>1. \/ Stored(used, memory)[d] = disk[d]
        \/ (\E u \in used : u[1] = d) /\ Stored(used, memory)[d] = (CHOOSE u \in used : u[1] = d)[2]
    BY DEF Stored
  <2> QED BY <2>1, <1>1 DEF AttestationInv, CachesInv
<1>3. ASSUME NEW m \in Machines PROVE Dated(VCEKId(m), Remembered(used, memory)[m])
  <2>1. \/ Remembered(used, memory)[m] = memory[m]
        \/ /\ \E u \in used : u[1] = VCEKId(m)
           /\ Remembered(used, memory)[m] = (CHOOSE u \in used : u[1] = VCEKId(m))[2]
    BY DEF Remembered
  <2> QED BY <2>1, <1>1
<1> QED BY <1>2, <1>3 DEF Stored, Remembered

-----------------------------------------------------------------------------
(* The steps.                                                              *)

LEMMA InitAttestation == AttestationInit => AttestationInv
<1> SUFFICES ASSUME AttestationInit PROVE AttestationInv
  OBVIOUS
<1>1. Surroundings
  BY AttestationAssumption DEF AttestationInit, Surroundings, Replaced, Never
<1>2. QuotesInv
  BY DEF AttestationInit, QuotesInv
<1>3. CachesInv
  BY <1>1, NothingIsDated DEF AttestationInit, CachesInv
<1> QED BY <1>1, <1>2, <1>3 DEF AttestationInv

(* A document's dates hold while time passes and when a vendor publishes.  *)
LEMMA DatesStand ==
    ASSUME Surroundings, Surroundings', now <= now',
           \A k \in Replaced : published'[k] = published[k] \/ published'[k] = now,
           NEW d, NEW x, Dated(d, x)
    PROVE  Dated(d, x)'
<1>1. x \in Documents /\ x.until \in Nat
  BY DEF Dated, Documents, NoDoc
<1>2. x.until <= now' + Validity
  BY <1>1, AttestationAssumption DEF Dated, Surroundings
<1>3. ASSUME d[1] \in Replaced, ~x.newer PROVE x.until <= published'[d[1]] + Validity
  <2>1. x.until <= now + Validity /\ x.until <= published[d[1]] + Validity
    BY <1>3 DEF Dated
  <2>2. published'[d[1]] = published[d[1]] \/ published'[d[1]] = now
    BY <1>3
  <2> QED BY <2>1, <2>2
<1>4. (x \in Documents)'
  BY <1>1 DEF Documents, NoDoc
<1> QED BY <1>2, <1>3, <1>4 DEF Dated, Replaced

LEMMA CachesStand ==
    ASSUME AttestationInv, Surroundings', now <= now', UNCHANGED <<mem, disk>>,
           \A k \in Replaced : published'[k] = published[k] \/ published'[k] = now
    PROVE  CachesInv'
<1>1. \A d, x : Dated(d, x) => Dated(d, x)'
  BY DatesStand DEF AttestationInv
<1>2. ASSUME NEW m \in Machines PROVE Dated(VCEKId(m), mem[m])'
  <2>1. PICK x : x = mem[m]
    OBVIOUS
  <2>2. Dated(VCEKId(m), x)'
    BY <2>1, <1>1 DEF AttestationInv, CachesInv
  <2> QED BY <2>1, <2>2
<1>3. ASSUME NEW d \in DocIds PROVE Dated(d, disk[d])'
  <2>1. PICK x : x = disk[d]
    OBVIOUS
  <2>2. Dated(d, x)'
    BY <2>1, <1>1 DEF AttestationInv, CachesInv
  <2> QED BY <2>1, <2>2
<1>4. DOMAIN mem' = Machines /\ DOMAIN disk' = DocIds
  BY DEF AttestationInv, CachesInv
<1> QED BY <1>2, <1>3, <1>4 DEF CachesInv, VCEKId

LEMMA AnswerAttestation ==
    ASSUME AttestationInv, NEW m \in Machines, NEW n \in Nonces, Answer(m, n)
    PROVE  AttestationInv'
<1>1. /\ n \notin ShortNonces /\ quoted' = quoted \union {Report(m, n)}
      /\ UNCHANGED <<cfg, fact, now, published, mem, disk>>
  BY DEF Answer
<1>2. Surroundings'
  BY <1>1 DEF AttestationInv, Surroundings
<1>3. Report(m, n) \in Quotes /\ (Report(m, n).key = "new" => published["jwks"] # Never)
  BY <1>1 DEF Report, Quotes, AttestationInv, Surroundings
<1>4. QuotesInv'
  <2>1. quoted' \subseteq Quotes
    BY <1>1, <1>3 DEF AttestationInv, QuotesInv
  <2>2. ASSUME NEW q \in quoted', q.key = "new" PROVE published'["jwks"] # Never
    BY <1>1, <1>3, <2>2 DEF AttestationInv, QuotesInv
  <2> QED BY <2>1, <2>2 DEF QuotesInv, Quotes, Never
<1>5. CachesInv'
  BY <1>1, <1>2, CachesStand DEF AttestationInv, Surroundings
<1> QED BY <1>2, <1>4, <1>5 DEF AttestationInv

(* Documents kept as dated ones stay dated while the surroundings stand.    *)
LEMMA CachesWritten ==
    ASSUME AttestationInv, UNCHANGED <<cfg, fact, quoted, now, published>>,
           DOMAIN mem' = Machines, \A m \in Machines : Dated(VCEKId(m), mem'[m]),
           DOMAIN disk' = DocIds, \A d \in DocIds : Dated(d, disk'[d])
    PROVE  AttestationInv'
<1>1. Surroundings'
  BY DEF AttestationInv, Surroundings
<1>2. QuotesInv'
  BY DEF AttestationInv, QuotesInv, Quotes, Never
<1>3. \A d, x : Dated(d, x) => Dated(d, x)'
  BY <1>1, DatesStand DEF AttestationInv, Surroundings
<1>4. ASSUME NEW m \in Machines PROVE Dated(VCEKId(m), mem[m])'
  <2>1. PICK x : x = mem'[m]
    OBVIOUS
  <2>2. Dated(VCEKId(m), x)'
    BY <2>1, <1>3
  <2> QED BY <2>1, <2>2
<1>5. ASSUME NEW d \in DocIds PROVE Dated(d, disk[d])'
  <2>1. PICK x : x = disk'[d]
    OBVIOUS
  <2>2. Dated(d, x)'
    BY <2>1, <1>3
  <2> QED BY <2>1, <2>2
<1>6. CachesInv'
  BY <1>4, <1>5 DEF CachesInv, VCEKId
<1> QED BY <1>1, <1>2, <1>6 DEF AttestationInv

LEMMA VerifyAttestation ==
    ASSUME AttestationInv, NEW ev \in Evidence, NEW n, NEW a, Verify(ev, n, a)
    PROVE  AttestationInv'
<1>1. PICK used : used = Used(ev, n, a, mem)
  OBVIOUS
<1>2. mem' = Remembered(used, mem) /\ disk' = Stored(used, mem) /\ UNCHANGED <<cfg, fact, quoted, now, published>>
  BY <1>1 DEF Verify
<1>3. \A x \in Machines : Dated(VCEKId(x), mem[x])
  BY DEF AttestationInv, CachesInv
<1>4. \A u \in used : Dated(u[1], u[2])
  BY <1>1, <1>3, EvidenceIsQuoted, UsedIsDated
<1>5. /\ DOMAIN Stored(used, mem) = DocIds
      /\ \A d \in DocIds : Dated(d, Stored(used, mem)[d])
      /\ DOMAIN Remembered(used, mem) = Machines
      /\ \A m \in Machines : Dated(VCEKId(m), Remembered(used, mem)[m])
  BY <1>3, <1>4, StoredIsDated
<1> QED BY <1>2, <1>5, CachesWritten

LEMMA PrefetchAttestation ==
    ASSUME AttestationInv, NEW q \in quoted, NEW a, Prefetch(q, a)
    PROVE  AttestationInv'
<1>1. PICK memory : memory = [m \in Machines |-> NoDoc]
  OBVIOUS
<1>2. PICK used : used = Used(Own(q), q.nonce, a, memory)
  OBVIOUS
<1>3. disk' = Stored(used, memory) /\ UNCHANGED <<cfg, fact, quoted, now, published, mem>>
  BY <1>1, <1>2 DEF Prefetch
<1>4. \A x \in Machines : Dated(VCEKId(x), memory[x])
  BY <1>1, NothingIsDated DEF AttestationInv
<1>5. \A u \in used : Dated(u[1], u[2])
  BY <1>2, <1>4, OwnIsQuoted, UsedIsDated
<1>6. DOMAIN Stored(used, memory) = DocIds /\ \A d \in DocIds : Dated(d, Stored(used, memory)[d])
  BY <1>4, <1>5, StoredIsDated
<1>7. DOMAIN mem' = Machines /\ \A m \in Machines : Dated(VCEKId(m), mem'[m])
  BY <1>3 DEF AttestationInv, CachesInv
<1> QED BY <1>3, <1>6, <1>7, CachesWritten

LEMMA TickAttestation ==
    ASSUME AttestationInv, Tick
    PROVE  AttestationInv'
<1>1. now < MaxTime /\ now' = now + 1 /\ UNCHANGED <<cfg, fact, quoted, published, mem, disk>>
  BY DEF Tick
<1>2. Surroundings' /\ now <= now'
  BY <1>1, AttestationAssumption DEF AttestationInv, Surroundings
<1>3. QuotesInv'
  BY <1>1 DEF AttestationInv, QuotesInv, Quotes, Never
<1>4. CachesInv'
  BY <1>1, <1>2, CachesStand
<1> QED BY <1>2, <1>3, <1>4 DEF AttestationInv

LEMMA PublishAttestation ==
    ASSUME AttestationInv, NEW k \in DOMAIN published, Publish(k)
    PROVE  AttestationInv'
<1>1. published' = [published EXCEPT ![k] = now] /\ UNCHANGED <<cfg, fact, quoted, now, mem, disk>>
  BY DEF Publish
<1>2. published \in [Replaced -> Nat] /\ k \in Replaced /\ now \in Nat /\ now <= MaxTime
  BY DEF AttestationInv, Surroundings
<1>3. Surroundings'
  BY <1>1, <1>2 DEF AttestationInv, Surroundings
<1>4. \A j \in Replaced : published'[j] = published[j] \/ published'[j] = now
  BY <1>1, <1>2
<1>5. "jwks" \in Replaced /\ now # Never
  BY <1>2, AttestationAssumption DEF Replaced, Never
<1>6. QuotesInv'
  BY <1>1, <1>4, <1>5 DEF AttestationInv, QuotesInv, Quotes, Never
<1>7. CachesInv'
  BY <1>1, <1>2, <1>3, <1>4, CachesStand
<1> QED BY <1>3, <1>6, <1>7 DEF AttestationInv

LEMMA RestartAttestation ==
    ASSUME AttestationInv, Restart
    PROVE  AttestationInv'
<1>1. mem' = [m \in Machines |-> NoDoc] /\ UNCHANGED <<cfg, fact, quoted, now, published, disk>>
  BY DEF Restart
<1>2. DOMAIN mem' = Machines /\ \A m \in Machines : Dated(VCEKId(m), mem'[m])
  BY <1>1, NothingIsDated DEF AttestationInv
<1>3. DOMAIN disk' = DocIds /\ \A d \in DocIds : Dated(d, disk'[d])
  BY <1>1 DEF AttestationInv, CachesInv
<1> QED BY <1>1, <1>2, <1>3, CachesWritten

LEMMA DiscardAttestation ==
    ASSUME AttestationInv, NEW d \in DocIds, Discard(d)
    PROVE  AttestationInv'
<1>1. disk' = [disk EXCEPT ![d] = NoDoc] /\ UNCHANGED <<cfg, fact, quoted, now, published, mem>>
  BY DEF Discard
<1>2. DOMAIN disk = DocIds /\ \A e \in DocIds : Dated(e, disk[e])
  BY DEF AttestationInv, CachesInv
<1>3. DOMAIN disk' = DocIds /\ \A e \in DocIds : disk'[e] = disk[e] \/ disk'[e] = NoDoc
  BY <1>1, <1>2
<1>4. \A e \in DocIds : Dated(e, disk'[e])
  BY <1>2, <1>3, NothingIsDated DEF AttestationInv
<1>5. DOMAIN mem' = Machines /\ \A m \in Machines : Dated(VCEKId(m), mem'[m])
  BY <1>1 DEF AttestationInv, CachesInv
<1> QED BY <1>1, <1>3, <1>4, <1>5, CachesWritten

LEMMA NextAttestation ==
    ASSUME AttestationInv, [AttestationNext]_attestationVars
    PROVE  AttestationInv'
<1>1. CASE \E m \in Machines, n \in Nonces : Answer(m, n)
  BY <1>1, AnswerAttestation
<1>2. CASE \E ev \in Evidence, n \in Nonces, a \in AnswerSets : Verify(ev, n, a)
  BY <1>2, VerifyAttestation
<1>3. CASE \E q \in quoted, a \in AnswerSets : Prefetch(q, a)
  BY <1>3, PrefetchAttestation
<1>4. CASE Tick
  BY <1>4, TickAttestation
<1>5. CASE \E k \in DOMAIN published : Publish(k)
  BY <1>5, PublishAttestation
<1>6. CASE Restart
  BY <1>6, RestartAttestation
<1>7. CASE \E d \in DocIds : Discard(d)
  BY <1>7, DiscardAttestation
<1>8. CASE UNCHANGED attestationVars
  BY <1>8 DEF attestationVars, AttestationInv, Surroundings, QuotesInv, Quotes, CachesInv, Dated,
              Documents, NoDoc, Never, VCEKId
<1> QED
  BY <1>1, <1>2, <1>3, <1>4, <1>5, <1>6, <1>7, <1>8
  DEF AttestationNext, QuoteSEV, QuoteTDX, QuoteNitro, QuoteSimulated, QuoteAWS, QuoteGCPVTPM,
      QuoteAzure, QuoteCGPU

LEMMA AttestationInvariant == AttestationSpec => []AttestationInv
<1>1. AttestationInit => AttestationInv
  BY InitAttestation
<1>2. AttestationInv /\ [AttestationNext]_attestationVars => AttestationInv'
  BY NextAttestation
<1> QED BY <1>1, <1>2, PTL DEF AttestationSpec

-----------------------------------------------------------------------------
(* What is admitted is genuine.                                            *)

LEMMA DefectsOfFamilies ==
    /\ Defects("gcp-sev-snp") \subseteq
         {"none", "image", "forged", "debug", "vmpl", "belowFloor", "platform", "otherKey", "hostData"}
    /\ Defects("gcp-sev-snp-vtpm") \subseteq
         {"none", "image", "forged", "debug", "vmpl", "belowFloor", "platform", "otherKey", "hostData",
          "boot", "foreignInstance", "selection"}
    /\ Defects("aws-sev-snp") \subseteq
         {"none", "image", "forged", "debug", "vmpl", "belowFloor", "platform", "otherKey", "hostData", "vlek"}
    /\ Defects("azure-sev-snp") \subseteq
         {"none", "image", "forged", "debug", "vmpl", "belowFloor", "platform", "otherKey", "boot"}
    /\ Defects("azure-cgpu") \subseteq {"none", "image", "gpu", "gpuRevoked"}
    /\ Defects("gcp-tdx") \subseteq {"none", "image", "forged", "debug", "outdatedTCB", "outdatedQE"}
    /\ Defects("aws-nitro-enclave") \subseteq {"none", "image", "forged", "boot", "debug"}
    /\ \A f : f \notin SEVFamilies \union {"gcp-tdx", "aws-nitro-enclave"} =>
          Defects(f) \subseteq {"none", "image", "forged"}
BY DEF Defects, SEVFamilies

(* What AdmittedIsGenuine asks of one verdict.                             *)
Genuine(ev, n) ==
    LET m == ev.chip.of
    IN /\ fact[m] \in {"none", "outdatedTCB", "outdatedQE", "gpu", "gpuRevoked"}
                       \union (IF cfg.rats THEN {"hostData"} ELSE {})
       /\ n \notin ShortNonces
       /\ QuotesTheBoot(cfg.family) => ev.boot.of = m /\ ev.boot.nonce = n
       /\ cfg.family \notin AzureFamilies => ev.chip.nonce = n
       /\ cfg.family = "azure-cgpu" => fact[ev.gpu.of] # "gpu" /\ ev.gpu.nonce = n

LEMMA AdmitsIsGenuine ==
    ASSUME AttestationInv, NEW ev, PartsQuoted(ev), NEW n, NEW a, Admits(ev, n, a, mem)
    PROVE  Genuine(ev, n)
<1>1. ev.chip.of \in Machines /\ fact[ev.chip.of] \in Defects(cfg.family)
  BY DEF AttestationInv, Surroundings, QuotesInv, Quotes, PartsQuoted
<1>2. n \notin ShortNonces
  BY DEF Admits
<1>3. CASE cfg.family = "gcp-sev-snp"
  <2>1. GCPSEVVerify(ev, n, VCEKOf(ev, a, mem))
    BY <1>3 DEF Admits
  <2> QED BY <1>1, <1>2, <1>3, <2>1, DefectsOfFamilies
      DEF Genuine, GCPSEVVerify, VerifySEVReportSignature, AfterSignature, CheckSEVSNPPolicy, AboveFloor,
          QuotesTheBoot, AzureFamilies
<1>4. CASE cfg.family = "gcp-sev-snp-vtpm"
  <2>1. GCPSEVVTPMVerify(ev, n, VCEKOf(ev, a, mem))
    BY <1>4 DEF Admits
  <2>2. ev.boot.of = ev.chip.of
    BY <2>1 DEF GCPSEVVTPMVerify, TPMQuoteHolds, AK
  <2> QED BY <1>1, <1>2, <1>4, <2>1, <2>2, DefectsOfFamilies
      DEF Genuine, GCPSEVVTPMVerify, GCPSEVVerify, VerifySEVReportSignature, AfterSignature, CheckSEVSNPPolicy,
          AboveFloor, VerifyGCEAKCertificate, AK, TPMQuoteHolds, QuotesTheBoot, AzureFamilies
<1>5. CASE cfg.family = "aws-sev-snp"
  <2>1. AWSSEVVerify(ev, n)
    BY <1>5 DEF Admits
  <2> QED BY <1>1, <1>2, <1>5, <2>1, DefectsOfFamilies
      DEF Genuine, AWSSEVVerify, CheckVLEK, VerifySEVReportSignature, AfterSignature, CheckSEVSNPPolicy,
          AboveFloor, QuotesTheBoot, AzureFamilies
<1>6. CASE cfg.family = "azure-sev-snp"
  <2>1. AzureSNPCheck(ev, n, VCEKOf(ev, a, mem)) /\ AzureAcceptMeasurement(ev)
    BY <1>6 DEF Admits, AzureSEVVerify, SNPHolds
  <2> QED BY <1>1, <1>2, <1>6, <2>1, DefectsOfFamilies
      DEF Genuine, AzureSNPCheck, AzureAcceptMeasurement, VerifySEVReportSignature, CheckSEVSNPPolicy,
          AboveFloor, TPMQuoteHolds, AttestationKey, QuotesTheBoot, AzureFamilies
<1>7. CASE cfg.family = "azure-cgpu"
  <2>1. AzureCGPUVerify(ev, n, a, mem)
    BY <1>7 DEF Admits
  <2>2. AzureSNPCheck(ev, n, VCEKOf(ev, a, mem)) /\ AzureAcceptMeasurement(ev)
    BY <2>1 DEF AzureCGPUVerify, SNPHolds
  <2>3. fact[ev.gpu.of] # "gpu" /\ ev.gpu.nonce = n
    BY <2>1 DEF AzureCGPUVerify, GPUTold, EvaluateGPUClaims, GPUEvaluationComplete, VerifyGPUReport, MeasurementsMatch
  <2> QED BY <1>1, <1>2, <1>7, <2>2, <2>3, DefectsOfFamilies
      DEF Genuine, AzureSNPCheck, AzureAcceptMeasurement, TPMQuoteHolds, AttestationKey, QuotesTheBoot, AzureFamilies
<1>8. CASE cfg.family = "gcp-tdx"
  <2>1. TDXVerify(ev, n, PCSDocument(TCBInfo, a["tcbInfo"]), PCSDocument(QEIdentity, a["qeIdentity"]))
    BY <1>8 DEF Admits
  <2> QED BY <1>1, <1>2, <1>8, <2>1, DefectsOfFamilies
      DEF Genuine, TDXVerify, TDXQuoteSigned, QuotesTheBoot, AzureFamilies
<1>9. CASE cfg.family = "aws-nitro-enclave"
  <2>1. NitroVerify(ev, n)
    BY <1>9 DEF Admits
  <2> QED BY <1>1, <1>2, <1>9, <2>1, DefectsOfFamilies
      DEF Genuine, NitroVerify, NitroDocument, NitroEnvelopeVerifies, QuotesTheBoot, AzureFamilies
<1>10. CASE cfg.family \notin SEVFamilies \union {"gcp-tdx", "aws-nitro-enclave"}
  <2>1. SimulatedVerify(ev, n)
    BY <1>10 DEF Admits, SEVFamilies
  <2> QED BY <1>1, <1>2, <1>10, <2>1, DefectsOfFamilies
      DEF Genuine, SimulatedVerify, QuotesTheBoot, AzureFamilies, SEVFamilies
<1> QED BY <1>3, <1>4, <1>5, <1>6, <1>7, <1>8, <1>9, <1>10 DEF SEVFamilies

LEMMA AppraisedIsGenuine ==
    ASSUME AttestationInv, cfg.rats, NEW ev, NEW n, NEW ear, VerifyRecord(ev, n, ear)
    PROVE  Genuine(ev, n)
<1>1. cfg.family \in {"gcp-sev-snp", "gcp-tdx", "simulated"}
  BY DEF AttestationInv, Surroundings, Configs, NewRATSVerifier, ReadsLocally
<1> QED BY <1>1 DEF VerifyRecord, Affirms, Genuine, QuotesTheBoot, AzureFamilies

LEMMA AdmittedVerdict ==
    ASSUME AttestationInv, NEW v \in Admitted
    PROVE  /\ PartsQuoted(v.ev)
           /\ Genuine(v.ev, v.nonce)
           /\ ~cfg.rats => \E a \in Answers : Admits(v.ev, v.nonce, AllAnswer(a), mem)
<1>1. v.ev \in Evidence
  BY DEF Admitted
<1>2. PartsQuoted(v.ev)
  BY <1>1, EvidenceIsQuoted
<1>3. CASE cfg.rats
  <2>1. PICK ear \in [answered : BOOLEAN, signed : BOOLEAN, nonce : Nonces] : VerifyRecord(v.ev, v.nonce, ear)
    BY <1>3 DEF Admitted
  <2> QED BY <1>2, <1>3, <2>1, AppraisedIsGenuine
<1>4. CASE ~cfg.rats
  <2>1. PICK a \in Answers : Admits(v.ev, v.nonce, AllAnswer(a), mem)
    BY <1>4 DEF Admitted
  <2> QED BY <1>2, <2>1, AdmitsIsGenuine
<1> QED BY <1>3, <1>4

(* Theorem: what is admitted is one sound machine, answering this           *)
(* challenge with every part that answers one, whichever parts of which     *)
(* quotes the evidence is put together from (gcp_sev_snp_vtpm.go            *)
(* VerifyEvidence, azure_vtpm.go check, azure_cgpu.go VerifyEvidence,       *)
(* rats_verifier.go VerifyRecord).                                          *)
THEOREM AdmittedMachinesAreGenuine == AttestationSpec => []AdmittedIsGenuine
<1>1. AttestationInv => AdmittedIsGenuine
  BY AdmittedVerdict DEF AdmittedIsGenuine, Genuine
<1> QED BY <1>1, AttestationInvariant, PTL

-----------------------------------------------------------------------------
(* What a vendor withdrew is not admitted past the dates of its documents. *)

(* A document a client returns is one it found valid.                      *)
LEMMA ReturnedIsValid ==
    ASSUME NEW d, NEW m, NEW a
    PROVE  /\ PCSDocument(d, a) # NoDoc => DocumentCurrent(PCSDocument(d, a))
           /\ OCSPAnswer(m, a) # NoDoc => OCSPValid(OCSPAnswer(m, a))
BY DEF PCSDocument, OCSPAnswer

LEMMA OnlyUntilItsDate ==
    ASSUME AttestationInv, NEW d, d[1] \in Replaced, NEW x, Dated(d, x), ~x.newer
    PROVE  /\ now < x.until => now < published[d[1]] + Validity
           /\ now <= x.until => now <= published[d[1]] + Validity
<1>1. x.until \in Nat
  BY DEF Dated, Documents, NoDoc
<1>2. x.until <= published[d[1]] + Validity
  BY DEF Dated
<1>3. now \in Nat /\ published[d[1]] \in Nat /\ Validity \in Nat
  BY AttestationAssumption DEF AttestationInv, Surroundings
<1> QED BY <1>1, <1>2, <1>3

LEMMA WithdrawnUntilItsDate ==
    ASSUME AttestationInv, ~cfg.rats, NEW v \in Admitted
    PROVE  /\ fact[v.ev.chip.of] = "outdatedTCB" => now < published["tcbInfo"] + Validity
           /\ fact[v.ev.chip.of] = "outdatedQE"  => now < published["qeIdentity"] + Validity
           /\ cfg.family = "azure-cgpu" /\ cfg.mode # "nras" /\ fact[v.ev.gpu.of] = "gpuRevoked" =>
                 now <= published["ocsp"] + Validity
<1>1. PICK a \in Answers : Admits(v.ev, v.nonce, AllAnswer(a), mem)
  BY AdmittedVerdict
<1>2. PICK ans : ans = AllAnswer(a)
  OBVIOUS
<1>3. PICK ev : ev = v.ev
  OBVIOUS
<1>4. PartsQuoted(ev) /\ Admits(ev, v.nonce, ans, mem)
  BY <1>1, <1>2, <1>3, AdmittedVerdict
<1>5. ev.chip.of \in Machines /\ fact[ev.chip.of] \in Defects(cfg.family)
  BY <1>4 DEF AttestationInv, Surroundings, QuotesInv, Quotes, PartsQuoted
<1>6. cfg.family = "azure-cgpu" => ev.gpu.of \in Machines
  BY <1>4 DEF AttestationInv, QuotesInv, Quotes, PartsQuoted
<1>7. \A x \in Machines : Dated(VCEKId(x), mem[x])
  BY DEF AttestationInv, CachesInv
<1>8. ASSUME fact[ev.chip.of] \in {"outdatedTCB", "outdatedQE"} PROVE cfg.family = "gcp-tdx"
  BY <1>5, <1>8, DefectsOfFamilies DEF SEVFamilies
<1>9. PICK info, qe : /\ info = PCSDocument(TCBInfo, ans["tcbInfo"])
                      /\ qe = PCSDocument(QEIdentity, ans["qeIdentity"])
  OBVIOUS
<1>10. cfg.family = "gcp-tdx" => TDXVerify(ev, v.nonce, info, qe)
  BY <1>4, <1>9 DEF Admits
<1>11. Dated(TCBInfo, info) /\ Dated(QEIdentity, qe)
  BY <1>5, <1>7, <1>9, AskedIsDated
<1>12. TCBInfo[1] = "tcbInfo" /\ QEIdentity[1] = "qeIdentity" /\ \A m : OCSPId(m)[1] = "ocsp"
  BY DEF TCBInfo, QEIdentity, OCSPId
<1>13. {"tcbInfo", "qeIdentity", "ocsp"} \subseteq Replaced
  BY DEF Replaced
<1>14. ASSUME fact[ev.chip.of] = "outdatedTCB" PROVE now < published["tcbInfo"] + Validity
  <2>1. info # NoDoc /\ ~info.newer
    BY <1>8, <1>10, <1>14 DEF TDXVerify, EvaluateTCB, PCKPlatform
  <2>2. now < info.until
    BY <2>1, <1>9, ReturnedIsValid DEF DocumentCurrent
  <2> QED BY <2>1, <2>2, <1>11, <1>12, <1>13, OnlyUntilItsDate
<1>15. ASSUME fact[ev.chip.of] = "outdatedQE" PROVE now < published["qeIdentity"] + Validity
  <2>1. qe # NoDoc /\ ~qe.newer
    BY <1>8, <1>10, <1>15 DEF TDXVerify, EvaluateQE
  <2>2. now < qe.until
    BY <2>1, <1>9, ReturnedIsValid DEF DocumentCurrent
  <2> QED BY <2>1, <2>2, <1>11, <1>12, <1>13, OnlyUntilItsDate
<1>16. ASSUME cfg.family = "azure-cgpu", cfg.mode # "nras", fact[ev.gpu.of] = "gpuRevoked"
       PROVE  now <= published["ocsp"] + Validity
  <2>1. PICK m \in Machines : m = ev.gpu.of
    BY <1>6, <1>16
  <2>2. PICK answer : answer = OCSPAnswer(m, ans["ocsp"])
    OBVIOUS
  <2>3. OCSPGood(m, answer)
    BY <1>4, <1>16, <2>1, <2>2 DEF Admits, AzureCGPUVerify, GPUEvaluationComplete
  <2>4. answer # NoDoc /\ ~answer.newer
    BY <2>1, <2>3, <1>16 DEF OCSPGood
  <2>5. now <= answer.until
    BY <2>2, <2>4, ReturnedIsValid DEF OCSPValid
  <2>6. Dated(OCSPId(m), answer)
    BY <2>2, <1>7, AskedIsDated
  <2> QED BY <2>4, <2>5, <2>6, <1>12, <1>13, OnlyUntilItsDate
<1> QED BY <1>3, <1>14, <1>15, <1>16

(* Theorem: a platform, a quoting enclave or a GPU certificate its vendor   *)
(* has withdrawn is admitted only until a document from before the          *)
(* withdrawal expires, whatever the caches hold and however often the       *)
(* verifier restarts (gcp_tdx_pcs.go document, nvidia_ocsp.go check).       *)
THEOREM WithdrawnIsNotAdmitted == AttestationSpec => []RevocationTakesHold
<1>1. AttestationInv => RevocationTakesHold
  BY WithdrawnUntilItsDate DEF RevocationTakesHold
<1> QED BY <1>1, AttestationInvariant, PTL

-----------------------------------------------------------------------------
(* A sound machine is admitted.                                            *)

(* The documents a family's verifier finds are enough: for a VCEK, one      *)
(* under AMD's root; for NVIDIA, a set with the token's key, a valid        *)
(* answer and a manifest; for Intel, the two documents.                     *)
DocumentsEnough(q, a, memory) ==
    /\ "vcek" \in Asked => VCEK(q.of, a["vcek"], memory).body = "genuine"
    /\ cfg.family = "azure-cgpu" /\ cfg.mode # "own" => Holds(JWKSFor(q.key, a["jwks"]), q.key)
    /\ cfg.family = "azure-cgpu" /\ cfg.mode # "nras" =>
          OCSPAnswer(q.of, a["ocsp"]) # NoDoc /\ RIMManifest(a["rim"]) # NoDoc
    /\ cfg.family = "gcp-tdx" =>
          PCSDocument(TCBInfo, a["tcbInfo"]) # NoDoc /\ PCSDocument(QEIdentity, a["qeIdentity"]) # NoDoc

LEMMA FreshIsSound ==
    ASSUME AttestationInv, NEW q \in FreshQuotes
    PROVE  /\ q \in quoted /\ q.of \in Machines /\ fact[q.of] = "none"
           /\ q.nonce \notin ShortNonces /\ now <= q.at + MaxSkew
<1>1. q \in quoted /\ q \in Quotes /\ q.at = now /\ fact[q.of] = "none"
  BY DEF FreshQuotes, AttestationInv, QuotesInv
<1>2. now <= q.at + MaxSkew
  BY <1>1, AttestationAssumption DEF AttestationInv, Surroundings
<1> QED BY <1>1, <1>2 DEF Quotes

LEMMA EnoughIsAdmitted ==
    ASSUME AttestationInv, NEW q \in FreshQuotes, NEW a, NEW memory, DocumentsEnough(q, a, memory)
    PROVE  Admits(Own(q), q.nonce, a, memory)
<1>1. /\ fact[q.of] = "none" /\ q.nonce \notin ShortNonces /\ now <= q.at + MaxSkew
  BY FreshIsSound
<1>2. PICK ev : ev = Own(q)
  OBVIOUS
<1>3. /\ ev.chip = q
      /\ cfg.family = "gcp-sev-snp-vtpm" => ev.ak = AK(q.of)
      /\ QuotesTheBoot(cfg.family) => ev.boot = q
      /\ cfg.family = "azure-cgpu" => ev.gpu = q
  BY <1>2 DEF Own
<1>4. "vcek" \in Asked => VerifyAMDChain(VCEKOf(ev, a, memory))
  BY <1>3 DEF DocumentsEnough, VCEKOf, VerifyAMDChain, PinnedAMDRootFor, Asked, SEVFamilies
<1>5. CheckSEVSNPPolicy(q.of) /\ VerifySEVReportSignature(q.of)
  BY <1>1 DEF CheckSEVSNPPolicy, AboveFloor, VerifySEVReportSignature
<1>6. AfterSignature(ev, q.nonce)
  BY <1>1, <1>3, <1>5 DEF AfterSignature
<1>7. ASSUME QuotesTheBoot(cfg.family), NEW ak, ak = q.of PROVE TPMQuoteHolds(ev, q.nonce, ak)
  BY <1>1, <1>3, <1>7 DEF TPMQuoteHolds
<1>8. CASE cfg.family \in {"gcp-sev-snp", "gcp-sev-snp-vtpm"}
  <2>1. "vcek" \in Asked
    BY <1>8 DEF Asked, SEVFamilies
  <2>2. GCPSEVVerify(ev, q.nonce, VCEKOf(ev, a, memory))
    BY <2>1, <1>3, <1>4, <1>5, <1>6 DEF GCPSEVVerify
  <2>3. CASE cfg.family = "gcp-sev-snp"
    BY <1>1, <1>2, <2>2, <2>3 DEF Admits
  <2>4. CASE cfg.family = "gcp-sev-snp-vtpm"
    <3>1. QuotesTheBoot(cfg.family)
      BY <2>4 DEF QuotesTheBoot
    <3>2. TPMQuoteHolds(ev, q.nonce, ev.ak)
      BY <3>1, <2>4, <1>3, <1>7 DEF AK
    <3>3. GCPSEVVTPMVerify(ev, q.nonce, VCEKOf(ev, a, memory))
      BY <3>1, <3>2, <2>2, <2>4, <1>1, <1>3 DEF GCPSEVVTPMVerify, VerifyGCEAKCertificate, AK
    <3> QED BY <1>1, <1>2, <3>3, <2>4 DEF Admits
  <2> QED BY <1>8, <2>3, <2>4
<1>9. CASE cfg.family = "aws-sev-snp"
  <2>1. AWSSEVVerify(ev, q.nonce)
    BY <1>1, <1>3, <1>5, <1>6 DEF AWSSEVVerify, CheckVLEK
  <2> QED BY <1>1, <1>2, <1>9, <2>1 DEF Admits
<1>10. CASE cfg.family \in AzureFamilies
  <2>1. VerifyAMDChain(VCEKOf(ev, a, memory))
    <3>1. CASE cfg.family = "azure-sev-snp"
      BY <3>1, <1>4 DEF Asked, SEVFamilies
    <3>2. CASE cfg.family = "azure-cgpu"
      BY <3>2 DEF VCEKOf, Fetched, VerifyAMDChain, PinnedAMDRootFor
    <3> QED BY <3>1, <3>2, <1>10 DEF AzureFamilies
  <2>2. TPMQuoteHolds(ev, q.nonce, AttestationKey(ev))
    BY <1>3, <1>7, <1>10 DEF QuotesTheBoot, AttestationKey
  <2>3. SNPHolds(ev, q.nonce, a, memory) /\ AzureAcceptMeasurement(ev)
    BY <1>1, <1>3, <1>5, <2>1, <2>2 DEF SNPHolds, AzureSNPCheck, AzureAcceptMeasurement
  <2>4. CASE cfg.family = "azure-sev-snp"
    BY <1>1, <1>2, <2>3, <2>4 DEF Admits, AzureSEVVerify
  <2>5. CASE cfg.family = "azure-cgpu"
    <3>1. GPUTold(ev, q.nonce, a)
      BY <2>5, <1>1, <1>3 DEF GPUTold, EvaluateGPUClaims, DocumentsEnough
    <3>2. cfg.mode # "nras" =>
            GPUEvaluationComplete(ev, q.nonce, OCSPAnswer(ev.gpu.of, a["ocsp"]), RIMManifest(a["rim"]))
      BY <2>5, <1>1, <1>3 DEF GPUEvaluationComplete, VerifyGPUReport, OCSPGood, MeasurementsMatch, DocumentsEnough
    <3>3. AzureCGPUVerify(ev, q.nonce, a, memory)
      BY <2>3, <3>1, <3>2 DEF AzureCGPUVerify
    <3> QED BY <1>1, <1>2, <2>5, <3>3 DEF Admits
  <2> QED BY <1>10, <2>4, <2>5 DEF AzureFamilies
<1>11. CASE cfg.family = "gcp-tdx"
  <2>1. TDXVerify(ev, q.nonce, PCSDocument(TCBInfo, a["tcbInfo"]), PCSDocument(QEIdentity, a["qeIdentity"]))
    BY <1>1, <1>3, <1>11 DEF TDXVerify, TDXQuoteSigned, EvaluateTCB, EvaluateQE, PCKPlatform, DocumentsEnough
  <2> QED BY <1>1, <1>2, <1>11, <2>1 DEF Admits
<1>12. CASE cfg.family = "aws-nitro-enclave"
  <2>1. NitroVerify(ev, q.nonce)
    BY <1>1, <1>3 DEF NitroVerify, NitroDocument, NitroEnvelopeVerifies
  <2> QED BY <1>1, <1>2, <1>12, <2>1 DEF Admits
<1>13. CASE cfg.family \notin SEVFamilies \union {"gcp-tdx", "aws-nitro-enclave"}
  <2>1. SimulatedVerify(ev, q.nonce)
    BY <1>1, <1>3 DEF SimulatedVerify
  <2> QED BY <1>1, <1>2, <1>13, <2>1 DEF Admits, SEVFamilies
<1> QED BY <1>8, <1>9, <1>10, <1>11, <1>12, <1>13 DEF SEVFamilies, AzureFamilies

(* Directories that hold current documents are enough with no vendor.      *)
LEMMA CurrentAreEnough ==
    ASSUME AttestationInv, cfg.keeps, NEW q \in FreshQuotes, NEW a,
           \A d \in Needs(q.of) : CacheCurrent(d),
           JWKS \in Needs(q.of) => Holds(disk[JWKS], q.key),
           NEW memory, memory[q.of] = NoDoc
    PROVE  DocumentsEnough(q, a, memory)
<1>1. q.of \in Machines
  BY FreshIsSound
<1>2. \A d : Kept(d) = disk[d]
  BY DEF Kept
<1>3. NoDoc.body # "genuine"
  BY DEF NoDoc
<1>4. ASSUME "vcek" \in Asked PROVE VCEK(q.of, a["vcek"], memory).body = "genuine"
  <2>1. VCEKId(q.of) \in Needs(q.of)
    BY <1>1, <1>4 DEF Needs, DocIds, VCEKId
  <2>2. disk[VCEKId(q.of)].body = "genuine"
    BY <2>1 DEF CacheCurrent, VCEKId
  <2> QED BY <2>2, <1>2, <1>3 DEF VCEK
<1>5. ASSUME cfg.family = "azure-cgpu", cfg.mode # "own" PROVE Holds(JWKSFor(q.key, a["jwks"]), q.key)
  <2>1. "jwks" \in Asked
    BY <1>5 DEF Asked, SEVFamilies
  <2>2. JWKS \in Needs(q.of)
    BY <2>1 DEF Needs, DocIds, JWKS
  <2>3. Holds(disk[JWKS], q.key) /\ disk[JWKS].body = "genuine"
    BY <2>2 DEF Holds
  <2>4. LoadJWKS(FALSE, a["jwks"]) = disk[JWKS]
    BY <2>3, <1>2 DEF LoadJWKS
  <2> QED BY <2>3, <2>4 DEF JWKSFor
<1>6. ASSUME cfg.family = "azure-cgpu", cfg.mode # "nras"
      PROVE  OCSPAnswer(q.of, a["ocsp"]) # NoDoc /\ RIMManifest(a["rim"]) # NoDoc
  <2>1. "ocsp" \in Asked /\ "rim" \in Asked
    BY <1>6 DEF Asked, SEVFamilies
  <2>2. OCSPId(q.of) \in Needs(q.of) /\ RIM \in Needs(q.of)
    BY <1>1, <2>1 DEF Needs, DocIds, OCSPId, RIM
  <2>3. CacheCurrent(OCSPId(q.of)) /\ CacheCurrent(RIM)
    BY <2>2
  <2>4. disk[OCSPId(q.of)].body = "genuine" /\ now < disk[OCSPId(q.of)].until
    BY <2>3 DEF CacheCurrent, OCSPId
  <2>5. disk[OCSPId(q.of)].until \in Nat /\ now \in Nat
    BY <1>1 DEF AttestationInv, CachesInv, Surroundings, Dated, Documents, NoDoc, DocIds, OCSPId
  <2>6. disk[RIM].body = "genuine"
    BY <2>3 DEF CacheCurrent, RIM
  <2>7. OCSPValid(disk[OCSPId(q.of)])
    BY <2>4, <2>5 DEF OCSPValid
  <2>8. OCSPAnswer(q.of, a["ocsp"]) = disk[OCSPId(q.of)]
    BY <2>7, <1>2 DEF OCSPAnswer
  <2>9. RIMManifest(a["rim"]) = disk[RIM]
    BY <2>6, <1>2 DEF RIMManifest, ParseRIM
  <2> QED BY <2>4, <2>6, <2>8, <2>9, <1>3
<1>7. ASSUME cfg.family = "gcp-tdx"
      PROVE  PCSDocument(TCBInfo, a["tcbInfo"]) # NoDoc /\ PCSDocument(QEIdentity, a["qeIdentity"]) # NoDoc
  <2>1. "tcbInfo" \in Asked /\ "qeIdentity" \in Asked
    BY <1>7 DEF Asked, SEVFamilies
  <2>2. TCBInfo \in Needs(q.of) /\ QEIdentity \in Needs(q.of)
    BY <2>1 DEF Needs, DocIds, TCBInfo, QEIdentity
  <2>3. DocumentCurrent(disk[TCBInfo])
    BY <2>2 DEF CacheCurrent, TCBInfo
  <2>4. DocumentCurrent(disk[QEIdentity])
    BY <2>2 DEF CacheCurrent, QEIdentity
  <2>5. \A x : DocumentCurrent(x) => x # NoDoc
    BY <1>3 DEF DocumentCurrent, VerifyPCSSignature
  <2> QED BY <2>3, <2>4, <2>5, <1>2 DEF PCSDocument
<1> QED BY <1>4, <1>5, <1>6, <1>7 DEF DocumentsEnough

(* Vendors that answer well are enough, whatever the caches hold but a page *)
(* kept as a VCEK.                                                          *)
LEMMA GoodAnswersAreEnough ==
    ASSUME AttestationInv, NEW q \in FreshQuotes,
           mem[q.of].body # "garbage", Kept(VCEKId(q.of)).body # "garbage",
           NEW a, \A k \in Kinds : a[k] = "good"
    PROVE  DocumentsEnough(q, a, mem)
<1>1. q.of \in Machines /\ q \in quoted
  BY FreshIsSound
<1>2. NoDoc.body # "genuine"
  BY DEF NoDoc
<1>3. /\ a["vcek"] = "good" /\ a["jwks"] = "good" /\ a["ocsp"] = "good" /\ a["rim"] = "good"
      /\ a["tcbInfo"] = "good" /\ a["qeIdentity"] = "good"
  BY DEF Kinds
<1>4. \A d : Fetched(d, "good").body = "genuine"
  BY DEF Fetched
<1>5. \A d : d[1] \notin {"jwks", "rim"} => Fetched(d, "good").until = now + Validity
  BY DEF Fetched
<1>6. now < now + Validity /\ now <= now + Validity
  BY AttestationAssumption DEF AttestationInv, Surroundings
<1>7. VCEK(q.of, "good", mem).body = "genuine"
  <2>1. \A x \in Documents : x # NoDoc /\ x.body # "garbage" => x.body = "genuine"
    BY DEF Documents
  <2>2. mem[q.of] \in Documents
    BY <1>1 DEF AttestationInv, CachesInv, Dated
  <2>3. VCEKId(q.of) \in DocIds
    BY <1>1 DEF DocIds, VCEKId
  <2>4. Kept(VCEKId(q.of)) \in Documents
    BY <2>3, KeptIsDated DEF Dated
  <2> QED BY <2>1, <2>2, <2>4, <1>4 DEF VCEK
<1>8. Holds(JWKSFor(q.key, "good"), q.key)
  <2>1. PICK set : set = LoadJWKS(FALSE, "good")
    OBVIOUS
  <2>2. set.body = "genuine"
    BY <2>1, <1>4 DEF LoadJWKS
  <2>3. CASE Holds(set, q.key)
    BY <2>1, <2>3 DEF JWKSFor
  <2>4. CASE ~Holds(set, q.key)
    <3>1. JWKSFor(q.key, "good") = Fetched(JWKS, "good")
      BY <2>1, <2>2, <2>4, <1>4 DEF JWKSFor, LoadJWKS
    <3>2. "jwks" \in DOMAIN published
      BY DEF AttestationInv, Surroundings, Replaced
    <3>3. q.key = "new" => Fetched(JWKS, "good").newer
      BY <3>2, <1>1 DEF AttestationInv, QuotesInv, Fetched, JWKS
    <3> QED BY <3>1, <3>3, <1>4 DEF Holds
  <2> QED BY <2>3, <2>4
<1>9. OCSPAnswer(q.of, "good") # NoDoc
  <2>1. PICK x : x = Fetched(OCSPId(q.of), "good")
    OBVIOUS
  <2>2. x.body = "genuine" /\ x.until = now + Validity
    BY <2>1, <1>4, <1>5 DEF OCSPId
  <2>3. OCSPValid(x)
    BY <2>2, <1>6 DEF OCSPValid
  <2>4. \A y : OCSPValid(y) => y # NoDoc
    BY <1>2 DEF OCSPValid
  <2> QED BY <2>1, <2>3, <2>4 DEF OCSPAnswer
<1>10. RIMManifest("good") # NoDoc
  BY <1>2, <1>4 DEF RIMManifest, ParseRIM
<1>11. ASSUME NEW d, d[1] \notin {"jwks", "rim"} PROVE PCSDocument(d, "good") # NoDoc
  <2>1. PICK x : x = Fetched(d, "good")
    OBVIOUS
  <2>2. x.body = "genuine" /\ x.until = now + Validity
    BY <2>1, <1>4, <1>5, <1>11
  <2>3. DocumentCurrent(x)
    BY <2>2, <1>6 DEF DocumentCurrent, VerifyPCSSignature
  <2>4. \A y : DocumentCurrent(y) => y # NoDoc
    BY <1>2 DEF DocumentCurrent, VerifyPCSSignature
  <2> QED BY <2>1, <2>3, <2>4 DEF PCSDocument
<1>12. PCSDocument(TCBInfo, "good") # NoDoc /\ PCSDocument(QEIdentity, "good") # NoDoc
  <2>1. TCBInfo[1] \notin {"jwks", "rim"} /\ QEIdentity[1] \notin {"jwks", "rim"}
    BY DEF TCBInfo, QEIdentity
  <2> QED BY <2>1, <1>11
<1> QED BY <1>3, <1>7, <1>8, <1>9, <1>10, <1>12 DEF DocumentsEnough

(* Theorem: an air-gapped site can rely on cache-status.  A verifier        *)
(* started on directories that hold what a machine's evidence needs, each   *)
(* document called current and the key set holding the token's key, admits  *)
(* that machine with no vendor to ask (cache_status.go, and each client     *)
(* that reads its cache first).                                             *)
THEOREM CurrentCachesSuffice == AttestationSpec => []CurrentIsEnough
<1>1. AttestationInv => CurrentIsEnough
  <2> SUFFICES ASSUME AttestationInv, cfg.keeps, NEW q \in FreshQuotes,
                      \A d \in Needs(q.of) : CacheCurrent(d),
                      JWKS \in Needs(q.of) => Holds(disk[JWKS], q.key)
               PROVE  Admits(Own(q), q.nonce, AllAnswer("down"), [m \in Machines |-> NoDoc])
    BY DEF CurrentIsEnough
  <2>1. PICK a, memory : a = AllAnswer("down") /\ memory = [m \in Machines |-> NoDoc]
    OBVIOUS
  <2>2. memory[q.of] = NoDoc
    BY <2>1, FreshIsSound
  <2>3. Admits(Own(q), q.nonce, a, memory)
    BY <2>2, CurrentAreEnough, EnoughIsAdmitted
  <2> QED BY <2>1, <2>3
<1> QED BY <1>1, AttestationInvariant, PTL

(* Theorem: whatever the caches hold, a sound machine is admitted when the  *)
(* vendors answer: an expired document is fetched again and a rotated key   *)
(* set followed, unless a page that is not a VCEK was kept as one           *)
(* (gcp_sev_snp.go fetchVCEK, nras JWKS verify, gcp_tdx_pcs.go document).   *)
THEOREM SoundMachinesAreAdmitted == AttestationSpec => []SoundIsAdmitted
<1>1. AttestationInv => SoundIsAdmitted
  <2> SUFFICES ASSUME AttestationInv, NEW q \in FreshQuotes,
                      mem[q.of].body # "garbage", Kept(VCEKId(q.of)).body # "garbage"
               PROVE  Admits(Own(q), q.nonce, AllAnswer("good"), mem)
    BY DEF SoundIsAdmitted
  <2>1. PICK a : a = AllAnswer("good")
    OBVIOUS
  <2>2. \A k \in Kinds : a[k] = "good"
    BY <2>1 DEF AllAnswer
  <2>3. Admits(Own(q), q.nonce, a, mem)
    BY <2>2, GoodAnswersAreEnough, EnoughIsAdmitted
  <2> QED BY <2>1, <2>3
<1> QED BY <1>1, AttestationInvariant, PTL
=============================================================================
