------------------------------- MODULE JobQueue -------------------------------
(***************************************************************************)
(* The queue: the rows of jobs and analyses, the statements of db/queries  *)
(* the API and the workers run on them, and the worker processes that run  *)
(* those statements one after the other with an analysis in between.       *)
(*                                                                         *)
(* A statement in autocommit is one action.  Everything a worker does      *)
(* between two statements is a change of its pc; its heartbeat thread, the *)
(* leases running out, crashes, restarts and the API's submissions         *)
(* interleave with every one of them.                                      *)
(***************************************************************************)
EXTENDS Naturals, FiniteSets

CONSTANTS Worker,          \* worker ids (host/pid)
          Drainer,         \* the workers in drain mode; the others run forever
          Identity,        \* analysis identities: the columns of the unique keys
          Build,           \* pairs of poke_engine_tag and usage_stats_dataset
          BuildOf,         \* identity -> the build two of its columns assert
          Carries,         \* worker -> the build it carries
          StoredReplay,    \* the identities whose replay is in replays
          EngineKind,      \* the error kinds the engine adapter classifies
          Retryable,       \* RETRYABLE
          MaxAttempts,     \* JOB_MAX_ATTEMPTS
          MaxJobs,         \* bound: rows ever inserted into jobs
          MaxCrashes,      \* bound: worker processes that die
          NULL

ASSUME SetsAssumption ==
  /\ Drainer \subseteq Worker
  /\ BuildOf \in [Identity -> Build]
  /\ Carries \in [Worker -> Build]
  /\ StoredReplay \subseteq Identity
  /\ Retryable \subseteq EngineKind
  /\ "replay_not_found" \notin Retryable
  /\ "engine_internal_error" \notin Retryable
ASSUME BoundsAssumption ==
  /\ MaxAttempts \in Nat \ {0}
  /\ MaxJobs \in Nat
  /\ MaxCrashes \in Nat
ASSUME NULLAssumption ==
  NULL \notin Worker \cup Identity \cup Build \cup EngineKind
              \cup {"replay_not_found", "engine_internal_error"}

VARIABLES submitted,   \* the number of rows of jobs
          jobs,        \* job number -> row, numbered in order of created_at, id
          analyses,    \* identity -> the build that produced its row, or NULL
          joining,     \* jobs whose row a submission's ON CONFLICT has locked
          worker,      \* worker -> its process
          crashes      \* how many processes have died

vars == <<submitted, jobs, analyses, joining, worker, crashes>>

JobId == 1..MaxJobs
ErrorKind == EngineKind \cup {"replay_not_found", "engine_internal_error"}

(* Mutant: a dead letter of a kind outside the closed vocabulary.          *)
LeaseExpiredKind == "lease_expired"

(* The kind reclaim_expired.sql gives a dead letter.                       *)
DeadLetterKind == "engine_internal_error"

(* A row of jobs.  The three claim columns are the owner and whether the   *)
(* lease is in the future; analysis_id is the row of the job's identity.   *)
JobRow == [identity : Identity \cup {NULL},
           status   : {"none", "queued", "running", "succeeded", "failed"},
           attempts : Nat,
           owner    : Worker \cup {NULL},
           lease    : {"none", "live", "expired"},
           error    : ErrorKind \cup {NULL}]

NoRow == [identity |-> NULL, status |-> "none", attempts |-> 0,
          owner |-> NULL, lease |-> "none", error |-> NULL]

(* A worker process: where its loop stands, the job and attempt number its *)
(* claim returned (0 when it holds none), its heartbeat thread, and the    *)
(* kind of the failure it is about to report.                              *)
Process == [pc      : {"down", "reclaim", "claim", "load", "analyze",
                       "store", "complete", "fail"},
            job     : 0..MaxJobs,
            attempt : Nat,
            hb      : {"off", "on", "lost", "died"},
            kind    : ErrorKind \cup {NULL}]

At(pc) == [pc |-> pc, job |-> 0, attempt |-> 0, hb |-> "off", kind |-> NULL]
Down == At("down")

(* The head of the loop: run_until_empty reclaims before every claim,      *)
(* run_forever claims first.                                               *)
LoopHead(w) == At(IF w \in Drainer THEN "reclaim" ELSE "claim")

TypeOK ==
  /\ submitted \in 0..MaxJobs
  /\ jobs \in [JobId -> JobRow]
  /\ analyses \in [Identity -> Build \cup {NULL}]
  /\ joining \subseteq JobId
  /\ worker \in [Worker -> Process]
  /\ crashes \in 0..MaxCrashes

Init ==
  /\ submitted = 0
  /\ jobs = [j \in JobId |-> NoRow]
  /\ analyses = [i \in Identity |-> NULL]
  /\ joining = {}
  /\ worker = [w \in Worker |-> Down]
  /\ crashes = 0

Live(j) == jobs[j].status \in {"queued", "running"}

(* Mutant: the statements are not scoped to the claiming worker.           *)
OwnedByAnyone(w, j) == jobs[j].status = "running"

(* The WHERE clause of heartbeat.sql, complete_job.sql and fail_job.sql.   *)
Owns(w, j) == jobs[j].status = "running" /\ jobs[j].owner = w

(* Mutants: a cap off by one; any failure worth a retry.                   *)
AttemptLeftOrSpent(j) == jobs[j].attempts <= MaxAttempts
RetriesAnyKind(k, j) == jobs[j].attempts < MaxAttempts

(* The cap both fail_job.sql and reclaim_expired.sql test before a job goes *)
(* back to the queue; claim_job.sql never tests it.                        *)
AttemptLeft(j) == jobs[j].attempts < MaxAttempts
Retries(k, j) == k \in Retryable /\ AttemptLeft(j)

(* Mutant: a claim column is left behind.                                  *)
ReleasedUnderLease(row, status, error) ==
  [row EXCEPT !.status = status, !.error = error, !.owner = NULL]

(* What the three statements that take a job from its worker leave in the  *)
(* claim columns: jobs_claim_is_all_or_nothing wants all of them cleared.  *)
Released(row, status, error) ==
  [row EXCEPT !.status = status, !.error = error, !.owner = NULL, !.lease = "none"]

-----------------------------------------------------------------------------
(* Submissions: enqueue_job.sql. *)

(* Mutant: a partial index over the queued rows only.                      *)
ConflictingQueued(i) ==
  {j \in JobId : jobs[j].status = "queued" /\ jobs[j].identity = i}

(* The rows of the partial unique index jobs_active_identity_key that an   *)
(* insert of this identity conflicts with.                                 *)
Conflicting(i) == {j \in JobId : Live(j) /\ jobs[j].identity = i}

Enqueue(i) ==
  /\ submitted < MaxJobs
  /\ Conflicting(i) = {}
  /\ submitted' = submitted + 1
  /\ jobs' = [jobs EXCEPT ![submitted + 1] =
               [NoRow EXCEPT !.identity = i, !.status = "queued"]]
  /\ UNCHANGED <<analyses, joining, worker, crashes>>

(* ON CONFLICT DO UPDATE assigns nothing new but locks the live row, and   *)
(* holds the lock until the statement ends.                                *)
Join(j) ==
  /\ Live(j)
  /\ j \notin joining
  /\ joining' = joining \cup {j}
  /\ UNCHANGED <<submitted, jobs, analyses, worker, crashes>>

EndJoin(j) ==
  /\ j \in joining
  /\ joining' = joining \ {j}
  /\ UNCHANGED <<submitted, jobs, analyses, worker, crashes>>

-----------------------------------------------------------------------------
(* The worker's loop. *)

Start(w) ==
  /\ worker[w].pc = "down"
  /\ worker' = [worker EXCEPT ![w] = LoopHead(w)]
  /\ UNCHANGED <<submitted, jobs, analyses, joining, crashes>>

(* Mutant: a WHERE clause that leaves jobs at the cap alone.               *)
ExpiredUnderCap == {j \in JobId : /\ jobs[j].status = "running"
                                  /\ jobs[j].lease = "expired"
                                  /\ AttemptLeft(j)}

Expired == {j \in JobId : jobs[j].status = "running" /\ jobs[j].lease = "expired"}

(* reclaim_expired.sql: every expired job at once, whoever submitted it    *)
(* and whatever its build; the statement waits for locked rows.            *)
ReclaimExpired(w) ==
  /\ worker[w].pc = "reclaim"
  /\ Expired \cap joining = {}
  /\ jobs' = [j \in JobId |->
               IF j \notin Expired THEN jobs[j]
               ELSE IF AttemptLeft(j)
                    THEN Released(jobs[j], "queued", jobs[j].error)
                    ELSE Released(jobs[j], "failed", DeadLetterKind)]
  /\ worker' = [worker EXCEPT ![w] = At("claim")]
  /\ UNCHANGED <<submitted, analyses, joining, crashes>>

(* Mutant: a claim that treats the build as a preference.                  *)
ClaimableByAnyBuild(w) == {j \in JobId \ joining : jobs[j].status = "queued"}

(* The rows claim_job.sql's subquery can lock: queued, of the worker's own *)
(* build, and not skipped for being locked by somebody else.               *)
Claimable(w) ==
  {j \in JobId \ joining :
     jobs[j].status = "queued" /\ BuildOf[jobs[j].identity] = Carries[w]}

Claimed(row, w) == [row EXCEPT !.status = "running", !.attempts = @ + 1,
                               !.owner = w, !.lease = "live"]

Holding(j, attempt) == [At("load") EXCEPT !.job = j, !.attempt = attempt]

Claim(w) ==
  /\ worker[w].pc = "claim"
  /\ \E j \in Claimable(w) :
       /\ \A k \in Claimable(w) : j <= k
       /\ jobs' = [jobs EXCEPT ![j] = Claimed(jobs[j], w)]
       /\ worker' = [worker EXCEPT ![w] = Holding(j, jobs[j].attempts + 1)]
  /\ UNCHANGED <<submitted, analyses, joining, crashes>>

(* Nothing to claim: a drainer returns and its process ends, the other     *)
(* mode reclaims and sleeps before it asks again.                          *)
ClaimNothing(w) ==
  /\ worker[w].pc = "claim"
  /\ Claimable(w) = {}
  /\ worker' = [worker EXCEPT ![w] = IF w \in Drainer THEN Down ELSE At("reclaim")]
  /\ UNCHANGED <<submitted, jobs, analyses, joining, crashes>>

(* _load_replay, then the engine is called with a heartbeat running. *)
LoadReplay(w) ==
  /\ worker[w].pc = "load"
  /\ worker' = [worker EXCEPT ![w] =
       IF jobs[worker[w].job].identity \in StoredReplay
       THEN [@ EXCEPT !.pc = "analyze", !.hb = "on"]
       ELSE [@ EXCEPT !.pc = "fail", !.kind = "replay_not_found"]]
  /\ UNCHANGED <<submitted, jobs, analyses, joining, crashes>>

-----------------------------------------------------------------------------
(* The heartbeat thread, while the engine runs: heartbeat.sql. *)

Renew(w) ==
  /\ worker[w].pc = "analyze" /\ worker[w].hb = "on"
  /\ worker[w].job \notin joining
  /\ Owns(w, worker[w].job)
  /\ jobs' = [jobs EXCEPT ![worker[w].job].lease = "live"]
  /\ UNCHANGED <<submitted, analyses, joining, worker, crashes>>

(* Zero rows: the job is no longer this worker's.  The thread says so and  *)
(* ends.                                                                   *)
LoseLease(w) ==
  /\ worker[w].pc = "analyze" /\ worker[w].hb = "on"
  /\ ~Owns(w, worker[w].job)
  /\ worker' = [worker EXCEPT ![w].hb = "lost"]
  /\ UNCHANGED <<submitted, jobs, analyses, joining, crashes>>

(* An exception in the thread (its connection dropped) ends it without     *)
(* setting lost: the analysis goes on, unrenewed and unaware.              *)
HeartbeatDies(w) ==
  /\ worker[w].pc = "analyze" /\ worker[w].hb = "on"
  /\ worker' = [worker EXCEPT ![w].hb = "died"]
  /\ UNCHANGED <<submitted, jobs, analyses, joining, crashes>>

-----------------------------------------------------------------------------
(* The engine's answer and its report. *)

AnalysisReturns(w) ==
  /\ worker[w].pc = "analyze"
  /\ worker' = [worker EXCEPT ![w] =
       IF worker[w].hb = "lost" THEN LoopHead(w)
       ELSE [@ EXCEPT !.pc = "store", !.hb = "off"]]
  /\ UNCHANGED <<submitted, jobs, analyses, joining, crashes>>

(* An EngineFailure leaves the with block without a look at lost.          *)
AnalysisFails(w, k) ==
  /\ worker[w].pc = "analyze"
  /\ worker' = [worker EXCEPT ![w] = [@ EXCEPT !.pc = "fail", !.hb = "off", !.kind = k]]
  /\ UNCHANGED <<submitted, jobs, analyses, joining, crashes>>

(* Mutant: the insert commits on its own.                                  *)
InsertAnalysisInAutocommit(w) ==
  /\ worker[w].pc = "store"
  /\ analyses' = [analyses EXCEPT ![jobs[worker[w].job].identity] = Carries[w]]
  /\ worker' = [worker EXCEPT ![w].pc = "complete"]
  /\ UNCHANGED <<submitted, jobs, joining, crashes>>

(* The first statement of the success transaction.  The row is invisible   *)
(* until the commit, but a second insert of the same identity waits on it. *)
InsertAnalysis(w) ==
  /\ worker[w].pc = "store"
  /\ \A v \in Worker : worker[v].pc = "complete" =>
       jobs[worker[v].job].identity # jobs[worker[w].job].identity
  /\ worker' = [worker EXCEPT ![w].pc = "complete"]
  /\ UNCHANGED <<submitted, jobs, analyses, joining, crashes>>

(* Mutant: zero rows from complete_job.sql do not roll the insert back.    *)
CompleteJobWithoutRollback(w) ==
  LET j == worker[w].job IN
  /\ worker[w].pc = "complete"
  /\ Owns(w, j) => j \notin joining
  /\ jobs' = IF Owns(w, j) THEN [jobs EXCEPT ![j] = Released(@, "succeeded", NULL)] ELSE jobs
  /\ analyses' = [analyses EXCEPT ![jobs[j].identity] = Carries[w]]
  /\ worker' = [worker EXCEPT ![w] = LoopHead(w)]
  /\ UNCHANGED <<submitted, joining, crashes>>

(* complete_job.sql and the end of the transaction: the commit makes the   *)
(* analysis and the finished job visible together, zero rows roll it back. *)
CompleteJob(w) ==
  LET j == worker[w].job IN
  /\ worker[w].pc = "complete"
  /\ Owns(w, j) => j \notin joining
  /\ IF Owns(w, j)
     THEN /\ jobs' = [jobs EXCEPT ![j] = Released(@, "succeeded", NULL)]
          /\ analyses' = [analyses EXCEPT ![jobs[j].identity] = Carries[w]]
     ELSE UNCHANGED <<jobs, analyses>>
  /\ worker' = [worker EXCEPT ![w] = LoopHead(w)]
  /\ UNCHANGED <<submitted, joining, crashes>>

(* Mutant: fail_job.sql finds its job by id alone.                         *)
FailJobById(w) ==
  LET j == worker[w].job IN
  /\ worker[w].pc = "fail"
  /\ jobs' = [jobs EXCEPT ![j] =
               IF Retries(worker[w].kind, j) THEN Released(@, "queued", worker[w].kind)
               ELSE Released(@, "failed", worker[w].kind)]
  /\ worker' = [worker EXCEPT ![w] = LoopHead(w)]
  /\ UNCHANGED <<submitted, analyses, joining, crashes>>

(* fail_job.sql.  Zero rows are ignored: the report was stale.             *)
FailJob(w) ==
  LET j == worker[w].job
      k == worker[w].kind
  IN
  /\ worker[w].pc = "fail"
  /\ Owns(w, j) => j \notin joining
  /\ jobs' = IF ~Owns(w, j) THEN jobs
             ELSE [jobs EXCEPT ![j] =
                    IF Retries(k, j)
                    THEN Released(@, "queued", k)
                    ELSE Released(@, "failed", k)]
  /\ worker' = [worker EXCEPT ![w] = LoopHead(w)]
  /\ UNCHANGED <<submitted, analyses, joining, crashes>>

-----------------------------------------------------------------------------
(* What nobody decides. *)

(* The process dies: killed, out of memory, or on an exception run_once    *)
(* does not classify.  An open transaction is rolled back.                 *)
Crash(w) ==
  /\ worker[w].pc # "down"
  /\ crashes < MaxCrashes
  /\ crashes' = crashes + 1
  /\ worker' = [worker EXCEPT ![w] = Down]
  /\ UNCHANGED <<submitted, jobs, analyses, joining>>

LeaseExpires(j) ==
  /\ jobs[j].status = "running"
  /\ jobs[j].lease = "live"
  /\ jobs' = [jobs EXCEPT ![j].lease = "expired"]
  /\ UNCHANGED <<submitted, analyses, joining, worker, crashes>>

-----------------------------------------------------------------------------
WorkerStep(w) ==
  \/ Start(w)
  \/ ReclaimExpired(w)
  \/ Claim(w)
  \/ ClaimNothing(w)
  \/ LoadReplay(w)
  \/ AnalysisReturns(w)
  \/ \E k \in EngineKind : AnalysisFails(w, k)
  \/ InsertAnalysis(w)
  \/ CompleteJob(w)
  \/ FailJob(w)

HeartbeatStep(w) == Renew(w) \/ LoseLease(w) \/ HeartbeatDies(w)

Next ==
  \/ \E i \in Identity : Enqueue(i)
  \/ \E j \in JobId : Join(j) \/ EndJoin(j) \/ LeaseExpires(j)
  \/ \E w \in Worker : WorkerStep(w) \/ HeartbeatStep(w) \/ Crash(w)

Spec == Init /\ [][Next]_vars

(* A lease nobody renews runs out.  The process that holds it may be gone, *)
(* past its heartbeat, or unaware that its heartbeat thread has died.      *)
Renewed(j) == \E w \in Worker :
  worker[w].job = j /\ worker[w].hb = "on" /\ Owns(w, j)

AbandonedLeaseExpires(j) == ~Renewed(j) /\ LeaseExpires(j)

(* Processes are restarted (compose) or started again by the sweep, the    *)
(* engine answers, statements end.  Nothing is asked of the heartbeat, of  *)
(* submissions or of crashes.                                              *)
Fairness ==
  /\ \A w \in Worker : WF_vars(WorkerStep(w))
  /\ \A j \in JobId : WF_vars(EndJoin(j)) /\ WF_vars(AbandonedLeaseExpires(j))

FairSpec == Spec /\ Fairness

-----------------------------------------------------------------------------
(* Safety. *)

(* At most one job of an identity is queued or running: what makes a       *)
(* resubmission free (jobs_active_identity_key).  Jobs come back to the    *)
(* queue from two statements, and neither looks at the index.              *)
OneLiveJobPerIdentity ==
  \A j, k \in JobId :
    Live(j) /\ Live(k) /\ jobs[j].identity = jobs[k].identity => j = k

(* No job is attempted more often than JOB_MAX_ATTEMPTS allows, however    *)
(* its attempts end, although the statement that spends an attempt does    *)
(* not test the cap: no job that has spent them all may be queued.         *)
AttemptsCapped == \A j \in JobId : jobs[j].attempts <= MaxAttempts

(* The CHECKs of the jobs table hold in every row a statement leaves; one  *)
(* that did not would be an exception in the worker that ran it: the claim *)
(* columns are set together and exactly on running jobs, a failed job has  *)
(* a kind, a succeeded job has an analysis.                                *)
RowsPassChecks ==
  \A j \in JobId :
    /\ (jobs[j].owner = NULL) <=> (jobs[j].lease = "none")
    /\ (jobs[j].owner = NULL) <=> (jobs[j].status # "running")
    /\ jobs[j].status = "failed" => jobs[j].error # NULL
    /\ jobs[j].status = "succeeded" =>
         analyses[jobs[j].identity] # NULL /\ jobs[j].error = NULL

(* An error kind shown on a job that is not over is one worth a retry: a   *)
(* client that polls never reads a final-looking failure and later sees a  *)
(* success, across requeues, reclaims and stale reports.                   *)
LiveErrorIsRetryable ==
  \A j \in JobId : Live(j) /\ jobs[j].error # NULL => jobs[j].error \in Retryable

(* Every analysis belongs to a job that succeeded: whatever a worker that  *)
(* lost its lease inserts is rolled back ("an analysis attached to         *)
(* nothing", queue.py).                                                    *)
AnalysisHasJob ==
  \A i \in Identity : analyses[i] # NULL =>
    \E j \in JobId : jobs[j].identity = i /\ jobs[j].status = "succeeded"

(* An analysis was produced by the build its identity asserts, in a fleet  *)
(* whose workers carry different builds.                                   *)
AnalysisHonorsBuild ==
  \A i \in Identity : analyses[i] \in {NULL, BuildOf[i]}

-----------------------------------------------------------------------------
(* What a step may not do. *)

(* A job that succeeded or failed stays as it is: no late report, reclaim  *)
(* or claim of a worker that believes it still owns it changes the row.    *)
TerminalIsFinal ==
  [][\A j \in JobId :
       jobs[j].status \in {"succeeded", "failed"} => jobs'[j] = jobs[j]]_vars

(* A claim ends in two ways only: its lease is over and a worker reclaims  *)
(* it, or the process that made this very claim, and not an earlier one of *)
(* the same job, reports on it.                                            *)
ClaimEndsByOwnerOrExpiry ==
  [][\A j \in JobId :
       jobs[j].status = "running" /\ jobs'[j].status # "running" =>
         \/ j \in Expired /\ \E w \in Worker : worker[w].pc = "reclaim"
         \/ \E w \in Worker :
              /\ worker[w].pc \in {"complete", "fail"}
              /\ worker[w].job = j
              /\ worker[w].attempt = jobs[j].attempts
              /\ jobs[j].owner = w]_vars

-----------------------------------------------------------------------------
(* Liveness. *)

Served(j) == \E w \in Worker : BuildOf[jobs[j].identity] = Carries[w]
Over(j) == jobs[j].status \in {"succeeded", "failed"}

(* Every job of a build some worker carries ends, through crashes, dead    *)
(* heartbeats and lost leases, once its clients stop resubmitting it: the  *)
(* SKIP LOCKED of a claim has no place in PostgreSQL's lock queue, so a    *)
(* client that resubmits at the very moment of every claim hides the job.  *)
EveryJobEnds ==
  \A j \in JobId :
    <>[](j \notin joining) => (Live(j) /\ Served(j) ~> Over(j))

-----------------------------------------------------------------------------
(* The queue as its users see it. *)

Lifecycle == INSTANCE JobLifecycle WITH
  identity  <- [j \in JobId |-> jobs[j].identity],
  status    <- [j \in JobId |-> jobs[j].status],
  attempts  <- [j \in JobId |-> jobs[j].attempts],
  published <- {i \in Identity : analyses[i] # NULL}

(* Workers, leases, heartbeats and transactions show nothing of themselves: *)
(* the queue implements the life of a job.                                 *)
ImplementsLifecycle == Lifecycle!Spec
=============================================================================
