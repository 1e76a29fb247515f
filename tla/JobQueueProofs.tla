--------------------------- MODULE JobQueueProofs ---------------------------
(* Theorems about JobQueue, for every fleet, every set of identities and   *)
(* builds and every value of the bounds.                                   *)
EXTENDS JobQueue, TLAPS

-----------------------------------------------------------------------------
(* Types. *)

(* The process records that the actions build are of the type. *)
LEMMA ProcessTypes ==
  ASSUME NEW w \in Worker
  PROVE  /\ \A pc \in {"down", "reclaim", "claim", "load", "analyze",
                       "store", "complete", "fail"} : At(pc) \in Process
         /\ LoopHead(w) \in Process /\ Down \in Process
<1>1. 0 \in 0..MaxJobs
  BY BoundsAssumption
<1> QED
  BY <1>1 DEF At, LoopHead, Down, Process

(* A row that is released is of the type. *)
LEMMA RowTypes ==
  ASSUME NEW row \in JobRow, NEW e \in ErrorKind \cup {NULL},
         NEW s \in {"none", "queued", "running", "succeeded", "failed"}
  PROVE  Released(row, s, e) \in JobRow
BY DEF Released, JobRow

(* A row that is claimed is of the type. *)
LEMMA ClaimTypes ==
  ASSUME NEW row \in JobRow, NEW w \in Worker
  PROVE  Claimed(row, w) \in JobRow
<1>1. row.attempts + 1 \in Nat
  BY DEF JobRow
<1> QED
  BY <1>1 DEF Claimed, JobRow

(* A process that holds a job is of the type. *)
LEMMA HoldingTypes ==
  ASSUME NEW j \in JobId, NEW n \in Nat
  PROVE  Holding(j, n) \in Process
<1>1. j \in 0..MaxJobs
  BY BoundsAssumption DEF JobId
<1> QED
  BY <1>1 DEF Holding, At, Process

(* Empty tables and stopped workers have their types. *)
LEMMA TypeInit == Init => TypeOK
BY SetsAssumption, BoundsAssumption DEF Init, TypeOK, JobRow, NoRow, Process, Down, At

(* Every statement and every step of a worker keeps the types. *)
LEMMA TypeStep == TypeOK /\ [Next]_vars => TypeOK'
<1> USE SetsAssumption, BoundsAssumption
<1> SUFFICES ASSUME TypeOK, [Next]_vars
             PROVE  TypeOK'
  OBVIOUS
<1> USE DEF TypeOK
<1>0. /\ Down \in Process
      /\ \A w \in Worker : LoopHead(w) \in Process
      /\ At("claim") \in Process /\ At("reclaim") \in Process /\ At("load") \in Process
  <2>1. 0 \in 0..MaxJobs
    OBVIOUS
  <2> QED
    BY <2>1 DEF Process, At, Down, LoopHead
<1>1. CASE \E i \in Identity : Enqueue(i)
  <2> PICK i \in Identity : Enqueue(i)
    BY <1>1
  <2>1. [NoRow EXCEPT !.identity = i, !.status = "queued"] \in JobRow
    BY DEF NoRow, JobRow
  <2> QED
    BY <2>1 DEF Enqueue, JobId
<1>2. CASE \E j \in JobId : Join(j) \/ EndJoin(j)
  BY <1>2 DEF Join, EndJoin
<1>3. ASSUME NEW j \in JobId, LeaseExpires(j)
      PROVE  TypeOK'
  <2>1. [jobs[j] EXCEPT !.lease = "expired"] \in JobRow
    BY DEF JobRow
  <2> QED
    BY <1>3, <2>1 DEF LeaseExpires
<1>4. ASSUME NEW w \in Worker, Start(w) \/ ClaimNothing(w) \/ Crash(w)
      PROVE  TypeOK'
  BY <1>4, <1>0 DEF Start, ClaimNothing, Crash
<1>5. ASSUME NEW w \in Worker, ReclaimExpired(w)
      PROVE  TypeOK'
  <2>1. \A j \in JobId : /\ Released(jobs[j], "queued", jobs[j].error) \in JobRow
                         /\ Released(jobs[j], "failed", DeadLetterKind) \in JobRow
    <3> SUFFICES ASSUME NEW j \in JobId
                 PROVE  /\ Released(jobs[j], "queued", jobs[j].error) \in JobRow
                        /\ Released(jobs[j], "failed", DeadLetterKind) \in JobRow
      OBVIOUS
    <3>1. jobs[j] \in JobRow
      OBVIOUS
    <3>2. jobs[j].error \in ErrorKind \cup {NULL}
      BY <3>1 DEF JobRow
    <3>3. DeadLetterKind \in ErrorKind \cup {NULL}
      BY DEF ErrorKind, DeadLetterKind
    <3> QED
      BY <3>1, <3>2, <3>3, RowTypes
  <2> QED
    BY <1>5, <2>1, <1>0 DEF ReclaimExpired
<1>6. ASSUME NEW w \in Worker, Claim(w)
      PROVE  TypeOK'
  <2> PICK j \in Claimable(w) :
        /\ jobs' = [jobs EXCEPT ![j] = Claimed(jobs[j], w)]
        /\ worker' = [worker EXCEPT ![w] = Holding(j, jobs[j].attempts + 1)]
    BY <1>6 DEF Claim
  <2>1. j \in JobId /\ jobs[j] \in JobRow /\ jobs[j].attempts + 1 \in Nat
    BY DEF Claimable, JobRow
  <2>2. Claimed(jobs[j], w) \in JobRow
    BY <2>1, ClaimTypes
  <2>3. Holding(j, jobs[j].attempts + 1) \in Process
    BY <2>1, HoldingTypes
  <2> QED
    BY <1>6, <2>1, <2>2, <2>3 DEF Claim
<1>7. ASSUME NEW w \in Worker,
             LoadReplay(w) \/ AnalysisReturns(w) \/ InsertAnalysis(w)
               \/ \E k \in EngineKind : AnalysisFails(w, k)
      PROVE  TypeOK'
  <2>1. worker[w] \in Process
    OBVIOUS
  <2>2. /\ [worker[w] EXCEPT !.pc = "analyze", !.hb = "on"] \in Process
        /\ [worker[w] EXCEPT !.pc = "fail", !.kind = "replay_not_found"] \in Process
        /\ [worker[w] EXCEPT !.pc = "store", !.hb = "off"] \in Process
        /\ [worker[w] EXCEPT !.pc = "complete"] \in Process
        /\ \A k \in EngineKind :
             [worker[w] EXCEPT !.pc = "fail", !.hb = "off", !.kind = k] \in Process
    BY <2>1 DEF Process, ErrorKind
  <2> QED
    BY <1>7, <1>0, <2>2 DEF LoadReplay, AnalysisReturns, InsertAnalysis, AnalysisFails
<1>8. ASSUME NEW w \in Worker, HeartbeatStep(w)
      PROVE  TypeOK'
  <2>1. /\ [worker[w] EXCEPT !.hb = "lost"] \in Process
        /\ [worker[w] EXCEPT !.hb = "died"] \in Process
    BY DEF Process
  <2>2. \A j \in JobId : [jobs[j] EXCEPT !.lease = "live"] \in JobRow
    BY DEF JobRow
  <2>3. CASE Renew(w)
    BY <2>3, <2>2 DEF Renew
  <2>4. CASE LoseLease(w) \/ HeartbeatDies(w)
    BY <2>4, <2>1 DEF LoseLease, HeartbeatDies
  <2> QED
    BY <1>8, <2>3, <2>4 DEF HeartbeatStep
<1>9. ASSUME NEW w \in Worker, CompleteJob(w)
      PROVE  TypeOK'
  <2>1. \A j \in JobId : Released(jobs[j], "succeeded", NULL) \in JobRow
    BY RowTypes
  <2> QED
    BY <1>9, <2>1, <1>0 DEF CompleteJob
<1>10. ASSUME NEW w \in Worker, FailJob(w)
       PROVE  TypeOK'
  <2>1. \A j \in JobId : \A k \in ErrorKind \cup {NULL} :
          /\ Released(jobs[j], "queued", k) \in JobRow
          /\ Released(jobs[j], "failed", k) \in JobRow
    BY RowTypes
  <2>2. worker[w].kind \in ErrorKind \cup {NULL}
    BY DEF Process
  <2> QED
    BY <1>10, <2>1, <2>2, <1>0 DEF FailJob
<1>11. CASE UNCHANGED vars
  BY <1>11 DEF vars
<1> QED
  BY <1>1, <1>2, <1>3, <1>4, <1>5, <1>6, <1>7, <1>8, <1>9, <1>10, <1>11
     DEF Next, WorkerStep

(* No statement writes, and no process reaches, anything outside its type: *)
(* the status and error vocabularies are closed.                           *)
THEOREM TypeCorrect == Spec => []TypeOK
BY TypeInit, TypeStep, PTL DEF Spec

-----------------------------------------------------------------------------
(* The inductive invariant. *)

(* Rows are inserted in the order of their numbers and keep their identity. *)
RowsInOrder ==
  \A j \in JobId :
    IF j <= submitted THEN jobs[j].identity \in Identity /\ jobs[j].status # "none"
    ELSE jobs[j] = NoRow

(* A process past its claim holds a job of the build it carries, and one   *)
(* about to report a failure has a kind to report.                         *)
HoldersAreServing ==
  \A w \in Worker :
    /\ worker[w].pc \in {"load", "analyze", "store", "complete", "fail"} =>
         worker[w].job # 0
    /\ worker[w].job # 0 =>
         /\ worker[w].job <= submitted
         /\ BuildOf[jobs[worker[w].job].identity] = Carries[w]
    /\ worker[w].pc = "fail" => worker[w].kind # NULL

(* The cap is kept because a queued job always has an attempt left.        *)
AttemptBudget ==
  \A j \in JobId : /\ jobs[j].attempts <= MaxAttempts
                   /\ jobs[j].status = "queued" => AttemptLeft(j)

(* The worker id is as good as a fencing token: when it matches, the       *)
(* process is the one of the row's latest attempt.                         *)
OwnerIsLatestAttempt ==
  \A w \in Worker : \A j \in JobId :
    worker[w].job = j /\ jobs[j].owner = w => worker[w].attempt = jobs[j].attempts

Inv ==
  /\ TypeOK
  /\ RowsInOrder
  /\ HoldersAreServing
  /\ OneLiveJobPerIdentity
  /\ AttemptBudget
  /\ RowsPassChecks
  /\ LiveErrorIsRetryable
  /\ AnalysisHasJob
  /\ AnalysisHonorsBuild
  /\ OwnerIsLatestAttempt

-----------------------------------------------------------------------------
(* What a step does to one row of jobs. *)

(* The nine things that can happen to row j in a step; the invariants      *)
(* about rows are proved from this, not from the actions.                  *)
Inserted(j) ==
  /\ j = submitted + 1 /\ submitted' = j
  /\ \E i \in Identity :
       /\ Conflicting(i) = {}
       /\ jobs' = [jobs EXCEPT ![j] = [NoRow EXCEPT !.identity = i, !.status = "queued"]]

ClaimedBy(w, j) ==
  /\ jobs[j].status = "queued"
  /\ BuildOf[jobs[j].identity] = Carries[w]
  /\ jobs'[j] = Claimed(jobs[j], w)
  /\ worker' = [worker EXCEPT ![w] = Holding(j, jobs[j].attempts + 1)]

Releases(j) ==
  /\ jobs[j].status = "running"
  /\ \/ AttemptLeft(j) /\ jobs'[j] = Released(jobs[j], "queued", jobs[j].error)
     \/ AttemptLeft(j) /\ \E k \in Retryable : jobs'[j] = Released(jobs[j], "queued", k)
     \/ \E k \in ErrorKind : jobs'[j] = Released(jobs[j], "failed", k)

Completes(w, j) ==
  /\ Owns(w, j)
  /\ worker[w].pc = "complete" /\ worker[w].job = j
  /\ jobs'[j] = Released(jobs[j], "succeeded", NULL)
  /\ analyses' = [analyses EXCEPT ![jobs[j].identity] = Carries[w]]

Renews(j) ==
  /\ jobs[j].status = "running"
  /\ \E l \in {"live", "expired"} : jobs'[j] = [jobs[j] EXCEPT !.lease = l]

RowStep(j) ==
  \/ jobs'[j] = jobs[j]
  \/ Inserted(j)
  \/ \E w \in Worker : ClaimedBy(w, j) \/ Completes(w, j)
  \/ Releases(j)
  \/ Renews(j)

(* A step changes a row in one of the ways that RowStep lists. *)
LEMMA EveryRowSteps ==
  ASSUME TypeOK, HoldersAreServing, [Next]_vars
  PROVE  \A j \in JobId : RowStep(j)
<1> SUFFICES ASSUME NEW r \in JobId
             PROVE  RowStep(r)
  OBVIOUS
<1> USE DEF TypeOK
<1>0. jobs' = jobs => RowStep(r)
  BY DEF RowStep
<1>1. CASE \E i \in Identity : Enqueue(i)
  <2> PICK i \in Identity : Enqueue(i)
    BY <1>1
  <2>1. CASE r = submitted + 1
    BY <2>1 DEF Enqueue, RowStep, Inserted
  <2>2. CASE r # submitted + 1
    BY <2>2 DEF Enqueue, RowStep
  <2> QED
    BY <2>1, <2>2
<1>2. CASE \E j \in JobId : Join(j) \/ EndJoin(j)
  BY <1>2, <1>0 DEF Join, EndJoin
<1>3. ASSUME NEW j \in JobId, LeaseExpires(j)
      PROVE  RowStep(r)
  BY <1>3 DEF LeaseExpires, RowStep, Renews
<1>4. ASSUME NEW w \in Worker, ReclaimExpired(w)
      PROVE  RowStep(r)
  <2>1. DeadLetterKind \in ErrorKind
    BY DEF DeadLetterKind, ErrorKind
  <2> QED
    BY <1>4, <2>1 DEF ReclaimExpired, RowStep, Releases, Expired
<1>5. ASSUME NEW w \in Worker, Claim(w)
      PROVE  RowStep(r)
  <2> PICK j \in Claimable(w) :
        /\ jobs' = [jobs EXCEPT ![j] = Claimed(jobs[j], w)]
        /\ worker' = [worker EXCEPT ![w] = Holding(j, jobs[j].attempts + 1)]
    BY <1>5 DEF Claim
  <2>1. /\ j \in JobId
        /\ jobs[j].status = "queued" /\ BuildOf[jobs[j].identity] = Carries[w]
    BY DEF Claimable
  <2>2. CASE r = j
    BY <2>1, <2>2 DEF RowStep, ClaimedBy
  <2>3. CASE r # j
    BY <2>3 DEF RowStep
  <2> QED
    BY <2>2, <2>3
<1>6. ASSUME NEW w \in Worker, HeartbeatStep(w)
      PROVE  RowStep(r)
  <2>1. CASE Renew(w)
    BY <2>1 DEF Renew, Owns, RowStep, Renews
  <2>2. CASE LoseLease(w) \/ HeartbeatDies(w)
    BY <2>2, <1>0 DEF LoseLease, HeartbeatDies
  <2> QED
    BY <1>6, <2>1, <2>2 DEF HeartbeatStep
<1>7. ASSUME NEW w \in Worker, CompleteJob(w)
      PROVE  RowStep(r)
  <2>1. CASE Owns(w, worker[w].job)
    BY <1>7, <2>1 DEF CompleteJob, RowStep, Completes
  <2>2. CASE ~Owns(w, worker[w].job)
    BY <1>7, <2>2, <1>0 DEF CompleteJob
  <2> QED
    BY <2>1, <2>2
<1>8. ASSUME NEW w \in Worker, FailJob(w)
      PROVE  RowStep(r)
  <2> DEFINE j == worker[w].job
             k == worker[w].kind
  <2>1. CASE ~Owns(w, j)
    BY <1>8, <2>1, <1>0 DEF FailJob
  <2>2. CASE Owns(w, j) /\ r # j
    BY <1>8, <2>2 DEF FailJob, RowStep
  <2>3. CASE Owns(w, j) /\ r = j /\ Retries(k, j)
    BY <1>8, <2>3 DEF FailJob, RowStep, Releases, Retries, Owns
  <2>4. CASE Owns(w, j) /\ r = j /\ ~Retries(k, j)
    <3>1. k \in ErrorKind
      <4>1. worker[w] \in Process /\ worker[w].kind # NULL
        BY <1>8 DEF FailJob, HoldersAreServing
      <4> QED
        BY <4>1 DEF Process
    <3> QED
      BY <1>8, <2>4, <3>1 DEF FailJob, RowStep, Releases, Owns
  <2> QED
    BY <2>1, <2>2, <2>3, <2>4
<1>9. ASSUME NEW w \in Worker,
             \/ Start(w) \/ ClaimNothing(w) \/ Crash(w) \/ LoadReplay(w)
             \/ AnalysisReturns(w) \/ InsertAnalysis(w)
             \/ \E k \in EngineKind : AnalysisFails(w, k)
      PROVE  RowStep(r)
  BY <1>9, <1>0 DEF Start, ClaimNothing, Crash, LoadReplay, AnalysisReturns,
                    InsertAnalysis, AnalysisFails
<1>10. CASE UNCHANGED vars
  BY <1>10, <1>0 DEF vars
<1> QED
  BY <1>1, <1>2, <1>3, <1>4, <1>5, <1>6, <1>7, <1>8, <1>9, <1>10
     DEF Next, WorkerStep

-----------------------------------------------------------------------------
(* What a step does to one process: it keeps its job and attempt, drops    *)
(* them, or has just claimed.                                              *)
Keeps(w) ==
  /\ worker'[w].job = worker[w].job
  /\ worker'[w].attempt = worker[w].attempt
  /\ worker'[w].job # 0 \/ worker'[w].pc \in {"down", "reclaim", "claim"}
  /\ worker'[w].pc = "fail" => worker'[w].kind # NULL

Drops(w) ==
  /\ worker'[w].job = 0
  /\ worker'[w].pc \in {"down", "reclaim", "claim"}

ProcessStep(w) ==
  \/ Keeps(w)
  \/ Drops(w)
  \/ \E j \in JobId : ClaimedBy(w, j)

(* A step changes a worker in one of the ways that ProcessStep lists. *)
LEMMA EveryProcessSteps ==
  ASSUME TypeOK, HoldersAreServing, [Next]_vars
  PROVE  \A w \in Worker : ProcessStep(w)
<1> SUFFICES ASSUME NEW v \in Worker
             PROVE  ProcessStep(v)
  OBVIOUS
<1> USE DEF TypeOK
<1>0. worker'[v] = worker[v] => ProcessStep(v)
  <2>1. worker[v] \in Process
    OBVIOUS
  <2> QED
    BY <2>1 DEF ProcessStep, Keeps, HoldersAreServing, Process
<1>a. \A w \in Worker :
        /\ worker' = [worker EXCEPT ![w] = Down] => ProcessStep(v)
        /\ worker' = [worker EXCEPT ![w] = LoopHead(w)] => ProcessStep(v)
        /\ worker' = [worker EXCEPT ![w] = At("claim")] => ProcessStep(v)
        /\ worker' = [worker EXCEPT ![w] = At("reclaim")] => ProcessStep(v)
  BY <1>0 DEF ProcessStep, Drops, Down, LoopHead, At
<1>1. CASE UNCHANGED worker
  BY <1>1, <1>0
<1>2. ASSUME NEW w \in Worker,
             Start(w) \/ ClaimNothing(w) \/ ReclaimExpired(w) \/ CompleteJob(w)
               \/ FailJob(w) \/ Crash(w)
      PROVE  ProcessStep(v)
  BY <1>2, <1>a DEF Start, ClaimNothing, ReclaimExpired, CompleteJob, FailJob, Crash
<1>3. ASSUME NEW w \in Worker, Claim(w)
      PROVE  ProcessStep(v)
  <2> PICK j \in Claimable(w) :
        /\ jobs' = [jobs EXCEPT ![j] = Claimed(jobs[j], w)]
        /\ worker' = [worker EXCEPT ![w] = Holding(j, jobs[j].attempts + 1)]
    BY <1>3 DEF Claim
  <2>1. j \in JobId /\ ClaimedBy(w, j)
    BY DEF Claimable, ClaimedBy
  <2> QED
    BY <2>1, <1>0 DEF ProcessStep
<1>4. ASSUME NEW w \in Worker,
             LoadReplay(w) \/ InsertAnalysis(w) \/ AnalysisReturns(w)
               \/ \E k \in EngineKind : AnalysisFails(w, k)
      PROVE  ProcessStep(v)
  <2>1. worker[w] \in Process /\ worker[w].job # 0
    BY <1>4 DEF HoldersAreServing, LoadReplay, InsertAnalysis, AnalysisReturns, AnalysisFails
  <2>2. NULL \notin EngineKind /\ NULL # "replay_not_found"
    BY NULLAssumption
  <2>3. CASE v # w
    BY <1>4, <2>3, <1>0 DEF LoadReplay, InsertAnalysis, AnalysisReturns, AnalysisFails
  <2>4. CASE v = w /\ LoadReplay(w)
    BY <2>1, <2>2, <2>4 DEF LoadReplay, ProcessStep, Keeps, Process
  <2>5. CASE v = w /\ InsertAnalysis(w)
    BY <2>1, <2>5 DEF InsertAnalysis, ProcessStep, Keeps, Process
  <2>6. CASE v = w /\ AnalysisReturns(w)
    <3>1. CASE worker[w].hb = "lost"
      BY <2>6, <3>1, <1>a DEF AnalysisReturns
    <3>2. CASE worker[w].hb # "lost"
      BY <2>1, <2>6, <3>2 DEF AnalysisReturns, ProcessStep, Keeps, Process
    <3> QED
      BY <3>1, <3>2
  <2>7. ASSUME v = w, NEW k \in EngineKind, AnalysisFails(w, k)
        PROVE  ProcessStep(v)
    BY <2>1, <2>2, <2>7 DEF AnalysisFails, ProcessStep, Keeps, Process
  <2> QED
    BY <1>4, <2>3, <2>4, <2>5, <2>6, <2>7
<1>5. ASSUME NEW w \in Worker, LoseLease(w) \/ HeartbeatDies(w)
      PROVE  ProcessStep(v)
  <2>1. worker[w] \in Process /\ worker[w].job # 0 /\ worker[w].pc = "analyze"
    BY <1>5 DEF HoldersAreServing, LoseLease, HeartbeatDies
  <2>2. CASE v # w
    BY <1>5, <2>2, <1>0 DEF LoseLease, HeartbeatDies
  <2>3. CASE v = w
    BY <1>5, <2>1, <2>3 DEF LoseLease, HeartbeatDies, ProcessStep, Keeps, Process
  <2> QED
    BY <2>2, <2>3
<1> QED
  BY <1>1, <1>2, <1>3, <1>4, <1>5
     DEF Next, WorkerStep, HeartbeatStep, Enqueue, Join, EndJoin, LeaseExpires, Renew, vars

-----------------------------------------------------------------------------
(* What a step does to the other tables. *)

(* Job numbers are natural, and the next one is free. *)
LEMMA Numbers ==
  ASSUME TypeOK
  PROVE  /\ submitted \in Nat
         /\ MaxJobs \in Nat
         /\ \A j \in JobId : j \in Nat /\ j # 0
         /\ submitted < MaxJobs => submitted + 1 \in JobId
BY BoundsAssumption DEF TypeOK, JobId

(* The number of rows grows with an insert and never else. *)
LEMMA SubmittedSteps ==
  ASSUME TypeOK, [Next]_vars
  PROVE  \/ submitted' = submitted
         \/ submitted + 1 \in JobId /\ Inserted(submitted + 1)
<1>1. ASSUME NEW i \in Identity, Enqueue(i)
      PROVE  submitted + 1 \in JobId /\ Inserted(submitted + 1)
  BY <1>1, Numbers DEF Enqueue, Inserted
<1> QED
  BY <1>1 DEF Next, WorkerStep, HeartbeatStep, Join, EndJoin, LeaseExpires, Start,
     ReclaimExpired, Claim, ClaimNothing, LoadReplay, Renew, LoseLease, HeartbeatDies,
     AnalysisReturns, AnalysisFails, InsertAnalysis, CompleteJob, FailJob, Crash, vars

(* An analysis is written only by the worker that reports its job. *)
LEMMA AnalysesSteps ==
  ASSUME TypeOK, HoldersAreServing, [Next]_vars
  PROVE  \/ analyses' = analyses
         \/ \E w \in Worker : \E j \in JobId : Completes(w, j)
<1>1. ASSUME NEW w \in Worker, CompleteJob(w)
      PROVE  analyses' = analyses \/ \E j \in JobId : Completes(w, j)
  <2>1. worker[w].job \in JobId
    <3>1. worker[w] \in Process /\ worker[w].job # 0
      BY <1>1 DEF TypeOK, HoldersAreServing, CompleteJob
    <3> QED
      BY <3>1, BoundsAssumption DEF Process, JobId
  <2> QED
    BY <1>1, <2>1 DEF CompleteJob, Completes, TypeOK
<1> QED
  BY <1>1 DEF Next, WorkerStep, HeartbeatStep, Enqueue, Join, EndJoin, LeaseExpires, Start,
     ReclaimExpired, Claim, ClaimNothing, LoadReplay, Renew, LoseLease, HeartbeatDies,
     AnalysisReturns, AnalysisFails, InsertAnalysis, FailJob, Crash, vars

-----------------------------------------------------------------------------
(* The invariant is inductive, one part at a time. *)

(* The invariant holds of empty tables. *)
LEMMA InvInit == Init => Inv
<1> SUFFICES ASSUME Init
             PROVE  Inv
  OBVIOUS
<1> USE BoundsAssumption DEF Init
<1>1. TypeOK
  BY TypeInit
<1>2. \A j \in JobId : jobs[j] = NoRow
  OBVIOUS
<1>3. RowsInOrder
  BY <1>2 DEF RowsInOrder, JobId
<1>4. HoldersAreServing /\ OwnerIsLatestAttempt
  BY DEF HoldersAreServing, OwnerIsLatestAttempt, Down, At, JobId
<1>5. OneLiveJobPerIdentity /\ LiveErrorIsRetryable
  BY <1>2 DEF OneLiveJobPerIdentity, LiveErrorIsRetryable, Live, NoRow
<1>6. AttemptBudget /\ RowsPassChecks
  BY <1>2 DEF AttemptBudget, RowsPassChecks, NoRow
<1>7. AnalysisHasJob /\ AnalysisHonorsBuild
  BY DEF AnalysisHasJob, AnalysisHonorsBuild
<1> QED
  BY <1>1, <1>3, <1>4, <1>5, <1>6, <1>7 DEF Inv

(* Once inserted, a row keeps its number and its identity.                 *)
LEMMA IdentityIsFixed ==
  ASSUME TypeOK, RowsInOrder, HoldersAreServing, [Next]_vars
  PROVE  \A j \in JobId :
           jobs[j].status # "none" =>
             /\ jobs'[j].identity = jobs[j].identity
             /\ jobs'[j].status # "none"
             /\ ~Inserted(j)
<1> SUFFICES ASSUME NEW j \in JobId, jobs[j].status # "none"
             PROVE  /\ jobs'[j].identity = jobs[j].identity
                    /\ jobs'[j].status # "none"
                    /\ ~Inserted(j)
  OBVIOUS
<1>1. ~Inserted(j)
  <2>1. j <= submitted
    BY DEF RowsInOrder, NoRow
  <2>2. j # submitted + 1
    BY <2>1, Numbers
  <2> QED
    BY <2>2 DEF Inserted
<1>2. RowStep(j) /\ jobs[j] \in JobRow
  BY EveryRowSteps DEF TypeOK
<1> QED
  BY <1>1, <1>2 DEF RowStep, ClaimedBy, Claimed, Completes, Releases, Released, Renews, JobRow

(* Rows are inserted in order and never deleted. *)
LEMMA RowsInOrderInductive == Inv /\ [Next]_vars => RowsInOrder'
<1> SUFFICES ASSUME Inv, [Next]_vars, NEW j \in JobId
             PROVE  IF j <= submitted'
                    THEN jobs'[j].identity \in Identity /\ jobs'[j].status # "none"
                    ELSE jobs'[j] = NoRow
  BY DEF RowsInOrder
<1> USE DEF Inv
<1>1. CASE jobs[j].status # "none"
  <2>1. j <= submitted /\ submitted <= submitted'
    <3>1. j <= submitted
      BY <1>1 DEF RowsInOrder, NoRow
    <3>2. submitted' = submitted \/ submitted' = submitted + 1
      BY SubmittedSteps DEF Inserted
    <3> QED
      BY <3>1, <3>2, Numbers
  <2>2. jobs[j].identity \in Identity
    BY <2>1 DEF RowsInOrder
  <2>3. jobs'[j].identity = jobs[j].identity /\ jobs'[j].status # "none"
    BY <1>1, IdentityIsFixed
  <2>4. submitted \in Nat /\ submitted' \in Nat /\ j \in Nat
    BY TypeStep, BoundsAssumption DEF TypeOK, JobId
  <2> QED
    BY <2>1, <2>2, <2>3, <2>4
<1>2. CASE jobs[j].status = "none"
  <2>1. ~(j <= submitted) /\ jobs[j] = NoRow
    BY <1>2 DEF RowsInOrder
  <2>2. jobs'[j] = jobs[j] \/ Inserted(j)
    BY <1>2, EveryRowSteps DEF RowStep, ClaimedBy, Completes, Owns, Releases, Renews
  <2>3. CASE Inserted(j)
    BY <2>3 DEF Inserted, NoRow, TypeOK
  <2>4. CASE jobs'[j] = jobs[j] /\ ~Inserted(j)
    <3>1. submitted' = submitted \/ (submitted' = submitted + 1 /\ j # submitted')
      BY <2>4, SubmittedSteps DEF Inserted
    <3>2. submitted \in Nat /\ j \in Nat
      BY BoundsAssumption DEF TypeOK, JobId
    <3> QED
      BY <2>1, <2>4, <3>1, <3>2
  <2> QED
    BY <2>2, <2>3, <2>4
<1> QED
  BY <1>1, <1>2

(* A process at work holds a job, of the build that it carries. *)
LEMMA HoldersAreServingInductive == Inv /\ [Next]_vars => HoldersAreServing'
<1> SUFFICES ASSUME Inv, [Next]_vars, NEW w \in Worker
             PROVE  /\ worker'[w].pc \in {"load", "analyze", "store", "complete", "fail"} =>
                         worker'[w].job # 0
                    /\ worker'[w].job # 0 =>
                         /\ worker'[w].job <= submitted'
                         /\ BuildOf[jobs'[worker'[w].job].identity] = Carries[w]
                    /\ worker'[w].pc = "fail" => worker'[w].kind # NULL
  BY DEF HoldersAreServing
<1> USE DEF Inv
<1>0. worker[w] \in Process /\ worker'[w] \in Process
  BY TypeStep DEF TypeOK
<1>1. \A j \in JobId : jobs[j].status # "none" =>
        /\ j <= submitted'
        /\ jobs'[j].identity = jobs[j].identity
  <2> SUFFICES ASSUME NEW j \in JobId, jobs[j].status # "none"
               PROVE  j <= submitted' /\ jobs'[j].identity = jobs[j].identity
    OBVIOUS
  <2>1. jobs'[j].identity = jobs[j].identity /\ jobs'[j].status # "none"
    BY IdentityIsFixed
  <2>2. j <= submitted'
    BY <2>1, RowsInOrderInductive DEF RowsInOrder, NoRow
  <2> QED
    BY <2>1, <2>2
<1>2. CASE Drops(w)
  BY <1>2 DEF Drops
<1>3. CASE Keeps(w)
  <2>1. CASE worker[w].job = 0
    BY <1>3, <2>1 DEF Keeps
  <2>2. CASE worker[w].job # 0
    <3>1. worker[w].job \in JobId /\ worker[w].job <= submitted
      BY <1>0, <2>2, BoundsAssumption DEF HoldersAreServing, Process, JobId
    <3>2. jobs[worker[w].job].status # "none"
      BY <3>1 DEF RowsInOrder
    <3> QED
      BY <1>1, <1>3, <2>2, <3>1, <3>2 DEF Keeps, HoldersAreServing
  <2> QED
    BY <2>1, <2>2
<1>4. ASSUME NEW j \in JobId, ClaimedBy(w, j)
      PROVE  /\ worker'[w].pc = "load" /\ worker'[w].job = j /\ j # 0
             /\ j <= submitted' /\ BuildOf[jobs'[j].identity] = Carries[w]
  <2>1. worker'[w] = Holding(j, jobs[j].attempts + 1)
    BY <1>4 DEF ClaimedBy, TypeOK
  <2>2. worker'[w].pc = "load" /\ worker'[w].job = j
    BY <2>1 DEF Holding, At
  <2> QED
    BY <1>1, <1>4, <2>2, Numbers DEF ClaimedBy
<1> QED
  BY <1>2, <1>3, <1>4, EveryProcessSteps DEF ProcessStep

(* The partial unique index, through every change of status. *)
LEMMA OneLiveJobInductive == Inv /\ [Next]_vars => OneLiveJobPerIdentity'
<1> SUFFICES ASSUME Inv, [Next]_vars, NEW j \in JobId, NEW k \in JobId,
                    Live(j)', Live(k)', jobs'[j].identity = jobs'[k].identity
             PROVE  j = k
  BY DEF OneLiveJobPerIdentity
<1> USE DEF Inv
<1>1. \A r \in JobId : Live(r)' /\ ~Inserted(r) =>
        Live(r) /\ jobs'[r].identity = jobs[r].identity
  <2> SUFFICES ASSUME NEW r \in JobId, Live(r)', ~Inserted(r)
               PROVE  Live(r) /\ jobs'[r].identity = jobs[r].identity
    OBVIOUS
  <2>1. RowStep(r) /\ jobs[r] \in JobRow
    BY EveryRowSteps DEF TypeOK
  <2>2. Live(r)
    BY <2>1 DEF RowStep, ClaimedBy, Completes, Released, Releases, Renews, Live, Owns, JobRow
  <2> QED
    BY <2>2, IdentityIsFixed DEF Live
<1>2. CASE ~Inserted(j) /\ ~Inserted(k)
  BY <1>1, <1>2 DEF OneLiveJobPerIdentity
<1>3. ASSUME NEW p \in JobId, NEW q \in JobId, Inserted(p), ~Inserted(q),
             Live(q)', jobs'[p].identity = jobs'[q].identity
      PROVE  FALSE
  <2>1. Live(q) /\ jobs'[q].identity = jobs[q].identity
    BY <1>1, <1>3
  <2>2. PICK i \in Identity :
          /\ Conflicting(i) = {}
          /\ jobs' = [jobs EXCEPT ![p] = [NoRow EXCEPT !.identity = i, !.status = "queued"]]
    BY <1>3 DEF Inserted
  <2>3. jobs'[p].identity = i
    BY <2>2 DEF NoRow, TypeOK
  <2> QED
    BY <1>3, <2>1, <2>2, <2>3 DEF Conflicting
<1>4. CASE Inserted(j) /\ Inserted(k)
  BY <1>4 DEF Inserted
<1> QED
  BY <1>2, <1>3, <1>4

(* The fields of a row after each kind of step, for the invariants that    *)
(* only look at one row.                                                   *)
LEMMA RowAfter ==
  ASSUME TypeOK, NEW j \in JobId, jobs[j] \in JobRow
  PROVE  /\ Inserted(j) => /\ jobs'[j].status = "queued" /\ jobs'[j].attempts = 0
                           /\ jobs'[j].owner = NULL /\ jobs'[j].lease = "none"
                           /\ jobs'[j].error = NULL
         /\ \A w \in Worker : ClaimedBy(w, j) =>
              /\ jobs'[j].status = "running" /\ jobs'[j].attempts = jobs[j].attempts + 1
              /\ jobs'[j].owner = w /\ jobs'[j].lease = "live"
              /\ jobs'[j].error = jobs[j].error
         /\ \A w \in Worker : Completes(w, j) =>
              /\ jobs'[j].status = "succeeded" /\ jobs'[j].attempts = jobs[j].attempts
              /\ jobs'[j].owner = NULL /\ jobs'[j].lease = "none"
              /\ jobs'[j].error = NULL
         /\ Releases(j) =>
              /\ \/ jobs'[j].status = "queued" /\ AttemptLeft(j)
                   /\ jobs'[j].error \in {jobs[j].error} \cup Retryable
                 \/ jobs'[j].status = "failed" /\ jobs'[j].error \in ErrorKind
              /\ jobs'[j].attempts = jobs[j].attempts
              /\ jobs'[j].owner = NULL /\ jobs'[j].lease = "none"
         /\ Renews(j) =>
              /\ jobs'[j].status = "running" /\ jobs'[j].attempts = jobs[j].attempts
              /\ jobs'[j].owner = jobs[j].owner /\ jobs'[j].lease \in {"live", "expired"}
              /\ jobs'[j].error = jobs[j].error
<1>1. Inserted(j) => /\ jobs'[j].status = "queued" /\ jobs'[j].attempts = 0
                     /\ jobs'[j].owner = NULL /\ jobs'[j].lease = "none"
                     /\ jobs'[j].error = NULL
  BY DEF Inserted, NoRow, TypeOK
<1>2. ASSUME NEW w \in Worker
      PROVE  /\ ClaimedBy(w, j) =>
                 /\ jobs'[j].status = "running" /\ jobs'[j].attempts = jobs[j].attempts + 1
                 /\ jobs'[j].owner = w /\ jobs'[j].lease = "live"
                 /\ jobs'[j].error = jobs[j].error
             /\ Completes(w, j) =>
                 /\ jobs'[j].status = "succeeded" /\ jobs'[j].attempts = jobs[j].attempts
                 /\ jobs'[j].owner = NULL /\ jobs'[j].lease = "none"
                 /\ jobs'[j].error = NULL
  BY DEF ClaimedBy, Claimed, Completes, Released, JobRow
<1>3. ASSUME Releases(j)
      PROVE  /\ \/ jobs'[j].status = "queued" /\ AttemptLeft(j)
                  /\ jobs'[j].error \in {jobs[j].error} \cup Retryable
                \/ jobs'[j].status = "failed" /\ jobs'[j].error \in ErrorKind
             /\ jobs'[j].attempts = jobs[j].attempts
             /\ jobs'[j].owner = NULL /\ jobs'[j].lease = "none"
  BY <1>3 DEF Releases, Released, JobRow
<1>4. Renews(j) =>
        /\ jobs'[j].status = "running" /\ jobs'[j].attempts = jobs[j].attempts
        /\ jobs'[j].owner = jobs[j].owner /\ jobs'[j].lease \in {"live", "expired"}
        /\ jobs'[j].error = jobs[j].error
  BY DEF Renews, JobRow
<1> QED
  BY <1>1, <1>2, <1>3, <1>4

(* No statement counts an attempt past the cap. *)
LEMMA AttemptBudgetInductive == Inv /\ [Next]_vars => AttemptBudget'
<1> SUFFICES ASSUME Inv, [Next]_vars, NEW j \in JobId
             PROVE  /\ jobs'[j].attempts <= MaxAttempts
                    /\ jobs'[j].status = "queued" => jobs'[j].attempts < MaxAttempts
  BY DEF AttemptBudget, AttemptLeft
<1> USE DEF Inv
<1>1. jobs[j] \in JobRow /\ RowStep(j)
  BY EveryRowSteps DEF TypeOK
<1>2. /\ jobs[j].attempts \in Nat /\ MaxAttempts \in Nat \ {0}
      /\ jobs[j].attempts <= MaxAttempts
      /\ jobs[j].status = "queued" => jobs[j].attempts < MaxAttempts
  BY <1>1, BoundsAssumption DEF JobRow, AttemptBudget, AttemptLeft
<1>3. CASE jobs'[j] = jobs[j]
  BY <1>2, <1>3
<1>4. CASE Inserted(j)
  BY <1>1, <1>2, <1>4, RowAfter
<1>5. ASSUME NEW w \in Worker, ClaimedBy(w, j)
      PROVE  jobs'[j].status = "running" /\ jobs'[j].attempts <= MaxAttempts
  <2>1. jobs'[j].status = "running" /\ jobs'[j].attempts = jobs[j].attempts + 1
    BY <1>1, <1>5, RowAfter
  <2> QED
    BY <1>2, <1>5, <2>1 DEF ClaimedBy
<1>6. ASSUME NEW w \in Worker, Completes(w, j)
      PROVE  jobs'[j].status = "succeeded" /\ jobs'[j].attempts <= MaxAttempts
  BY <1>1, <1>2, <1>6, RowAfter
<1>7. CASE Releases(j)
  BY <1>1, <1>2, <1>7, RowAfter DEF AttemptLeft
<1>8. CASE Renews(j)
  BY <1>1, <1>2, <1>8, RowAfter
<1> QED
  BY <1>1, <1>3, <1>4, <1>5, <1>6, <1>7, <1>8 DEF RowStep

(* Of an identity that has an analysis nothing takes the analysis away.    *)
LEMMA AnalysesStay ==
  ASSUME TypeOK, HoldersAreServing, [Next]_vars, NEW i \in Identity, analyses[i] # NULL
  PROVE  analyses'[i] # NULL
<1>1. \A w \in Worker : Carries[w] # NULL
  BY SetsAssumption, NULLAssumption
<1> QED
  BY <1>1, AnalysesSteps DEF Completes, TypeOK

(* The CHECKs of the table accept every row a statement leaves. *)
LEMMA RowsPassChecksInductive == Inv /\ [Next]_vars => RowsPassChecks'
<1> SUFFICES ASSUME Inv, [Next]_vars, NEW j \in JobId
             PROVE  /\ (jobs'[j].owner = NULL) <=> (jobs'[j].lease = "none")
                    /\ (jobs'[j].owner = NULL) <=> (jobs'[j].status # "running")
                    /\ jobs'[j].status = "failed" => jobs'[j].error # NULL
                    /\ jobs'[j].status = "succeeded" =>
                         analyses'[jobs'[j].identity] # NULL /\ jobs'[j].error = NULL
  BY DEF RowsPassChecks
<1> USE DEF Inv
<1>1. jobs[j] \in JobRow /\ RowStep(j)
  BY EveryRowSteps DEF TypeOK
<1>2. /\ (jobs[j].owner = NULL) <=> (jobs[j].lease = "none")
      /\ (jobs[j].owner = NULL) <=> (jobs[j].status # "running")
      /\ jobs[j].status = "failed" => jobs[j].error # NULL
      /\ jobs[j].status = "succeeded" =>
           analyses[jobs[j].identity] # NULL /\ jobs[j].error = NULL
  BY DEF RowsPassChecks
<1>3. jobs[j].status # "none" => jobs[j].identity \in Identity
  BY DEF RowsInOrder, NoRow
<1>4. NULL \notin Worker /\ NULL \notin ErrorKind /\ \A w \in Worker : Carries[w] # NULL
  BY SetsAssumption, NULLAssumption DEF ErrorKind
<1>5. CASE jobs'[j] = jobs[j]
  BY <1>2, <1>3, <1>5, AnalysesStay
<1>6. CASE Inserted(j)
  BY <1>1, <1>6, RowAfter
<1>7. ASSUME NEW w \in Worker, ClaimedBy(w, j)
      PROVE  jobs'[j].status = "running" /\ jobs'[j].owner # NULL /\ jobs'[j].lease = "live"
  BY <1>1, <1>4, <1>7, RowAfter
<1>8. ASSUME NEW w \in Worker, Completes(w, j)
      PROVE  /\ jobs'[j].status = "succeeded" /\ jobs'[j].owner = NULL
             /\ jobs'[j].lease = "none" /\ jobs'[j].error = NULL
             /\ analyses'[jobs'[j].identity] # NULL
  <2>1. jobs[j].status # "none"
    BY <1>8 DEF Completes, Owns
  <2>2. jobs'[j].identity = jobs[j].identity
    BY <2>1, IdentityIsFixed
  <2> QED
    BY <1>1, <1>3, <1>4, <1>8, <2>1, <2>2, RowAfter DEF Completes, TypeOK
<1>9. CASE Releases(j)
  BY <1>1, <1>4, <1>9, RowAfter
<1>10. CASE Renews(j)
  BY <1>1, <1>2, <1>10, RowAfter DEF Renews
<1> QED
  BY <1>1, <1>5, <1>6, <1>7, <1>8, <1>9, <1>10 DEF RowStep

(* An error on a live row is one of a retry or of a reclaim. *)
LEMMA LiveErrorInductive == Inv /\ [Next]_vars => LiveErrorIsRetryable'
<1> SUFFICES ASSUME Inv, [Next]_vars, NEW j \in JobId, Live(j)', jobs'[j].error # NULL
             PROVE  jobs'[j].error \in Retryable
  BY DEF LiveErrorIsRetryable
<1> USE DEF Inv
<1>1. jobs[j] \in JobRow /\ RowStep(j)
  BY EveryRowSteps DEF TypeOK
<1>2. Live(j) /\ jobs[j].error # NULL => jobs[j].error \in Retryable
  BY DEF LiveErrorIsRetryable
<1>3. CASE jobs'[j] = jobs[j]
  BY <1>2, <1>3 DEF Live
<1>4. ASSUME NEW w \in Worker, ClaimedBy(w, j) \/ Completes(w, j)
      PROVE  jobs'[j].error \in Retryable
  BY <1>1, <1>2, <1>4, RowAfter DEF Live, ClaimedBy
<1>5. CASE Releases(j)
  BY <1>1, <1>2, <1>5, RowAfter DEF Live, Releases
<1>6. CASE Renews(j)
  BY <1>1, <1>2, <1>6, RowAfter DEF Live, Renews
<1> QED
  BY <1>1, <1>3, <1>4, <1>5, <1>6, RowAfter DEF RowStep

(* No statement touches a job that is over. *)
LEMMA TerminalRowsStay ==
  ASSUME Inv, [Next]_vars, NEW j \in JobId, jobs[j].status \in {"succeeded", "failed"}
  PROVE  jobs'[j] = jobs[j]
<1>1. RowStep(j)
  BY EveryRowSteps DEF Inv
<1>2. ~Inserted(j)
  BY IdentityIsFixed DEF Inv
<1> QED
  BY <1>1, <1>2 DEF RowStep, ClaimedBy, Completes, Owns, Releases, Renews

(* An analysis is committed with the end of its job. *)
LEMMA AnalysisHasJobInductive == Inv /\ [Next]_vars => AnalysisHasJob'
<1> SUFFICES ASSUME Inv, [Next]_vars, NEW i \in Identity, analyses'[i] # NULL
             PROVE  \E j \in JobId : jobs'[j].identity = i /\ jobs'[j].status = "succeeded"
  BY DEF AnalysisHasJob
<1> USE DEF Inv
<1>1. CASE analyses[i] # NULL
  <2> PICK j \in JobId : jobs[j].identity = i /\ jobs[j].status = "succeeded"
    BY <1>1 DEF AnalysisHasJob
  <2> QED
    BY TerminalRowsStay
<1>2. CASE analyses[i] = NULL
  <2> PICK w \in Worker, j \in JobId : Completes(w, j)
    BY <1>2, AnalysesSteps
  <2>1. jobs[j].identity = i
    BY <1>2 DEF Completes, TypeOK
  <2>2. jobs'[j].identity = i
    BY <2>1, IdentityIsFixed DEF Completes, Owns
  <2>3. jobs'[j].status = "succeeded"
    BY RowAfter DEF TypeOK
  <2> QED
    BY <2>2, <2>3
<1> QED
  BY <1>1, <1>2

(* Only a worker of the build that an identity names writes its analysis. *)
LEMMA AnalysisHonorsBuildInductive == Inv /\ [Next]_vars => AnalysisHonorsBuild'
<1> SUFFICES ASSUME Inv, [Next]_vars, NEW i \in Identity
             PROVE  analyses'[i] \in {NULL, BuildOf[i]}
  BY DEF AnalysisHonorsBuild
<1> USE DEF Inv
<1>1. analyses[i] \in {NULL, BuildOf[i]}
  BY DEF AnalysisHonorsBuild
<1>2. ASSUME NEW w \in Worker, NEW j \in JobId, Completes(w, j)
      PROVE  analyses'[i] \in {NULL, BuildOf[i]}
  <2>1. BuildOf[jobs[j].identity] = Carries[w]
    BY <1>2, Numbers DEF Completes, HoldersAreServing
  <2> QED
    BY <1>1, <1>2, <2>1 DEF Completes, TypeOK
<1> QED
  BY <1>1, <1>2, AnalysesSteps

(* A lease token is of the latest attempt of its job. *)
LEMMA OwnerIsLatestAttemptInductive == Inv /\ [Next]_vars => OwnerIsLatestAttempt'
<1> SUFFICES ASSUME Inv, [Next]_vars, NEW w \in Worker, NEW j \in JobId,
                    worker'[w].job = j, jobs'[j].owner = w
             PROVE  worker'[w].attempt = jobs'[j].attempts
  BY DEF OwnerIsLatestAttempt
<1> USE DEF Inv
<1>1. jobs[j] \in JobRow /\ RowStep(j) /\ ProcessStep(w)
  BY EveryRowSteps, EveryProcessSteps DEF TypeOK
<1>2. w # NULL /\ j # 0
  BY NULLAssumption, Numbers
<1>3. ASSUME NEW k \in JobId, ClaimedBy(w, k)
      PROVE  worker'[w].attempt = jobs'[j].attempts
  <2>1. worker'[w] = Holding(k, jobs[k].attempts + 1)
    BY <1>3 DEF ClaimedBy, TypeOK
  <2>2. worker'[w].job = k /\ worker'[w].attempt = jobs[k].attempts + 1
    BY <2>1 DEF Holding, At
  <2>3. jobs'[k].attempts = jobs[k].attempts + 1
    BY <1>3, RowAfter DEF TypeOK
  <2> QED
    BY <2>2, <2>3
<1>4. ASSUME Keeps(w), \A k \in JobId : ~ClaimedBy(w, k)
      PROVE  worker'[w].attempt = jobs'[j].attempts
  <2>1. jobs[j].owner = w => worker[w].attempt = jobs[j].attempts
    BY <1>4 DEF Keeps, OwnerIsLatestAttempt
  <2>2. jobs[j].owner = w /\ jobs'[j].attempts = jobs[j].attempts
    <3>1. CASE jobs'[j] = jobs[j]
      BY <3>1
    <3>2. CASE Inserted(j) \/ Releases(j)
      BY <1>1, <1>2, <3>2, RowAfter
    <3>3. ASSUME NEW v \in Worker, ClaimedBy(v, j) \/ Completes(v, j)
          PROVE  FALSE
      BY <1>1, <1>2, <1>4, <3>3, RowAfter
    <3>4. CASE Renews(j)
      BY <1>1, <3>4, RowAfter
    <3> QED
      BY <1>1, <3>1, <3>2, <3>3, <3>4 DEF RowStep
  <2> QED
    BY <1>4, <2>1, <2>2 DEF Keeps
<1>5. CASE Drops(w)
  BY <1>2, <1>5 DEF Drops
<1> QED
  BY <1>1, <1>3, <1>4, <1>5 DEF ProcessStep

(* The conjunction from which the properties below follow. *)
THEOREM Invariance == Spec => []Inv
<1>1. Inv /\ [Next]_vars => Inv'
  <2> SUFFICES ASSUME Inv, [Next]_vars
               PROVE  Inv'
    OBVIOUS
  <2>1. TypeOK'
    BY TypeStep DEF Inv
  <2> QED
    BY <2>1, RowsInOrderInductive, HoldersAreServingInductive, OneLiveJobInductive,
       AttemptBudgetInductive, RowsPassChecksInductive, LiveErrorInductive,
       AnalysisHasJobInductive, AnalysisHonorsBuildInductive,
       OwnerIsLatestAttemptInductive DEF Inv
<1> QED
  BY <1>1, InvInit, PTL DEF Spec

-----------------------------------------------------------------------------
(* What follows. *)

(* A resubmission never finds two live jobs to join, for any history of    *)
(* requeues, reclaims and restarts.                                        *)
THEOREM AtMostOneLiveJob == Spec => []OneLiveJobPerIdentity
BY Invariance, PTL DEF Inv

(* Poison jobs, crash loops and retries spend at most MaxAttempts claims.  *)
THEOREM AttemptsAreCapped == Spec => []AttemptsCapped
<1>1. Inv => AttemptsCapped
  BY DEF Inv, AttemptBudget, AttemptsCapped
<1> QED
  BY <1>1, Invariance, PTL

(* No statement of the queue ever trips a CHECK of the jobs table.         *)
THEOREM NoCheckFails == Spec => []RowsPassChecks
BY Invariance, PTL DEF Inv

(* A job shown with an error before its end will be tried again.           *)
THEOREM ErrorsOfLiveJobs == Spec => []LiveErrorIsRetryable
BY Invariance, PTL DEF Inv

(* No worker that lost its lease leaves an analysis attached to nothing.   *)
THEOREM NoOrphanAnalysis == Spec => []AnalysisHasJob
BY Invariance, PTL DEF Inv

(* Whatever the builds of the fleet, an analysis is by the build of its    *)
(* identity.                                                               *)
THEOREM BuildsAreHonored == Spec => []AnalysisHonorsBuild
BY Invariance, PTL DEF Inv

(* A finished job is finished, whoever reports on it afterwards.           *)
THEOREM FinishedStaysFinished == Spec => TerminalIsFinal
<1>1. Inv /\ [Next]_vars =>
        [\A j \in JobId : jobs[j].status \in {"succeeded", "failed"} =>
           jobs'[j] = jobs[j]]_vars
  BY TerminalRowsStay
<1> QED
  BY <1>1, Invariance, PTL DEF Spec, TerminalIsFinal

(* Who ends a claim: a reclaim of an expired lease, or its holder. *)
LEMMA ClaimEnds ==
  ASSUME Inv, [Next]_vars, NEW j \in JobId,
         jobs[j].status = "running", jobs'[j].status # "running"
  PROVE  \/ j \in Expired /\ \E w \in Worker : worker[w].pc = "reclaim"
         \/ \E w \in Worker :
              /\ worker[w].pc \in {"complete", "fail"}
              /\ worker[w].job = j
              /\ worker[w].attempt = jobs[j].attempts
              /\ jobs[j].owner = w
<1> USE DEF Inv, TypeOK
<1>1. jobs[j] \in JobRow
  OBVIOUS
<1>2. ASSUME NEW w \in Worker, ReclaimExpired(w)
      PROVE  j \in Expired /\ worker[w].pc = "reclaim"
  BY <1>2 DEF ReclaimExpired
<1>3. ASSUME NEW w \in Worker, CompleteJob(w) \/ FailJob(w)
      PROVE  /\ worker[w].pc \in {"complete", "fail"}
             /\ worker[w].job = j
             /\ worker[w].attempt = jobs[j].attempts
             /\ jobs[j].owner = w
  <2>1. worker[w].pc \in {"complete", "fail"}
    BY <1>3 DEF CompleteJob, FailJob
  <2>2. worker[w].job = j /\ Owns(w, j)
    BY <1>3 DEF CompleteJob, FailJob
  <2>3. jobs[j].owner = w
    BY <2>2 DEF Owns
  <2>4. worker[w].attempt = jobs[j].attempts
    BY <2>2, <2>3 DEF OwnerIsLatestAttempt
  <2> QED
    BY <2>1, <2>2, <2>3, <2>4
<1>4. ASSUME NEW w \in Worker, Claim(w)
      PROVE  FALSE
  <2> PICK k \in Claimable(w) : jobs' = [jobs EXCEPT ![k] = Claimed(jobs[k], w)]
    BY <1>4 DEF Claim
  <2>1. j # k
    BY DEF Claimable
  <2> QED
    BY <2>1
<1>5. ASSUME NEW i \in Identity, Enqueue(i)
      PROVE  FALSE
  <2>1. j # submitted + 1
    BY <1>5, IdentityIsFixed DEF Enqueue, Inserted
  <2> QED
    BY <1>5, <2>1 DEF Enqueue
<1>6. ASSUME NEW w \in Worker, Renew(w)
      PROVE  FALSE
  BY <1>1, <1>6 DEF Renew, JobRow
<1>7. ASSUME NEW k \in JobId, LeaseExpires(k)
      PROVE  FALSE
  BY <1>1, <1>7 DEF LeaseExpires, JobRow
<1>8. jobs' # jobs
  OBVIOUS
<1> QED
  BY <1>2, <1>3, <1>4, <1>5, <1>6, <1>7, <1>8
     DEF Next, WorkerStep, HeartbeatStep, Join, EndJoin, Start, ClaimNothing, LoadReplay,
         LoseLease, HeartbeatDies, AnalysisReturns, AnalysisFails, InsertAnalysis, Crash, vars

(* No process but the one of a claim's own attempt ends it while its lease *)
(* lasts, and a claim whose lease is over is ended by that one or by a     *)
(* reclaim: the worker id alone fences off stale reports.                  *)
THEOREM ClaimsAreFenced == Spec => ClaimEndsByOwnerOrExpiry
<1>1. Inv /\ [Next]_vars =>
        [\A j \in JobId :
           jobs[j].status = "running" /\ jobs'[j].status # "running" =>
             \/ j \in Expired /\ \E w \in Worker : worker[w].pc = "reclaim"
             \/ \E w \in Worker :
                  /\ worker[w].pc \in {"complete", "fail"}
                  /\ worker[w].job = j
                  /\ worker[w].attempt = jobs[j].attempts
                  /\ jobs[j].owner = w]_vars
  BY ClaimEnds
<1> QED
  BY <1>1, Invariance, PTL DEF Spec, ClaimEndsByOwnerOrExpiry

-----------------------------------------------------------------------------
(* The queue implements the life of a job. *)

(* The empty tables are those of the lifecycle. *)
LEMMA SimulationInit == Init => Lifecycle!Init
<1> SUFFICES ASSUME Init
             PROVE  Lifecycle!Init
  OBVIOUS
<1> QED
  BY DEF Init, NoRow, Lifecycle!Init, Lifecycle!JobId, JobId

(* The columns of jobs, as the refinement maps them.                       *)
Statuses == [j \in JobId |-> jobs[j].status]
Identities == [j \in JobId |-> jobs[j].identity]
Attempts == [j \in JobId |-> jobs[j].attempts]
Published == {i \in Identity : analyses[i] # NULL}

(* The columns of the lifecycle after a step on one row. *)
LEMMA ColumnsAfter ==
  ASSUME TypeOK, NEW j \in JobId, \A k \in JobId \ {j} : jobs'[k] = jobs[k]
  PROVE  /\ Statuses' = [Statuses EXCEPT ![j] = jobs'[j].status]
         /\ Identities' = [Identities EXCEPT ![j] = jobs'[j].identity]
         /\ Attempts' = [Attempts EXCEPT ![j] = jobs'[j].attempts]
         /\ jobs'[j].identity = jobs[j].identity => Identities' = Identities
         /\ jobs'[j].attempts = jobs[j].attempts => Attempts' = Attempts
         /\ jobs'[j].status = jobs[j].status => Statuses' = Statuses
BY DEF Statuses, Identities, Attempts

(* Each step is one of the lifecycle, or none. *)
LEMMA SimulationStep == Inv /\ [Next]_vars => [Lifecycle!Next]_Lifecycle!vars
<1> SUFFICES ASSUME Inv, [Next]_vars
             PROVE  Lifecycle!Next \/ UNCHANGED Lifecycle!vars
  BY DEF Inv
<1> USE DEF Inv
<1>0. /\ JobId = Lifecycle!JobId
      /\ \A j \in JobId : jobs[j] \in JobRow /\ Statuses[j] = jobs[j].status
                         /\ Attempts[j] = jobs[j].attempts
                         /\ Identities[j] = jobs[j].identity
  BY DEF JobId, Lifecycle!JobId, TypeOK, Statuses, Attempts, Identities
<1>a. Statuses' = Statuses /\ Identities' = Identities /\ Attempts' = Attempts
        /\ submitted' = submitted /\ analyses' = analyses
      => UNCHANGED Lifecycle!vars
  BY DEF Lifecycle!vars, Statuses, Identities, Attempts, Published
<1>b. jobs' = jobs /\ submitted' = submitted /\ analyses' = analyses
      => UNCHANGED Lifecycle!vars
  BY DEF Lifecycle!vars
<1>c. \A w \in Worker :
        worker[w].pc \in {"analyze", "store", "complete", "fail"} => worker[w].job \in JobId
  <2> SUFFICES ASSUME NEW w \in Worker,
                      worker[w].pc \in {"analyze", "store", "complete", "fail"}
               PROVE  worker[w].job \in JobId
    OBVIOUS
  <2>1. worker[w] \in Process /\ worker[w].job # 0
    BY DEF TypeOK, HoldersAreServing
  <2> QED
    BY <2>1, BoundsAssumption DEF Process, JobId
<1>1. ASSUME NEW i \in Identity, Enqueue(i)
      PROVE  Lifecycle!Submit(i)
  <2> DEFINE n == submitted + 1
  <2>1. n \in JobId
    BY <1>1, Numbers DEF Enqueue
  <2>2. jobs[n] = NoRow
    BY <2>1, Numbers DEF RowsInOrder
  <2>3. /\ jobs'[n].status = "queued" /\ jobs'[n].identity = i
        /\ jobs'[n].attempts = jobs[n].attempts
        /\ \A k \in JobId \ {n} : jobs'[k] = jobs[k]
    BY <1>1, <2>1, <2>2 DEF Enqueue, NoRow, TypeOK
  <2>4. /\ Statuses' = [Statuses EXCEPT ![n] = "queued"]
        /\ Identities' = [Identities EXCEPT ![n] = i]
        /\ Attempts' = Attempts
    BY <2>1, <2>3, ColumnsAfter
  <2>5. \A j \in Lifecycle!JobId : Lifecycle!Live(j) => Identities[j] # i
    BY <1>0, <1>1 DEF Enqueue, Conflicting, Live, Lifecycle!Live, Statuses
  <2>6. submitted < MaxJobs /\ submitted' = submitted + 1 /\ Published' = Published
    BY <1>1 DEF Enqueue, Published
  <2> QED
    BY <2>4, <2>5, <2>6 DEF Lifecycle!Submit, Statuses, Identities, Attempts, Published
<1>2. ASSUME NEW w \in Worker, Claim(w)
      PROVE  \E j \in Lifecycle!JobId : Lifecycle!Begin(j)
  <2> PICK j \in Claimable(w) : jobs' = [jobs EXCEPT ![j] = Claimed(jobs[j], w)]
    BY <1>2 DEF Claim
  <2>1. j \in JobId /\ jobs[j].status = "queued"
    BY DEF Claimable
  <2>2. /\ jobs'[j].status = "running" /\ jobs'[j].identity = jobs[j].identity
        /\ jobs'[j].attempts = jobs[j].attempts + 1
        /\ \A k \in JobId \ {j} : jobs'[k] = jobs[k]
    BY <1>0, <2>1 DEF Claimed, JobRow, TypeOK
  <2>3. /\ Statuses' = [Statuses EXCEPT ![j] = "running"]
        /\ Attempts' = [Attempts EXCEPT ![j] = Attempts[j] + 1]
        /\ Identities' = Identities
    BY <1>0, <2>1, <2>2, ColumnsAfter
  <2>4. submitted' = submitted /\ Published' = Published
    BY <1>2 DEF Claim, Published
  <2>5. Lifecycle!Begin(j)
    BY <1>0, <2>1, <2>3, <2>4 DEF Lifecycle!Begin, Statuses, Attempts, Identities, Published
  <2> QED
    BY <1>0, <2>1, <2>5
<1>3. ASSUME NEW w \in Worker, ReclaimExpired(w)
      PROVE  Lifecycle!Next \/ UNCHANGED Lifecycle!vars
  <2>1. \A j \in JobId :
          /\ jobs'[j].identity = jobs[j].identity /\ jobs'[j].attempts = jobs[j].attempts
          /\ jobs'[j].status =
               IF j \notin Expired THEN jobs[j].status
               ELSE IF jobs[j].attempts < MaxAttempts THEN "queued" ELSE "failed"
    BY <1>0, <1>3 DEF ReclaimExpired, Released, AttemptLeft, JobRow
  <2>2. submitted' = submitted /\ analyses' = analyses
    BY <1>3 DEF ReclaimExpired
  <2>3. Identities' = Identities /\ Attempts' = Attempts
    BY <2>1 DEF Identities, Attempts
  <2>4. CASE Expired = {}
    <3>1. Statuses' = Statuses
      BY <2>1, <2>4 DEF Statuses
    <3> QED
      BY <1>a, <2>2, <2>3, <3>1
  <2>5. CASE Expired # {}
    <3>1. Statuses' = [j \in Lifecycle!JobId |->
                        IF j \notin Expired THEN Statuses[j]
                        ELSE IF Attempts[j] < MaxAttempts THEN "queued" ELSE "failed"]
      BY <1>0, <2>1 DEF Statuses
    <3>2. Expired \in SUBSET Lifecycle!JobId /\ \A j \in Expired : Statuses[j] = "running"
      BY <1>0 DEF Expired
    <3> PICK R \in SUBSET Lifecycle!JobId : R = Expired
      BY <3>2
    <3>3. Lifecycle!Return(R)
      BY <1>0, <2>2, <2>3, <2>5, <3>1, <3>2
         DEF Lifecycle!Return, Statuses, Attempts, Identities, Published
    <3>4. \E S \in SUBSET Lifecycle!JobId : Lifecycle!Return(S)
      BY <3>3
    <3> QED
      BY <3>4 DEF Lifecycle!Next
  <2> QED
    BY <2>4, <2>5
<1>4. ASSUME NEW w \in Worker, CompleteJob(w)
      PROVE  Lifecycle!Next \/ UNCHANGED Lifecycle!vars
  <2> PICK j \in JobId : j = worker[w].job
    BY <1>4, <1>c DEF CompleteJob
  <2>1. CASE ~Owns(w, j)
    BY <1>4, <1>b, <2>1 DEF CompleteJob
  <2>2. CASE Owns(w, j)
    <3>1. j \in JobId /\ jobs[j].status = "running" /\ jobs[j].identity \in Identity
      BY <2>2 DEF Owns, RowsInOrder, NoRow
    <3>2. /\ jobs' = [jobs EXCEPT ![j] = Released(jobs[j], "succeeded", NULL)]
          /\ analyses' = [analyses EXCEPT ![jobs[j].identity] = Carries[w]]
          /\ submitted' = submitted
      BY <1>4, <2>2 DEF CompleteJob
    <3>3. /\ jobs'[j].status = "succeeded" /\ jobs'[j].identity = jobs[j].identity
          /\ jobs'[j].attempts = jobs[j].attempts
          /\ \A k \in JobId \ {j} : jobs'[k] = jobs[k]
      BY <1>0, <3>1, <3>2 DEF Released, JobRow, TypeOK
    <3>4. /\ Statuses' = [Statuses EXCEPT ![j] = "succeeded"]
          /\ Identities' = Identities /\ Attempts' = Attempts
      BY <3>1, <3>3, ColumnsAfter
    <3>5. Carries[w] # NULL
      BY SetsAssumption, NULLAssumption
    <3>6. Published' = Published \cup {Identities[j]}
      BY <1>0, <3>1, <3>2, <3>5 DEF Published, TypeOK
    <3>7. Lifecycle!Publish(j)
      BY <1>0, <3>1, <3>2, <3>4, <3>6
         DEF Lifecycle!Publish, Statuses, Identities, Attempts, Published
    <3>8. \E r \in Lifecycle!JobId : Lifecycle!Publish(r)
      BY <1>0, <3>1, <3>7
    <3> QED
      BY <3>8 DEF Lifecycle!Next
  <2> QED
    BY <2>1, <2>2
<1>5. ASSUME NEW w \in Worker, FailJob(w)
      PROVE  Lifecycle!Next \/ UNCHANGED Lifecycle!vars
  <2> PICK j \in JobId : j = worker[w].job
    BY <1>5, <1>c DEF FailJob
  <2> DEFINE k == worker[w].kind
  <2>1. CASE ~Owns(w, j)
    BY <1>5, <1>b, <2>1 DEF FailJob
  <2>2. CASE Owns(w, j)
    <3>1. j \in JobId /\ jobs[j].status = "running"
      BY <2>2 DEF Owns
    <3>2. /\ jobs' = [jobs EXCEPT ![j] = Released(jobs[j], IF Retries(k, j) THEN "queued"
                                                          ELSE "failed", k)]
          /\ submitted' = submitted /\ analyses' = analyses
      BY <1>5, <2>2 DEF FailJob
    <3>3. /\ jobs'[j].status = IF Retries(k, j) THEN "queued" ELSE "failed"
          /\ jobs'[j].identity = jobs[j].identity /\ jobs'[j].attempts = jobs[j].attempts
          /\ \A r \in JobId \ {j} : jobs'[r] = jobs[r]
      BY <1>0, <3>1, <3>2 DEF Released, JobRow, TypeOK
    <3>4. /\ Statuses' = [Statuses EXCEPT ![j] = jobs'[j].status]
          /\ Identities' = Identities /\ Attempts' = Attempts
      BY <3>1, <3>3, ColumnsAfter
    <3>5. CASE Retries(k, j)
      <4>1. Statuses' = [r \in Lifecycle!JobId |->
                          IF r \notin {j} THEN Statuses[r]
                          ELSE IF Attempts[r] < MaxAttempts THEN "queued" ELSE "failed"]
        BY <1>0, <3>1, <3>3, <3>4, <3>5 DEF Retries, AttemptLeft, Statuses
      <4>2. Lifecycle!Return({j})
        BY <1>0, <3>1, <3>2, <3>4, <4>1
           DEF Lifecycle!Return, Statuses, Attempts, Identities, Published
      <4>3. {j} \in SUBSET Lifecycle!JobId
        BY <1>0, <3>1
      <4>4. \E S \in SUBSET Lifecycle!JobId : Lifecycle!Return(S)
        BY <4>2, <4>3
      <4> QED
        BY <4>4 DEF Lifecycle!Next
    <3>6. CASE ~Retries(k, j)
      <4>1. Lifecycle!GiveUp(j)
        BY <1>0, <3>1, <3>2, <3>3, <3>4, <3>6
           DEF Lifecycle!GiveUp, Statuses, Attempts, Identities, Published
      <4>2. \E r \in Lifecycle!JobId : Lifecycle!GiveUp(r)
        BY <1>0, <3>1, <4>1
      <4> QED
        BY <4>2 DEF Lifecycle!Next
    <3> QED
      BY <3>5, <3>6
  <2> QED
    BY <2>1, <2>2
<1>6. ASSUME NEW w \in Worker, Renew(w)
      PROVE  UNCHANGED Lifecycle!vars
  <2> DEFINE j == worker[w].job
  <2>1. j \in JobId
    BY <1>6, <1>c DEF Renew
  <2>2. /\ jobs'[j].status = jobs[j].status /\ jobs'[j].identity = jobs[j].identity
        /\ jobs'[j].attempts = jobs[j].attempts
        /\ \A r \in JobId \ {j} : jobs'[r] = jobs[r]
        /\ submitted' = submitted /\ analyses' = analyses
    BY <1>0, <1>6, <2>1 DEF Renew, TypeOK, JobRow
  <2> QED
    BY <1>a, <2>1, <2>2, ColumnsAfter
<1>7. ASSUME NEW j \in JobId, LeaseExpires(j)
      PROVE  UNCHANGED Lifecycle!vars
  <2>1. /\ jobs'[j].status = jobs[j].status /\ jobs'[j].identity = jobs[j].identity
        /\ jobs'[j].attempts = jobs[j].attempts
        /\ \A r \in JobId \ {j} : jobs'[r] = jobs[r]
        /\ submitted' = submitted /\ analyses' = analyses
    BY <1>0, <1>7 DEF LeaseExpires, TypeOK, JobRow
  <2> QED
    BY <1>a, <2>1, ColumnsAfter
<1>8. ASSUME jobs' = jobs, submitted' = submitted, analyses' = analyses
      PROVE  UNCHANGED Lifecycle!vars
  BY <1>8, <1>b
<1>9. CASE (\E i \in Identity : Enqueue(i)) \/ (\E w \in Worker : Claim(w))
  BY <1>1, <1>2, <1>9 DEF Lifecycle!Next
<1> QED
  BY <1>3, <1>4, <1>5, <1>6, <1>7, <1>8, <1>9
     DEF Next, WorkerStep, HeartbeatStep, Join, EndJoin, Start, ClaimNothing, LoadReplay,
         LoseLease, HeartbeatDies, AnalysisReturns, AnalysisFails, InsertAnalysis, Crash, vars

(* Clients of the queue may reason with JobLifecycle alone: one live job   *)
(* per identity, bounded attempts, ends that stay, and an analysis made    *)
(* visible together with the success of its job.                           *)
THEOREM Refinement == Spec => ImplementsLifecycle
BY Invariance, SimulationInit, SimulationStep, PTL
   DEF Spec, ImplementsLifecycle, Lifecycle!Spec
=============================================================================
