---------------------------- MODULE JobLifecycle ----------------------------
(***************************************************************************)
(* What the queue promises its users, with no worker, lease, heartbeat or  *)
(* transaction in sight: a submission creates at most one live job per     *)
(* identity, a job is attempted a bounded number of times, and its end is  *)
(* either a published analysis or a failure that stays.                    *)
(*                                                                         *)
(* Each action is what one statement of db/queries does to the rows as     *)
(* the API's readers see them.  Module JobQueue implements this one.       *)
(***************************************************************************)
EXTENDS Naturals

CONSTANTS Identity,     \* analysis identities: the cache keys
          MaxJobs,      \* bound: rows ever inserted into jobs
          MaxAttempts,  \* JOB_MAX_ATTEMPTS
          NULL          \* no value yet

VARIABLES submitted,    \* the number of rows of jobs
          identity,     \* job number -> what it analyses
          status,       \* job number -> job_status
          attempts,     \* job number -> how often it has been claimed
          published     \* the identities with a row in analyses

vars == <<submitted, identity, status, attempts, published>>

JobId == 1..MaxJobs
Live(j) == status[j] \in {"queued", "running"}

Init ==
  /\ submitted = 0
  /\ identity = [j \in JobId |-> NULL]
  /\ status = [j \in JobId |-> "none"]
  /\ attempts = [j \in JobId |-> 0]
  /\ published = {}

-----------------------------------------------------------------------------
(* enqueue_job.sql, when no live job has the identity. *)
Submit(i) ==
  /\ submitted < MaxJobs
  /\ \A j \in JobId : Live(j) => identity[j] # i
  /\ submitted' = submitted + 1
  /\ identity' = [identity EXCEPT ![submitted + 1] = i]
  /\ status' = [status EXCEPT ![submitted + 1] = "queued"]
  /\ UNCHANGED <<attempts, published>>

(* claim_job.sql *)
Begin(j) ==
  /\ status[j] = "queued"
  /\ status' = [status EXCEPT ![j] = "running"]
  /\ attempts' = [attempts EXCEPT ![j] = @ + 1]
  /\ UNCHANGED <<submitted, identity, published>>

(* reclaim_expired.sql, and fail_job.sql for a retryable failure: back to  *)
(* the queue while an attempt is left, dead letter otherwise.              *)
Return(S) ==
  /\ S # {}
  /\ \A j \in S : status[j] = "running"
  /\ status' = [j \in JobId |->
                 IF j \notin S THEN status[j]
                 ELSE IF attempts[j] < MaxAttempts THEN "queued" ELSE "failed"]
  /\ UNCHANGED <<submitted, identity, attempts, published>>

(* fail_job.sql for a failure that would repeat everywhere. *)
GiveUp(j) ==
  /\ status[j] = "running"
  /\ status' = [status EXCEPT ![j] = "failed"]
  /\ UNCHANGED <<submitted, identity, attempts, published>>

(* The transaction of _report_success: the analysis and the end of the job *)
(* become visible together.                                                *)
Publish(j) ==
  /\ status[j] = "running"
  /\ status' = [status EXCEPT ![j] = "succeeded"]
  /\ published' = published \cup {identity[j]}
  /\ UNCHANGED <<submitted, identity, attempts>>

Next ==
  \/ \E i \in Identity : Submit(i)
  \/ \E j \in JobId : Begin(j) \/ GiveUp(j) \/ Publish(j)
  \/ \E S \in SUBSET JobId : Return(S)

Spec == Init /\ [][Next]_vars
=============================================================================
