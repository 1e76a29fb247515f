----------------------------- MODULE WorkerLaunch -----------------------------
(***************************************************************************)
(* Starting workers: the launcher each submission runs after its job is    *)
(* queued, the drain tasks it starts, and the scheduled sweep under it.    *)
(*                                                                         *)
(* ECS is external: a task is listed from the moment it is started until   *)
(* it has stopped (desiredStatus RUNNING counts pending tasks).  A job is  *)
(* waiting when a claim could return it, because it is queued or because   *)
(* its lease ran out; what a claim does to its row is JobQueue's.          *)
(***************************************************************************)
EXTENDS Naturals, FiniteSets

CONSTANTS Launch,     \* submissions, and so the calls of ensureRunning
          Task,       \* bound: the drain tasks at any one time
          MaxTasks,   \* WORKER_MAX_TASKS
          MaxKills,   \* bound: tasks stopped from outside
          NULL

ASSUME LaunchAssumption ==
  /\ IsFiniteSet(Task)
  /\ MaxTasks \in Nat \ {0} /\ MaxKills \in Nat /\ NULL \notin Launch

VARIABLES job,       \* the job of each submission
          attempt,   \* where #attempt stands
          stale,     \* launch -> whether a task was started since it counted
          answered,  \* the submissions that have their 202
          task,      \* drain task -> its state
          holds,     \* drain task -> the job it analyses, or NULL
          kills

vars == <<job, attempt, stale, answered, task, holds, kills>>

TypeOK ==
  /\ job \in [Launch -> {"none", "waiting", "held", "over"}]
  /\ attempt \in [Launch -> {"off", "list", "run", "ran", "skipped", "failed"}]
  /\ stale \in [Launch -> BOOLEAN]
  /\ answered \subseteq Launch
  /\ task \in [Task -> {"off", "pending", "draining", "leaving"}]
  /\ holds \in [Task -> Launch \cup {NULL}]
  /\ kills \in 0..MaxKills

Init ==
  /\ job = [l \in Launch |-> "none"]
  /\ attempt = [l \in Launch |-> "off"]
  /\ stale = [l \in Launch |-> FALSE]
  /\ answered = {}
  /\ task = [t \in Task |-> "off"]
  /\ holds = [t \in Task |-> NULL]
  /\ kills = 0

InFlight == {t \in Task : task[t] # "off"}

(* Mutant: lastStatus RUNNING instead of desiredStatus RUNNING. *)
ListedRunning == {t \in Task : task[t] \in {"draining", "leaving"}}

(* The tasks ListTasks returns. *)
Listed == InFlight

-----------------------------------------------------------------------------
(* The launcher. *)

(* enqueue has answered with a job still queued; ensureRunning arms its    *)
(* timer and sends ListTasks.                                              *)
Submit(l) ==
  /\ job[l] = "none"
  /\ job' = [job EXCEPT ![l] = "waiting"]
  /\ attempt' = [attempt EXCEPT ![l] = "list"]
  /\ UNCHANGED <<stale, answered, task, holds, kills>>

(* The submission is answered with the attempt that ends. *)
Settle(l, outcome) ==
  /\ attempt' = [attempt EXCEPT ![l] = outcome]
  /\ answered' = answered \cup {l}

CountInFlight(l) ==
  /\ attempt[l] = "list"
  /\ IF Cardinality(Listed) >= MaxTasks
     THEN Settle(l, "skipped")
     ELSE attempt' = [attempt EXCEPT ![l] = "run"] /\ UNCHANGED answered
  /\ stale' = [stale EXCEPT ![l] = FALSE]
  /\ UNCHANGED <<job, task, holds, kills>>

(* Mutant: a state of ECS the rest does not know. *)
StartedProvisioning(t) == task' = [task EXCEPT ![t] = "provisioning"]

(* A task is pending from its RunTask on. *)
Started(t) == task' = [task EXCEPT ![t] = "pending"]

Run(l) ==
  /\ attempt[l] = "run"
  /\ \E t \in Task : task[t] = "off" /\ Started(t)
  /\ Settle(l, "ran")
  /\ stale' = [k \in Launch |-> TRUE]
  /\ UNCHANGED <<job, holds, kills>>

(* ECS throttles or denies one of the two calls. *)
AttemptFails(l) ==
  /\ attempt[l] \in {"list", "run"}
  /\ Settle(l, "failed")
  /\ UNCHANGED <<job, stale, task, holds, kills>>

(* Mutant: the timer is cleared when the count is in.                      *)
ExpireUnlessCounted(l) ==
  /\ attempt[l] = "list"
  /\ answered' = answered \cup {l}
  /\ UNCHANGED <<job, attempt, stale, task, holds, kills>>

(* The timer wins the race: the submission is answered, and the calls it   *)
(* no longer waits for go on.                                              *)
Expire(l) ==
  /\ attempt[l] \in {"list", "run"}
  /\ answered' = answered \cup {l}
  /\ UNCHANGED <<job, attempt, stale, task, holds, kills>>

-----------------------------------------------------------------------------
(* The drain tasks and the sweep. *)

(* Mutant: a schedule that starts nothing. *)
SweepDisabled == FALSE /\ UNCHANGED vars

(* The schedule starts one task whatever is running, and never retries.    *)
Sweep ==
  /\ \E t \in Task : task[t] = "off" /\ Started(t)
  /\ stale' = [k \in Launch |-> TRUE]
  /\ UNCHANGED <<job, attempt, answered, holds, kills>>

Boot(t) ==
  /\ task[t] = "pending"
  /\ task' = [task EXCEPT ![t] = "draining"]
  /\ UNCHANGED <<job, attempt, stale, answered, holds, kills>>

(* run_until_empty: reclaim, claim, analyse, report, again. *)
Claim(t) ==
  /\ task[t] = "draining"
  /\ holds[t] = NULL
  /\ \E l \in Launch :
       /\ job[l] = "waiting"
       /\ job' = [job EXCEPT ![l] = "held"]
       /\ holds' = [holds EXCEPT ![t] = l]
  /\ UNCHANGED <<attempt, stale, answered, task, kills>>

Report(t) ==
  /\ holds[t] # NULL
  /\ job' = [job EXCEPT ![holds[t]] = "over"]
  /\ holds' = [holds EXCEPT ![t] = NULL]
  /\ UNCHANGED <<attempt, stale, answered, task, kills>>

(* The last claim has found nothing: the loop returns, the connection is   *)
(* closed and the process exits, while ECS still lists the task.           *)
FindNothing(t) ==
  /\ task[t] = "draining"
  /\ holds[t] = NULL
  /\ \A l \in Launch : job[l] # "waiting"
  /\ task' = [task EXCEPT ![t] = "leaving"]
  /\ UNCHANGED <<job, attempt, stale, answered, holds, kills>>

Stop(t) ==
  /\ task[t] = "leaving"
  /\ task' = [task EXCEPT ![t] = "off"]
  /\ UNCHANGED <<job, attempt, stale, answered, holds, kills>>

(* The task is killed; the lease of what it held runs out. *)
Kill(t) ==
  /\ task[t] \in {"pending", "draining"}
  /\ kills < MaxKills
  /\ kills' = kills + 1
  /\ task' = [task EXCEPT ![t] = "off"]
  /\ job' = IF holds[t] = NULL THEN job ELSE [job EXCEPT ![holds[t]] = "waiting"]
  /\ holds' = [holds EXCEPT ![t] = NULL]
  /\ UNCHANGED <<attempt, stale, answered>>

-----------------------------------------------------------------------------
TaskStep(t) == Boot(t) \/ Claim(t) \/ Report(t) \/ FindNothing(t) \/ Stop(t)

Next ==
  \/ \E l \in Launch :
       Submit(l) \/ CountInFlight(l) \/ Run(l) \/ AttemptFails(l) \/ Expire(l)
  \/ \E t \in Task : TaskStep(t) \/ Kill(t)
  \/ Sweep

Spec == Init /\ [][Next]_vars

(* Tasks run, timers fire, the schedule comes round. *)
Fairness ==
  /\ \A l \in Launch : WF_vars(Expire(l))
  /\ \A t \in Task : WF_vars(TaskStep(t))
  /\ WF_vars(Sweep)

FairSpec == Spec /\ Fairness

-----------------------------------------------------------------------------
(* Only a race starts a task at the cap: a launcher that counted after the *)
(* last start never does, so one submission after the other, even in the   *)
(* seconds a task spends pending, stays under it.                          *)
CapBrokenByRaceOnly ==
  [][\A l \in Launch :
       attempt[l] = "run" /\ attempt'[l] = "ran" /\ ~stale[l] =>
         Cardinality(InFlight) < MaxTasks]_vars

(* A submission waits for its launcher no longer than the timer, whatever  *)
(* ECS does.                                                               *)
SubmissionIsAnswered == \A l \in Launch : job[l] # "none" ~> l \in answered

(* A queued job gets done by some task, though its launch was skipped, was *)
(* refused, or was never answered, and though tasks are killed.            *)
EveryJobIsDone == \A l \in Launch : job[l] = "waiting" ~> job[l] = "over"
=============================================================================
