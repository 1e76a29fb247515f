------------------------------- MODULE WebPage -------------------------------
(***************************************************************************)
(* The web client in one browser tab: the hash route, the view it renders, *)
(* and the calls to the API that views start and may outlive.              *)
(*                                                                         *)
(* React keeps the state of a view whose kind does not change, runs its    *)
(* effect again when the route does, and tells the calls of the effect     *)
(* before it that they are no longer live.  The jobs live as JobLifecycle  *)
(* says; an answer of the API is read and delivered in one step, as a      *)
(* delayed one is an earlier one to a page that asks again.                *)
(***************************************************************************)
EXTENDS Naturals

CONSTANTS Identity,     \* analysis identities, one analysis id each
          MaxJobs,      \* bound: rows ever inserted into jobs
          MaxAttempts,  \* JOB_MAX_ATTEMPTS
          MaxActs,      \* bound: what the visitor does
          NULL

ASSUME PageAssumption ==
  /\ {MaxJobs, MaxAttempts, MaxActs} \subseteq Nat
  /\ NULL \notin Identity

VARIABLES submitted, identity, status, attempts, published,  \* JobLifecycle's
          hash,    \* window.location.hash
          route,   \* the route App has rendered
          visit,   \* how many routes it has rendered before this one
          call,    \* visit -> the call its view has started
          view,    \* the state of the mounted view
          acts     \* how often the visitor has acted

jobVars == <<submitted, identity, status, attempts, published>>
pageVars == <<hash, route, visit, call, view>>
vars == <<jobVars, pageVars, acts>>

Jobs == INSTANCE JobLifecycle

Home == [page |-> "home", id |-> NULL]
JobPage(j) == [page |-> "job", id |-> j]
AnalysisPage(i) == [page |-> "analysis", id |-> i]
Route == {Home} \cup {JobPage(j) : j \in Jobs!JobId} \cup {AnalysisPage(i) : i \in Identity}

(* One act of the visitor leads to two routes at most: a submission to its *)
(* job, and the job to its analysis.                                       *)
Visit == 0..(2 * MaxActs + 1)

(* A form's call waits for a submission ("idle" before it), a job's for an *)
(* answer or for the pause between two polls.                              *)
Call == [route : Route, wants : Identity \cup {NULL},
         pc : {"idle", "asking", "pausing", "done"}]

View == [error    : {"none", "input", "refused", "lost", "missing"},
         job      : [id : 0..MaxJobs, status : {"none", "queued", "running", "succeeded", "failed"}],
         document : Identity \cup {NULL}]

TypeOK ==
  /\ {hash, route} \subseteq Route
  /\ visit \in Visit
  /\ call \in [Visit -> Call]
  /\ view \in View
  /\ acts \in 0..MaxActs

Blank == [error |-> "none", job |-> [id |-> 0, status |-> "none"], document |-> NULL]

(* A call nobody waits for, and the call a view starts when it is shown.   *)
Over == [route |-> Home, wants |-> NULL, pc |-> "done"]
Started(r) == [route |-> r, wants |-> NULL, pc |-> IF r = Home THEN "idle" ELSE "asking"]

Init ==
  /\ Jobs!Init
  /\ hash \in Route
  /\ route = hash
  /\ visit = 0
  /\ call = [n \in Visit |-> IF n = 0 THEN Started(hash) ELSE Over]
  /\ view = Blank
  /\ acts = 0

-----------------------------------------------------------------------------
(* The route. *)

(* Whether the component at the route's place in the tree stays mounted.   *)
Kept(r, s) == r.page = s.page

(* hashchange, delivered some time after the hash was set: App renders the *)
(* hash as it is now, and the effects of the view run.                     *)
HashChange ==
  /\ hash # route
  /\ route' = hash
  /\ visit' = visit + 1
  /\ call' = [call EXCEPT ![visit + 1] = Started(hash)]
  /\ view' = IF Kept(route, hash) THEN view ELSE Blank
  /\ UNCHANGED <<jobVars, hash, acts>>

Act == acts < MaxActs /\ acts' = acts + 1

(* The visitor follows a link, goes back, or edits the address. *)
Go ==
  /\ Act
  /\ hash' \in Route \ {hash}
  /\ UNCHANGED <<jobVars, route, visit, call, view>>

(* The tab is reloaded, and its calls end with the document. *)
Reload ==
  /\ Act
  /\ route' = hash
  /\ visit' = visit + 1
  /\ call' = [n \in Visit |-> IF n = visit + 1 THEN Started(hash) ELSE Over]
  /\ view' = Blank
  /\ UNCHANGED <<jobVars, hash>>

-----------------------------------------------------------------------------
(* The calls. *)

(* Mutant: an effect without its cleanup. *)
LiveAlways(n) == TRUE

(* The flag an effect's cleanup clears: the call is of the view on screen. *)
Live(n) == n = visit

Asking(n, page) == call[n].pc = "asking" /\ call[n].route.page = page
Continues(n, pc) == call' = [call EXCEPT ![n].pc = pc]

(* Mutant: a call that nobody waits for is made again. *)
EndedToAskAgain(n) == Continues(n, "pausing")

Ended(n) == call' = [call EXCEPT ![n] = Over]

(* Mutant: the job's id where the analysis's belongs. *)
NavigateByJob(r) == hash' = [r EXCEPT !.id = submitted]

Navigate(r) == hash' = r

(* The rows behind the two reads, and what the API tells of a job.         *)
JobRow(j) == j \in 1..submitted
AnalysisRow(i) == i \in published
JobView(j) == [id |-> j, status |-> status[j]]

(* Mutant: a job that is over has its analysis. *)
PollSettlesOnEnd(n, j) ==
  \/ /\ status[j] \in {"succeeded", "failed"}
     /\ Navigate(AnalysisPage(identity[j]))
     /\ Continues(n, "done")
  \/ status[j] \in {"queued", "running"} /\ Continues(n, "pausing") /\ UNCHANGED hash

(* What a poll that is still live makes of a job's status. *)
PollSettles(n, j) ==
  \/ /\ status[j] = "succeeded"
     /\ Navigate(AnalysisPage(identity[j]))
     /\ Continues(n, "done")
  \/ status[j] = "failed" /\ Continues(n, "done") /\ UNCHANGED hash
  \/ status[j] \in {"queued", "running"} /\ Continues(n, "pausing") /\ UNCHANGED hash

(* GET /v1/jobs/:jobId finds the job. *)
JobFound(n, j) == JobRow(j) /\ call[n].route = JobPage(j)

PollAnswered(n) ==
  /\ Asking(n, "job")
  /\ \E j \in Jobs!JobId :
       /\ JobFound(n, j)
       /\ IF Live(n)
          THEN /\ view' = [view EXCEPT !.job = JobView(j)]
               /\ PollSettles(n, j)
          ELSE Ended(n) /\ UNCHANGED <<hash, view>>
  /\ UNCHANGED <<jobVars, route, visit, acts>>

(* There is no such job, its statement failed, or the API is out of reach. *)
PollFails(n) ==
  /\ Asking(n, "job")
  /\ IF Live(n)
     THEN view' = [view EXCEPT !.error = "lost"] /\ Continues(n, "done")
     ELSE UNCHANGED view /\ Ended(n)
  /\ UNCHANGED <<jobVars, hash, route, visit, acts>>

(* Mutant: a poll after the pause only to see a failure. *)
PauseEndsIfFailed(n) ==
  /\ call[n].pc = "pausing"
  /\ status[call[n].route.id] = "failed"
  /\ Continues(n, "asking")
  /\ UNCHANGED <<jobVars, hash, route, visit, view, acts>>

(* The timer of two seconds, which no cleanup clears. *)
PauseEnds(n) ==
  /\ call[n].pc = "pausing"
  /\ Continues(n, "asking")
  /\ UNCHANGED <<jobVars, hash, route, visit, view, acts>>

(* GET /v1/analyses/:analysisId finds the document. *)
AnalysisFound(n) == AnalysisRow(call[n].route.id)

LoadAnswered(n) ==
  /\ Asking(n, "analysis")
  /\ AnalysisFound(n)
  /\ IF Live(n)
     THEN view' = [view EXCEPT !.document = call[n].route.id] /\ Continues(n, "done")
     ELSE UNCHANGED view /\ Ended(n)
  /\ UNCHANGED <<jobVars, hash, route, visit, acts>>

(* There is none, the statement failed (the route answers 404 to both), or *)
(* the API is out of reach.                                                *)
LoadFails(n) ==
  /\ Asking(n, "analysis")
  /\ IF Live(n)
     THEN view' = [view EXCEPT !.error = "missing"] /\ Continues(n, "done")
     ELSE UNCHANGED view /\ Ended(n)
  /\ UNCHANGED <<jobVars, hash, route, visit, acts>>

-----------------------------------------------------------------------------
(* The form. *)

(* The button is disabled while a submission is under way.                 *)
Submit(i) ==
  /\ Act
  /\ call[visit].pc = "idle"
  /\ call' = [call EXCEPT ![visit].pc = "asking", ![visit].wants = i]
  /\ view' = [view EXCEPT !.error = "none"]
  /\ UNCHANGED <<jobVars, hash, route, visit>>

SubmitNothing ==
  /\ call[visit].pc = "idle"
  /\ view' = [view EXCEPT !.error = "input"]
  /\ UNCHANGED <<jobVars, hash, route, visit, call, acts>>

(* The form on screen is usable again, one that was left is gone.          *)
FormSettles(n) ==
  call' = [call EXCEPT ![n] = IF Live(n) THEN Started(Home) ELSE Over]

(* POST /v1/analyses: the analysis, or the job that was made or joined.    *)
(* The page goes there, whatever it shows by now.                          *)
SubmitAnswered(n) ==
  LET i == call[n].wants IN
  /\ Asking(n, "home")
  /\ \/ i \in published /\ Navigate(AnalysisPage(i)) /\ UNCHANGED jobVars
     \/ \E j \in Jobs!JobId :
          /\ i \notin published
          /\ \/ Jobs!Submit(i) /\ j = submitted + 1
             \/ Jobs!Live(j) /\ identity[j] = i /\ UNCHANGED jobVars
          /\ Navigate(JobPage(j))
  /\ FormSettles(n)
  /\ UNCHANGED <<route, visit, view, acts>>

(* Refused, unanswered, or unanswerable: perhaps with its job in place.    *)
SubmitFails(n) ==
  /\ Asking(n, "home")
  /\ UNCHANGED jobVars \/ (call[n].wants \notin published /\ Jobs!Submit(call[n].wants))
  /\ view' = IF Live(n) THEN [view EXCEPT !.error = "refused"] ELSE view
  /\ FormSettles(n)
  /\ UNCHANGED <<hash, route, visit, acts>>

-----------------------------------------------------------------------------
(* Submissions from elsewhere, and the workers. *)
Others ==
  /\ \/ \E i \in Identity \ published : Jobs!Submit(i)
     \/ \E j \in Jobs!JobId : Jobs!Begin(j) \/ Jobs!GiveUp(j) \/ Jobs!Publish(j)
     \/ \E S \in SUBSET Jobs!JobId : Jobs!Return(S)
  /\ UNCHANGED <<pageVars, acts>>

CallStep(n) ==
  \/ PollAnswered(n) \/ PollFails(n) \/ PauseEnds(n)
  \/ LoadAnswered(n) \/ LoadFails(n)
  \/ SubmitAnswered(n) \/ SubmitFails(n)

Next ==
  \/ HashChange \/ Go \/ Reload
  \/ \E i \in Identity : Submit(i)
  \/ SubmitNothing
  \/ \E n \in Visit : CallStep(n)
  \/ Others

Spec == Init /\ [][Next]_vars

(* The browser delivers its events, and every call is answered or fails.   *)
Fairness == WF_vars(HashChange) /\ \A n \in Visit : WF_vars(CallStep(n))

FairSpec == Spec /\ Fairness

-----------------------------------------------------------------------------
(* Properties. *)

(* When the call of the view on screen is over and it shows no error, it   *)
(* shows what its route names, and a job's page has stopped asking because *)
(* that job is over: state kept from the route before, and answers to      *)
(* calls of earlier routes, are gone by then.                              *)
SettledPageShowsItsRoute ==
  call[visit].pc = "done" /\ view.error = "none" =>
    /\ route.page = "analysis" => view.document = route.id
    /\ route.page = "job" =>
         view.job.id = route.id /\ view.job.status \in {"succeeded", "failed"}

(* A job's page that was left, with a poll under way or a pause pending,   *)
(* neither moves the page nor writes into the view that took its place,    *)
(* and makes no more than the one request it had planned: a poll that is   *)
(* answered or fails is its last.                                          *)
LeftJobStaysOut ==
  [][\A n \in Visit : n # visit /\ call[n].route.page = "job" /\ call'[n] # call[n] =>
       \/ visit' # visit
       \/ /\ UNCHANGED <<hash, view>>
          /\ call[n].pc = "asking" => call'[n].pc = "done"]_vars

(* Where the page takes its visitor by itself, from a form to a job and    *)
(* from a job to its analysis, there is what the route names: the answer   *)
(* that named it was not ahead of the tables.                              *)
PageLeadsSomewhere ==
  [][hash' # hash /\ acts' = acts =>
       /\ hash'.page = "job" => hash'.id \in 1..submitted'
       /\ hash'.page = "analysis" => hash'.id \in published']_vars

(* All pages that were left fall silent, however long their jobs take and  *)
(* whatever they were waiting for.                                         *)
LeftPagesFallSilent ==
  []<>(\A n \in Visit : n < visit => call[n].pc \in {"idle", "done"})

(* A visitor who stays on a job's page is taken from it, or at least told, *)
(* once the job has succeeded, unless a poll has failed: one failure ends  *)
(* the polling.  (Told: whose next act meets the page as it moves.)        *)
SucceededJobIsShown ==
  \A j \in Jobs!JobId :
    route = JobPage(j) /\ status[j] = "succeeded" ~>
      route # JobPage(j) \/ view.error = "lost" \/ view.job = [id |-> j, status |-> "succeeded"]
=============================================================================
