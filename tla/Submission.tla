------------------------------ MODULE Submission ------------------------------
(***************************************************************************)
(* POST /v1/analyses: what the handler does between a request and its      *)
(* answer, on several API instances at once, over the tables they share.   *)
(*                                                                         *)
(* One action is one awaited call (a statement, a phase of the fetch, the  *)
(* launch) with the code that runs on its answer up to the next await.     *)
(* The jobs themselves live as JobLifecycle says, which JobQueue           *)
(* implements.  The limiter's clock is counted in whole windows, and each  *)
(* request is one call: a client that retries is another request.          *)
(***************************************************************************)
EXTENDS Contract, Integers, FiniteSets

CONSTANTS Request,      \* submissions, each handled once
          Client,       \* client addresses: the limiter's keys
          Instance,     \* API instances
          BuildOf,      \* instance -> the build it is configured with
          Asked,        \* bound: the bodies that clients send
          Limit,        \* SUBMIT_RATE_LIMIT_PER_HOUR
          MaxWindow,    \* bound: the windows that pass
          MaxJobs,      \* bound: rows ever inserted into jobs
          MaxAttempts,  \* JOB_MAX_ATTEMPTS
          NULL

(* Analysis identities: the cache keys. *)
Identity == {DeriveIdentity(submit, BuildOf[n]) : submit \in Asked, n \in Instance}

ASSUME SubmissionAssumption ==
  /\ Asked \subseteq SubmitRequest
  /\ BuildOf \in [Instance -> EngineBuild]
  /\ IsFiniteSet(Request)
  /\ Limit \in Nat \ {0}
  /\ {MaxWindow, MaxJobs, MaxAttempts} \subseteq Nat
  /\ NULL \notin Client \cup Instance \cup Identity

VARIABLES submitted, identity, status, attempts, published,  \* JobLifecycle's
          replays,     \* the replay ids stored in replays
          clock,       \* instance -> the window its own clock is in
          lastSweep,   \* instance -> the window of RateLimiter.lastSweep
          count,       \* <<client, window>> -> rate_limit_windows.count, 0 without a row
          request      \* request -> where its handler stands

jobVars == <<submitted, identity, status, attempts, published>>
limitVars == <<clock, lastSweep, count>>
vars == <<jobVars, replays, limitVars, request>>

Jobs == INSTANCE JobLifecycle

Window == 0..MaxWindow

(* The handler's locals: who serves whom, the window tryConsume computed,  *)
(* whether a unit was consumed, the job the handler knows of, and the HTTP *)
(* status sent.  "made", the job this request inserted, is a history       *)
(* variable: a handler whose enqueue went unanswered does not know it.     *)
Handler == [pc       : {"idle", "cache", "consume", "sweep", "replay", "fetch",
                        "body", "keep", "enqueue", "launch", "done"},
            at       : Instance \cup {NULL},
            client   : Client \cup {NULL},
            identity : Identity \cup {NULL},
            window   : Window,
            unit     : BOOLEAN,
            job      : 0..MaxJobs,
            made     : 0..MaxJobs,
            answer   : {0, 200, 202, 404, 413, 422, 429, 500, 502, 504}]

TypeOK ==
  /\ submitted \in 0..MaxJobs
  /\ replays \subseteq Replay
  /\ clock \in [Instance -> Window]
  /\ lastSweep \in [Instance -> Window]
  /\ count \in [Client \X Window -> 0..Limit]
  /\ request \in [Request -> Handler]

Init ==
  /\ Jobs!Init
  /\ replays = {}
  /\ clock = [n \in Instance |-> 0]
  /\ lastSweep = [n \in Instance |-> 0]
  /\ count = [cw \in Client \X Window |-> 0]
  /\ request = [r \in Request |->
       [pc |-> "idle", at |-> NULL, client |-> NULL, identity |-> NULL, window |-> 0,
        unit |-> FALSE, job |-> 0, made |-> 0, answer |-> 0]]

(* The request as its handler leaves it: at its next await, or answered. *)
GoTo(h, pc) == [h EXCEPT !.pc = pc]
Reply(h, code) == [h EXCEPT !.pc = "done", !.answer = code]

-----------------------------------------------------------------------------
(* The cache and the limiter. *)

Receive(r, n, c, submit) ==
  /\ request[r].pc = "idle"
  /\ request' = [request EXCEPT ![r] =
       [@ EXCEPT !.pc = "cache", !.at = n, !.client = c,
                 !.identity = DeriveIdentity(submit, BuildOf[n])]]
  /\ UNCHANGED <<jobVars, replays, limitVars>>

(* analysisByIdentity; on a miss tryConsume computes its window at once.   *)
ReadCache(r) ==
  /\ request[r].pc = "cache"
  /\ request' = [request EXCEPT ![r] =
       IF @.identity \in published THEN Reply(@, 200)
       ELSE [GoTo(@, "consume") EXCEPT !.window = clock[request[r].at]]]
  /\ UNCHANGED <<jobVars, replays, limitVars>>

(* Whether a window's length has passed between two readings of a clock    *)
(* that lie so many window boundaries apart.                               *)
SweepDue(boundaries) ==
  IF boundaries <= 0 THEN {FALSE} ELSE IF boundaries = 1 THEN {TRUE, FALSE} ELSE {TRUE}

AfterLimiter(h) == IF h.unit THEN GoTo(h, "replay") ELSE Reply(h, 429)

(* Mutants: one unit too many; the last unit is never handed out.          *)
AllowedAtLimit(c, w) == count[<<c, w>>] <= Limit
AllowedBelowLimit(c, w) == count[<<c, w>>] + 1 < Limit

(* The WHERE of consumeRateLimit's DO UPDATE; a first unit always fits.    *)
Allowed(c, w) == count[<<c, w>>] < Limit

(* consumeRateLimit, and the test at the head of sweep() on its answer.    *)
Consume(r) ==
  LET h == [request[r] EXCEPT !.unit = Allowed(request[r].client, request[r].window)] IN
  /\ request[r].pc = "consume"
  /\ count' = [count EXCEPT ![<<h.client, h.window>>] = IF h.unit THEN @ + 1 ELSE @]
  /\ \E due \in SweepDue(h.window - lastSweep[h.at]) :
       /\ lastSweep' = [lastSweep EXCEPT ![h.at] = IF due THEN h.window ELSE @]
       /\ request' = [request EXCEPT ![r] = IF due THEN GoTo(h, "sweep") ELSE AfterLimiter(h)]
  /\ UNCHANGED <<jobVars, replays, clock>>

(* Mutant: the sweep takes the open window along. *)
SweptToo(w, start) == w <= start

(* The rows sweepRateLimits deletes. *)
Swept(w, start) == w < start

Sweep(r) ==
  /\ request[r].pc = "sweep"
  /\ count' = [cw \in Client \X Window |->
                IF Swept(cw[2], request[r].window) THEN 0 ELSE count[cw]]
  /\ request' = [request EXCEPT ![r] = AfterLimiter(@)]
  /\ UNCHANGED <<jobVars, replays, clock, lastSweep>>

-----------------------------------------------------------------------------
(* The replay: from the table, or from Showdown under one abort timer. *)

ReadReplay(r) ==
  /\ request[r].pc = "replay"
  /\ request' = [request EXCEPT ![r] =
       GoTo(@, IF @.identity.replayId \in replays THEN "enqueue" ELSE "fetch")]
  /\ UNCHANGED <<jobVars, replays, limitVars>>

(* fetch() resolves with the headers of a 2xx; the timer keeps running.    *)
HeadersArrive(r) ==
  /\ request[r].pc = "fetch"
  /\ request' = [request EXCEPT ![r] = GoTo(@, "body")]
  /\ UNCHANGED <<jobVars, replays, limitVars>>

(* 404, or any other refusal and any failure below HTTP. *)
FetchFails(r) ==
  /\ request[r].pc = "fetch"
  /\ \E code \in {404, 502} : request' = [request EXCEPT ![r] = Reply(@, code)]
  /\ UNCHANGED <<jobVars, replays, limitVars>>

FetchTimesOut(r) ==
  /\ request[r].pc = "fetch"
  /\ request' = [request EXCEPT ![r] = Reply(@, 504)]
  /\ UNCHANGED <<jobVars, replays, limitVars>>

(* Mutant: the replay is not waited for before the job is inserted.        *)
BodyArrivesUnkept(r) ==
  /\ request[r].pc = "body"
  /\ request' = [request EXCEPT ![r] = GoTo(@, "enqueue")]
  /\ UNCHANGED <<jobVars, replays, limitVars>>

BodyArrives(r) ==
  /\ request[r].pc = "body"
  /\ request' = [request EXCEPT ![r] = GoTo(@, "keep")]
  /\ UNCHANGED <<jobVars, replays, limitVars>>

(* Over the byte cap; not JSON, not an object, no body, no usable log.     *)
BodyRefused(r) ==
  /\ request[r].pc = "body"
  /\ \E code \in {413, 422} : request' = [request EXCEPT ![r] = Reply(@, code)]
  /\ UNCHANGED <<jobVars, replays, limitVars>>

(* Mutant: the timer is cleared once the headers are there.                *)
BodyNeverTimesOut(r) == FALSE /\ UNCHANGED vars

(* The abort, or a broken connection, while the body is read: nothing      *)
(* catches it, and the server answers an unclassified error.               *)
BodyTimesOut(r) ==
  /\ request[r].pc = "body"
  /\ request' = [request EXCEPT ![r] = Reply(@, 500)]
  /\ UNCHANGED <<jobVars, replays, limitVars>>

(* upsertReplay *)
KeepReplay(r) ==
  /\ request[r].pc = "keep"
  /\ replays' = replays \cup {request[r].identity.replayId}
  /\ request' = [request EXCEPT ![r] = GoTo(@, "enqueue")]
  /\ UNCHANGED <<jobVars, limitVars>>

-----------------------------------------------------------------------------
(* The job and the answer. *)

(* Mutant: an insert that conflicts with no live job of the identity.      *)
InsertsBlindly(i, j) ==
  /\ j = submitted + 1 /\ submitted < MaxJobs /\ submitted' = j
  /\ identity' = [identity EXCEPT ![j] = i]
  /\ status' = [status EXCEPT ![j] = "queued"]
  /\ UNCHANGED <<attempts, published>>

(* enqueue: the live job of the identity, or a new one.                    *)
Inserts(i, j) == Jobs!Submit(i) /\ j = submitted + 1
Joins(i, j) == Jobs!Live(j) /\ identity[j] = i /\ UNCHANGED jobVars

(* A job somebody has started on needs no launch.                          *)
Enqueue(r) ==
  /\ request[r].pc = "enqueue"
  /\ \E j \in Jobs!JobId :
       /\ \/ Inserts(request[r].identity, j) /\ request' = [request EXCEPT ![r] =
               [GoTo(@, "launch") EXCEPT !.job = j, !.made = j]]
          \/ Joins(request[r].identity, j) /\ request' = [request EXCEPT ![r] =
               IF status[j] = "queued" THEN [GoTo(@, "launch") EXCEPT !.job = j]
               ELSE [Reply(@, 202) EXCEPT !.job = j]]
  /\ UNCHANGED <<replays, limitVars>>

(* The insert commits and its answer is lost with the connection.          *)
EnqueueUnanswered(r) ==
  /\ request[r].pc = "enqueue"
  /\ \E j \in Jobs!JobId :
       /\ Inserts(request[r].identity, j)
       /\ request' = [request EXCEPT ![r] = [Reply(@, 500) EXCEPT !.made = j]]
  /\ UNCHANGED <<replays, limitVars>>

(* Mutant: a launcher that throws turns the answer into an error.          *)
LaunchUncaught(r) ==
  /\ request[r].pc = "launch"
  /\ \E code \in {202, 500} : request' = [request EXCEPT ![r] = Reply(@, code)]
  /\ UNCHANGED <<jobVars, replays, limitVars>>

(* ensureRunning, of which the answer does not depend: the launcher gives  *)
(* up after its timeout and swallows every failure.                        *)
Launch(r) ==
  /\ request[r].pc = "launch"
  /\ request' = [request EXCEPT ![r] = Reply(@, 202)]
  /\ UNCHANGED <<jobVars, replays, limitVars>>

(* A statement fails without effect and the server answers an error.  One  *)
(* that takes effect unanswered is the statement followed by this step.    *)
StatementFails(r) ==
  /\ request[r].pc \in {"cache", "consume", "sweep", "replay", "keep", "enqueue"}
  /\ request' = [request EXCEPT ![r] = Reply(@, 500)]
  /\ UNCHANGED <<jobVars, replays, limitVars>>

-----------------------------------------------------------------------------
(* Around the handlers. *)

(* An instance's clock enters its next window.  Clocks are skewed by less  *)
(* than a window.                                                          *)
Tick(n) ==
  /\ clock[n] < MaxWindow
  /\ \A m \in Instance : clock[n] <= clock[m]
  /\ clock' = [clock EXCEPT ![n] = @ + 1]
  /\ UNCHANGED <<jobVars, replays, lastSweep, count, request>>

(* The instance is replaced: its requests are never answered, and the      *)
(* limiter of the new one starts from its own clock.                       *)
Replace(n) ==
  /\ lastSweep' = [lastSweep EXCEPT ![n] = clock[n]]
  /\ request' = [r \in Request |->
                  IF request[r].at = n THEN GoTo(request[r], "done") ELSE request[r]]
  /\ UNCHANGED <<jobVars, replays, clock, count>>

(* The workers, as the API sees them. *)
Work ==
  /\ \/ \E j \in Jobs!JobId : Jobs!Begin(j) \/ Jobs!GiveUp(j) \/ Jobs!Publish(j)
     \/ \E S \in SUBSET Jobs!JobId : Jobs!Return(S)
  /\ UNCHANGED <<replays, limitVars, request>>

(* What ends without the network's help: statements and timers. *)
HandlerStep(r) ==
  \/ ReadCache(r) \/ Consume(r) \/ Sweep(r)
  \/ ReadReplay(r) \/ FetchTimesOut(r) \/ BodyTimesOut(r) \/ KeepReplay(r)
  \/ Enqueue(r) \/ EnqueueUnanswered(r) \/ Launch(r) \/ StatementFails(r)

Showdown(r) == HeadersArrive(r) \/ FetchFails(r) \/ BodyArrives(r) \/ BodyRefused(r)

Next ==
  \/ \E r \in Request :
       \/ \E n \in Instance, c \in Client, submit \in Asked : Receive(r, n, c, submit)
       \/ HandlerStep(r)
       \/ Showdown(r)
  \/ \E n \in Instance : Tick(n) \/ Replace(n)
  \/ Work

Spec == Init /\ [][Next]_vars

(* The database answers or fails, and the timers of the fetch and of the   *)
(* launch fire; Showdown, ECS and the workers owe nothing.                 *)
Fairness == \A r \in Request : WF_vars(HandlerStep(r))

FairSpec == Spec /\ Fairness

-----------------------------------------------------------------------------
(* Properties. *)

Admitted(c, w) ==
  {r \in Request : request[r].unit /\ request[r].client = c /\ request[r].window = w}

(* No more than Limit submissions of a client are admitted in a window, on *)
(* all instances together, until the window is over for one of them: the   *)
(* counter is shared and no sweep forgets it earlier.                      *)
LimitHoldsInOpenWindow ==
  \A c \in Client, w \in Window :
    (\A n \in Instance : clock[n] <= w) => Cardinality(Admitted(c, w)) <= Limit

(* A 429 is deserved: the client has had its Limit submissions in the      *)
(* window the refusal is about, whatever was swept, failed or refused.     *)
RefusedOnlyAtLimit ==
  \A r \in Request : request[r].answer = 429 =>
    Cardinality(Admitted(request[r].client, request[r].window)) >= Limit

(* Every job's replay is stored before the job can be claimed, so that no  *)
(* worker finds it missing, even when the requests of two identities share *)
(* a replay and one of them fails half way.                                *)
JobHasReplay ==
  \A j \in Jobs!JobId : status[j] # "none" => identity[j].replayId \in replays

(* What a client is told holds: a 200 is a published analysis, a 202 names *)
(* a job of the identity asked for, an error sent by a handler that knows  *)
(* its job does not exist ("from here on the submission has succeeded",    *)
(* routes.ts), and a classified refusal has enqueued nothing.              *)
AnswersAreTrue ==
  \A r \in Request : LET h == request[r] IN
    /\ h.answer = 200 => h.identity \in published
    /\ h.answer = 202 => h.job # 0 /\ identity[h.job] = h.identity
    /\ h.job # 0 => h.answer \in {0, 202}
    /\ h.made # 0 => h.answer \in {0, 202, 500}

(* The job of a request: the one it was given, or has made without being   *)
(* told.                                                                   *)
JobsOf(r) == {request[r].job, request[r].made} \ {0}

(* Two submissions of one analysis, on any instances, that both have a     *)
(* live job have the same one, also when the insert of one was never       *)
(* answered: who then submits again is given the job that exists.  And a   *)
(* job that has succeeded has left an analysis of what was asked for.      *)
SubmittersShare ==
  \A q, r \in Request : \A j \in JobsOf(q), k \in JobsOf(r) :
    /\ request[q].identity = request[r].identity /\ Jobs!Live(j) /\ Jobs!Live(k) => j = k
    /\ status[j] = "succeeded" => request[q].identity \in published

(* Every request is answered or goes down with its instance, whatever      *)
(* Showdown and ECS do.                                                    *)
EveryRequestEnds ==
  \A r \in Request : request[r].pc # "idle" ~> request[r].pc = "done"

-----------------------------------------------------------------------------
(* What the repository says of submissions, and the code does not do. *)

(* README.md:20: "Resubmitting the same identity returns the cached        *)
(* analysis rather than spending another core-minute."  The cache is read  *)
(* first and the job inserted last.                                        *)
NoSecondSearch ==
  [][\A i \in published :
       \A j \in Jobs!JobId : identity'[j] = i => identity[j] = i]_vars

(* docs/contract.md: replay_timeout is "Request exceeded the timeout", a   *)
(* 504, and replay_transport_failure "Failed below the HTTP layer", a 502. *)
(* While the body is read neither is recognised.                           *)
FetchErrorsAreClassified ==
  [][\A r \in Request :
       /\ request[r].pc \in {"fetch", "body"}
       /\ request'[r].pc = "done"
       /\ request'[r].answer # 0
       => request'[r].answer \in {404, 413, 422, 502, 504}]_vars
=============================================================================
