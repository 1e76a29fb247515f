# battle-cloud in TLA+

battle-cloud takes a Pokémon Showdown replay id, queues an analysis of it, runs a search engine
over it on a worker, and serves the resulting document. This directory models the parts of it
where processes meet: the queue in PostgreSQL and the workers on it, the submission handler on
several API instances, the launcher that starts workers, the paginated list, the pages of a
browser tab, and a deployment as it comes up.

## The system

| Part | Code | State | Operations |
|---|---|---|---|
| Job queue | `db/queries/*.sql`, `db/migrations/0001`, `0002` | rows of `jobs` and `analyses` | enqueue, claim, heartbeat, complete, fail, reclaim |
| Worker process | `worker/battle_cloud_worker/queue.py`, `__main__.py` | its place in the loop, the job it claimed, a heartbeat thread | `run_until_empty` (drain task), `run_forever` (compose) |
| Submission handler | `api/src/routes.ts`, `store.ts` | one handler per request | cache, limit, replay, enqueue, launch, answer |
| Rate limiter | `api/src/ratelimit.ts`, `0003` | `rate_limit_windows`; `lastSweep` per instance | `tryConsume`, sweep |
| Replay fetch | `api/src/replay/fetch.ts` | one abort timer per fetch | `fetchReplay` |
| Launcher and sweep | `api/src/worker.ts`, `infra/scheduler.tf`, `infra/ecs.tf` | ECS tasks | `ensureRunning`; a scheduled RunTask |
| Public list | `store.ts`, `routes.ts`, `web/src/components/recent.tsx` | the client's cursor | `GET /v1/analyses` |
| Contract | `api/src/contract/*` | none | validate, derive an identity |
| Lambda entry, server, configuration | `api/src/lambda.ts`, `server.ts`, `config.ts`, `infra/secrets.tf`, `infra/lambda.tf` | the cached promise `ready`; the SSM parameter | cold start, invocation, recycling, deploy, rotation |
| Web client | `web/src/app.tsx`, `api.ts`, `components/*` | the hash, the mounted view, the calls it started | submit, poll a job every two seconds, show a document |
| Migration runner | `db/migrate.py`, `db/migrations/*` | `schema_migrations`, the schema | up, down |
| Engine adapter, telemetry | `worker/.../engine.py`, `telemetry.py` | none | classify exceptions, flag slow runs |
| Turn estimate, worker configuration | `replay/estimate.ts`, `worker/.../config.py` | none | count turns; read the environment |

They interact through PostgreSQL alone, except that the API calls ECS to start a drain task,
fetches from Showdown, and is polled by the web client. No part calls a worker.

What is hard here: every statement of every process is a step of its own and anything may happen
between two; a worker's claim is a lease that runs out under it; the only fence of a late report is
the worker id in a `WHERE` clause; two kinds of row locks (`ON CONFLICT DO UPDATE` waits, `SKIP LOCKED`
does not); processes die anywhere, nobody but another worker notices; the handler reads early what it
acts on late; ECS answers late or about tasks that are leaving; clocks and timestamps are cut to
windows and milliseconds; an instance lives on with what it read when it started; views are left while
their calls are under way; migrations are run by whoever deploys, perhaps by two at once. `PROJECT.json` lists these hazards at their lines.

What makes each part correct:

- queue: at most one live job per identity; bounded attempts; a finished job stays; an analysis is
  never attached to nothing, nor stored under another build's identity; every job of a served build ends;
- handler: what it answers is true; a job's replay precedes it; every request ends;
- limiter: no more than the limit in an open window, on all instances together; no refusal below it;
- launcher: never delays an answer beyond its timer, never the only way a job gets done;
- list: every analysis once, in order, and an end;
- page: it shows what its route names, and pages that were left stay out of it and fall silent;
- start: an instance is up whole or not at all, and recovers once what was wrong is put right;
- migrations: what is recorded is what exists, whoever died where.

## Modules

| Module | What |
|---|---|
| `JobLifecycle` | abstract: what the queue promises, without workers, leases or transactions |
| `JobQueue` | the queue and its workers, one action per statement; implements `JobLifecycle` |
| `JobQueueProofs` | theorems about `JobQueue`, for every value of its constants |
| `Contract` | profiles, accepted bodies and the derivation of an identity: no state |
| `Submission` | `POST /v1/analyses` with limiter and fetch, over `Contract` and `JobLifecycle` |
| `WorkerLaunch` | launcher, drain tasks, sweep |
| `RecentList` | keyset pagination, and the page that asks for it |
| `WebPage` | a browser tab: route, views, calls, over `JobLifecycle` |
| `Migrate` | runners of `migrate.py` on one database |
| `ColdStart` | the API as a Lambda function, from configuration to answers |
| `Deployment` | `Migrate` and `ColdStart` on one database |
| `JobLifecycleProofs` | theorems about `JobLifecycle`, which `SubmissionProofs` and `WebPageProofs` take over |
| `SubmissionProofs`, `WorkerLaunchProofs`, `RecentListProofs`, `WebPageProofs`, `MigrateProofs`, `DeploymentProofs` | theorems about these |
| `MC...` | instances for TLC, with one `.cfg` per run |

### JobQueue

`jobs[j]` is a row, numbered in the order of `(created_at, id)` in which `claim_job.sql` takes them. Of the
claim columns it keeps the owner and whether the lease is in the future (`live`), past (`expired`) or
unset; `analysis_id` is the analysis of the job's identity, as that is the only one the code ever sets.
`analyses[i]` is the build that produced the row of identity `i`. An identity stands for the nine columns
of the unique keys; `BuildOf` picks out the two that name a build.

A worker's `pc` is the statement it runs next: `reclaim`, `claim`, `load`, `analyze` (the engine, with the
heartbeat thread beside it), `store` and `complete` (the two statements of the success transaction),
`fail`. A drain task begins every round with a reclaim, and ends on an empty claim; the long-lived
worker reclaims only after an empty claim. Points a reader may miss:

- *Locks.* `joining` holds the rows that a submission's `ON CONFLICT DO UPDATE` has locked for the
  duration of its statement. A claim skips them, the other statements wait. A second insert of the same
  analysis waits for the transaction of the first (`InsertAnalysis`).
- *Transaction.* The analysis becomes visible at the commit, together with the finished job, or never.
- *Heartbeat.* It renews, finds its lease lost, or dies of an exception without telling anybody.
  `hb.lost` is looked at after a search that returned, not after one that raised.
- *Fence.* `Owns` is the `WHERE` clause of the three reports: status and worker id, no attempt number.
  `attempt` in the process record is what the claim returned, which the code only logs; here it lets
  `ClaimEndsByOwnerOrExpiry` say which claim a report belongs to.
- *Crash.* At any statement; also what an exception other than `EngineFailure` does. The process comes
  back with the same worker id (a restarted container), the hardest case for the fence.
- The status `cancelled` is left out: no code writes it.

### Submission

One action is one awaited call together with the code that runs on its answer. A request is served
once; a client that retries is another request. What a client sends is a body of `Contract`; the identity is
derived from it and from the build the instance is configured with (`BuildOf`), so two profiles of one replay
are two identities that share a replay. The limiter's clock counts whole windows, one clock per
instance, skewed by less than a window; whether a full window has passed since `lastSweep` is open when
one boundary lies between. The jobs are `JobLifecycle`'s variables, its `Submit` is the insert and its other
actions are the workers, which `JobQueue` has been shown to implement. Statements fail without effect; a
statement that takes effect unanswered is that statement followed by a failure, except for `enqueue`, as a
handler that knows its job answers 202 and nothing else: `EnqueueUnanswered` is the insert whose answer is lost. Its client
is told 500 of a job that exists, and the next submission is given that job while it is live (`SubmittersShare`).
`LimitHoldsInOpenWindow` says "open" because the limit does not hold beyond: a submission stamped before a
boundary may be counted after a sweep has deleted its window's row. `made`, the job a request inserted, is a history
variable. A local server serves many requests per instance and a Lambda instance one at a time: the
model allows both.

### WorkerLaunch

`attempt[l]` is `#attempt`, which goes on after the timer has won the race; `answered` is what the
submission waits for. A task is listed from `RunTask` until it has stopped, so also while `pending` and
while `leaving`, after its last claim. `stale` (a history variable) says whether a task was started since a
launcher counted.

### RecentList

Time is in ticks, `TicksPerMs` of them to a millisecond. `created_at` is the time of the worker's `BEGIN`,
so rows can become visible out of order. A load may fail; the page then keeps its cursor and its button asks
again, except that a first load that fails leaves a page without a button, whose traversal is over. `listed`, `cuts` and `present` are history variables.

### WebPage

`hash` is what the address says, `route` what `App` has rendered; `hashchange` comes between them. Each
rendering is a visit, and each visit starts at most one call at a time: a form's submission, a job's poll and
its pause, or the load of a document. `Live(n)` is the flag that an effect's cleanup clears. React keeps the
state of a view while the kind of the page stays the same (`Kept`): the error of one analysis stays in place
on the way to the next. An answer is read and delivered in one step. Development builds mount every view
twice (`StrictMode`); the model is of the production build.

### Migrate, ColdStart, Deployment

A runner reads what is recorded once, plans, and runs one transaction per version; `Needs` and `Dropped`
are what the SQL files require and take along. `ColdStart` has one record per instance: `reading` the
parameter, `ready` or `rejected` with the environment and the string it was built from, and the invocation
it works on. `Deployed` is the sequence of environments the function is given, the wrong ones included.
`Deployment` composes the two over the variable `schema`: an instance's statements name relations
(`Named`) that a migration has made or not yet made.

## Runs

| Run | Bounds | Shows |
|---|---|---|
| `queue_safety` | 3 workers (drain, forever, another build), 2 identities, one without a stored replay, 2 jobs, 2 attempts, 1 crash; 588k states | the queue's ten safety properties, refinement included |
| `queue_liveness` | 2 workers, 2 identities of a build each, of which one is unserved | `EveryJobEnds`, for jobs of the served build |
| `submission_safety` | 3 requests of one client, 2 instances, limit 1, 2 windows | the limiter |
| `submission_liveness` | 2 requests, the 2 profiles of one replay | answers, replays, one live job for all who ask, termination |
| `submission_cache` | 2 requests, 1 identity | violated: a resubmission may search again |
| `submission_fetch` | 1 request | violated: a timeout in the body is a 500 |
| `launch_fair` | 2 submissions, cap 1, 3 concurrent tasks, 1 kill | cap, answers, jobs done |
| `list_pages` | 5 rows, pages of 2, 3 ticks, 2 to a millisecond, loads that fail | order, no repeats, an end |
| `list_skip` | same | violated: a row can fall between column and cursor precision |
| `page_tab` | 2 acts of the visitor, 2 jobs, 2 identities, 1 attempt | what a tab shows, that it moves to what exists only, and that left pages stay out and fall silent |
| `deployment` | 2 runners, 3 commands, 1 instance, 5 environments of which the last is right | record, start, recovery |
| `deployment_placeholder` | 1 instance, 1 environment | violated: an instance starts with the placeholder |

The bounds are the smallest at which the interesting cases happen. Two attempts make a retry, a reclaim
and a dead letter; two jobs a resubmission after a failure, and two identities at once; one crash, with
unlimited lost leases, a holder that comes back under its own id. Three requests on two instances are
what a sweep between a stamped window and its count needs. A limit or cap of one is reached soonest and
is no special case in the code. Five rows in pages of two make a third page, and an exactly full last one
at four. Two acts of a visitor make a submission that is left while it is under way, and a page left for one
of its own kind; two runners with three commands make a race of ups, a down between them, and a third after
either died; five environments in a row are the four ways to misconfigure the function and the right one, and
one instance is enough as instances share only what the composition already changes under it.
`CHECK_DEADLOCK FALSE` appears where the system may stop: all jobs submitted
and done, all requests answered.

### Fairness

- *Workers* (`WF` per worker): compose restarts them, the sweep starts drain tasks again, the engine
  returns, statements end. No fairness for heartbeats, submissions or crashes.
- *Leases*: one that nobody renews runs out (`AbandonedLeaseExpires`); one that is renewed may.
- *Joins*: a statement's lock ends. `EveryJobEnds` moreover supposes that clients at some point stop
  resubmitting the job: `SKIP LOCKED` does not queue for the lock, so a client that holds the row at the very
  moment of each claim hides it. The condition concerns the same job only.
- *Handlers*: statements end or fail, timers fire. Showdown and ECS owe nothing.
- *Sweep*: the schedule comes round, and sometimes its task starts.
- *List*: a visitor who has more to read asks again, and not every load fails (`SF` on `Load`).
- *Page* (`WF`): the browser delivers `hashchange` and timers, and a call is answered or fails. Which of the
  two is open: `SucceededJobIsShown` therefore ends in "or a poll has failed", after which the code does not
  poll again; that the page then says so is part of `SettledPageShowsItsRoute`.
- *Deployment*: clients keep asking and the platform starts, times out and rejects (`WF`). Neither SSM nor the
  database fails for ever, and the platform at some point takes an instance back that keeps becoming idle
  (`SF` on `ParameterRead`, `Serve` and `Recycle`). Recovery from a cached rejection, or from credentials that
  were rotated, rests on `Recycle` alone: the code itself never reads again.

`MaxCrashes` and `MaxJobs` bound what would otherwise starve: a process that always dies, a load that never
lets a long-lived worker reclaim.

## Proofs

Every theorem holds for all values of the constants, from the named assumptions and what the theorem itself assumes.

`JobQueueProofs` proves, for any set of workers, identities and builds and any bounds, from the named
assumptions of `JobQueue` alone: the type invariant, the six other invariants of `queue_safety`, its two
action properties, and that `JobQueue` implements `JobLifecycle`.

The checked invariants are not inductive. `Inv` adds what they rest on:

- a row number, once given, keeps its identity, and numbers above `submitted` are empty, so that an insert
  cannot disturb a row and a holder's job has an identity;
- a process that holds a job serves the build of that job, which makes what it stores right;
- a queued job has an attempt left, without which a claim, which does not test the cap, could exceed it;
- a process at `complete` or `fail` whose worker id matches a running row is the one of the latest attempt.
  This is why the id alone is enough of a fence: a process holds one job at a time, so an id that comes
  back has forgotten the earlier claim.

The lemmas give one step per action; the action properties and the refinement follow from `Inv` in the
current and the next state. The refinement maps the columns of the rows; a claim is `Begin`, a reclaim of
several jobs at once is one `Return`, a retryable failure a `Return` of one, any other failure a `GiveUp`, the
commit a `Publish`, everything else a stutter.

`JobLifecycleProofs` proves what the abstract queue promises, so that nobody who knows jobs by their rows alone
has to look into `JobQueue`: one live job per identity, analyses of exactly the jobs that succeeded, bounded
attempts, ends that stand. `Submission` and `WebPage` each implement `JobLifecycle` (a request or a call
is one statement of the queue or none), and take these theorems over by `INSTANCE`.

`SubmissionProofs` proves all invariants of `Submission` with its types. Its invariant has three parts.
`JobsFit` and `ReplaysKept` relate the tables: numbers, identities, and a stored replay for every job. `HandlersFit`
says of each handler what it may rely on at its place: at `enqueue` its replay is stored; a job it knows has its
identity; the window it carries is not ahead of its instance's clock. This stays true by itself as the tables
only grow (`Grows`, `FitsStays`). `Counted` relates a counter to the units it handed out: never more than were
admitted, which makes refusals deserved, and not fewer while no clock has passed the window, which makes the
limit hold. The last is where the sweep could go wrong: it deletes windows before the one its request
carries, and that one is not ahead of a clock, so a window open for all is never among them. `SubmittersShare` joins
the two sides: what a handler knows of its job, and the promise that live jobs of one identity are one job.
`IdentitiesAreExact` is about `Contract` alone: the cache key leaves out the profile's name and still neither
merges nor splits analyses.

`WebPageProofs`: the bound of `Visit` is not an assumption about the visitor but follows. `Paid` adds up what
has been visited and what may still come without another act: two visits for each form whose answer is due, the hash
that is not yet rendered, the analysis that a polled job leads to. The sum never exceeds twice the acts and one, as
every step of the page spends what it leads to. With it come the types, `SettledPageShowsItsRoute`
(the call of the view on screen is that of its route), `LeftJobStaysOut`, and `PageLeadsSomewhere`, which needs the
promise that a succeeded job has its analysis.

`MigrateProofs`: as long as no down ran beside an up, the recorded versions are an initial segment and are the
schema, and the plan of every up begins no later than right after it. One that begins earlier fails on what
is there. `DeploymentProofs` shows that a deployment implements `Migrate`, so that its theorems carry over, and that
instances are up whole for every sequence of environments. `WorkerLaunchProofs`: a launcher's count of tasks stays
an upper bound until another start makes it stale.

`RecentListProofs`: what is listed is not below the cursor, which only moves down, whatever precision it has lost.
The rows that are missed take more. A page is a prefix of the rows below the cursor by rank, so the proofs first show
that a finite set of rows has a newest and an oldest (the strict subset relation of finite sets is well-founded;
no induction over data is needed), and that what a page leaves out comes after all it shows. `Accounted` is the
invariant: a row that was there from the start and is not listed is either still below the cursor or `CutOff`, hence
of the last row's millisecond. `OnlyCutsAreMissed` follows, and so does `WholeMillisecondsMissNothing`: with one tick to a
millisecond nothing is ever cut off, and the property that `list_skip` finds violated holds for every list and
page size. The lost precision is the one cause of that finding.

Every invariant and every action property of a passing run is the statement of a theorem. Only model-checked are the
properties that need fairness, which is beyond the prover: `EveryJobEnds`, `EveryRequestEnds`,
`SubmissionIsAnswered`, `EveryJobIsDone`, `TraversalEnds`, `LeftPagesFallSilent`, `SucceededJobIsShown` and
`ServiceRecovers`. The four violations are TLC's too: they are single behaviours.

## Where code and documents part

Four disagreements have a run that shows them and an entry under `findings`: the search that is repeated
after a resubmission, the unclassified 500 of a body that times out, the row that falls between two pages, and
the placeholder with which an instance starts. Smaller ones, met on the way, have no run:

- `docs/contract.md:68` lists `running -> queued` for an expired lease only; `fail_job.sql` also requeues a
  retryable failure under a live one.
- `queue.py:240` says a drain task processes "until nothing is left for this build"; a claim skips a row that
  a submission's `ON CONFLICT DO UPDATE` holds at that moment, and the task ends on it.
- `worker.ts:91` says that a running task "will pick this up on its way through"; a task may be listed after its
  last claim, and the job then waits for the hourly sweep, which `EveryJobIsDone` relies on.
- `infra/variables.tf:56` calls the variable behind `WORKER_MAX_TASKS` a "ceiling on worker tasks the API will start",
  and `worker.test.ts:60` the cap "a ceiling, not a suggestion". Launchers that have all counted before any of them
  starts a task pass it together; `CapBrokenByRaceOnly` says that nothing else does.
- `analysis.tsx:65` tells every failure, an unreachable API included, as "No analysis with that id.", and keeps
  saying so when the route goes on to an analysis that is there.
- An up and a down of `migrate.py` at once can leave a version recorded whose column is gone; nothing in the
  repository says they may be run so, and the properties of `Migrate` exclude it (`overlapped`).

## Plan

1. `HeartbeatTiming`: lease, interval and late renewals in numbers. `EngineOutcome`: the classification of
   `engine.py`, so that `EngineKind` is derived.
2. A theorem that composes the implementations: `Submission` with `JobQueue` as its queue has the properties
   proved of it over `JobLifecycle`.
3. `Submission` over `JobQueue` itself, in place of its abstraction, on the smallest instance.

## Not modelled

- Deletion: nothing in the repository deletes an analysis or a replay, so `ON DELETE` rules never act.
- A heartbeat thread that outlives the five seconds its owner waits for it.
- An engine call that never returns: it renews its lease for ever, and nothing in the code bounds it.
- `total_turns` and `gradable_turns`, which an upsert of an analysis leaves as they were.
- The limiter's `retry-after` header, and everything that only shapes text, logs or pages: charts, the turn
  table, the clock on a job's page, the estimate of turns.
- The schema of the documents: no modelled code looks into one.
- The engine adapter (a mapping of exceptions to the kinds `JobQueue` starts from), the worker's configuration
  (its constants), and the declarations of networks, roles and builds.
- How often a heartbeat is late: a lease may run out at any time here.
- `migrate.py status`, which prints.
