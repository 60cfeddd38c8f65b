# A verification project for the AI-dev-tools homeworks

The repository holds four small systems. Two of them are concurrent programs
with state that outlives a crash, and most of this project is about those two:

* `03-deployment`: **Agent Relay**, a task broker. Agents send each other tasks
  over HTTP; workers claim them by long polling under a lease, heartbeat, and
  submit a result; a recovery loop returns abandoned tasks. It runs on SQLite
  (one process) or PostgreSQL (several replicas).
* `04-devops`: the **incident responder** of the Order Tracker app. Grafana
  webhooks open incidents; one worker thread collects evidence, lets an agent
  propose a patch in a git worktree, checks it against a policy, deploys it with
  runbooks, verifies, and rolls back or escalates.
* `02-development`: **Top Table**, league standings (FastAPI and a React page).
* `01-ai-native-workflow`: a **data freshness tracker** (Django).

## 1. Inventory

| Component | State it keeps | Operations | Interacts with | What is hard | What makes it correct |
|---|---|---|---|---|---|
| Relay store: `storage.py`, `database.py` | rows of `agents`, `tasks`, `attempts`; `RELAY_MAX_ATTEMPTS`, lease length | register, create, claim, heartbeat, complete, fail, recover | called by every route, by the recovery loop, by all replicas at once | late, repeated and stale submissions; leases that run out unnoticed; limits changed by a restart | rows of a task and its attempts agree; a result is final and is the accepted one; an expired lease stays expired; nothing is overtaken or forgotten |
| The store on PostgreSQL | the same, plus row locks, tuple versions and the sessions | the same handlers, statement by statement | PostgreSQL (READ COMMITTED, `FOR UPDATE`, `SKIP LOCKED`, unique indexes) | anything between two statements; a replica that dies inside a transaction; clocks that differ | the same as with one writer at a time; no deadlock, no starvation |
| Create and listing | the unique constraint on sender and key; cursors | `create_task`, `list_tasks`, `list_agents` | clients that retry, clients that page | check-then-insert races; rows inserted between two pages | one key, one task; a walk over the pages misses nothing |
| Relay API: `main.py`, `schemas.py` | the recovery task, waiting claims | routes, long poll, recovery loop, readiness | store, workers, dashboard | cancellation, overload | the loop outlives the failure of a pass |
| Relay worker: `worker.py` | its claim, the lease it believes in, a counter | poll, compute, submit with retries, heartbeat | store, over HTTP | lost answers, late requests, 429 and 5xx, a stale claim | what it counts is what is stored; a stale worker is refused |
| Relay dashboard, container, Kubernetes, scripts, CI | none | rendering, configuration | API | | |
| Responder intake: `server.py`, `Incident`, `open_or_attach` | `incidents/*/status.json`, the queue in memory, the worker thread | alert, resolved alert, close, listing, the worker loop | Grafana, operators, the pipeline | two threads that rewrite the same file without a lock; a full queue; a crash; the one worker thread | an alert storm is one run; the budget; everything accepted is handled; how it ended is recorded |
| Responder pipeline: `_handle`, `runbooks/*.sh` | git branch, incident branches, worktrees, docker images, the container | worktree, agent, gate, tests, commit, deploy, verify, roll back | git, docker, the agent, an operator of the same repository | every command can fail or time out; the operator works in the same tree and branch | only gated fixes run; a rollback restores; nobody's work is lost; no worktree is left |
| Policy: `policy.py`, `autonomy-policy.yaml` | none (pure functions) | `effective_level`, `gate_patch`, `extension_surface_ok` | pipeline | boundaries, order of overrides | a level is only ever lowered |
| Evidence: `evidence.py`, `_verification_paths`, `verify-recovery.sh` | files of an incident | error logs and traces of the alert's route, requests picked for replay, the two reads of a counter | Loki, Tempo, Prometheus, the app | sources that lag, are down or hold more than is looked at; a counter that is exported late and restarts with every process | what fails during a verification is noticed; a fix that is said to work serves what the evidence shows |
| Agents, reports | files of an incident | subprocess and HTTP calls, redaction, rendering | pipeline | | |
| Order Tracker and telemetry: `app/main.py`, `app/telemetry.py` | table `orders`; counters of the process, what it has not exported yet | create, get, update; count and log a 5xx, export | SQLite, Collector, Prometheus, Loki | an estimate at the end of a month; a create that stores and then fails; a process that ends before it exports | its failures reach whoever looks (see Evidence) |
| Observability configuration | samples and log lines | scrape, expire, alert | the app, the responder | a series that goes away five minutes after its process | |
| Top Table: `app/main.py`, `standings.py`, `App.jsx` | tables `teams`, `matches`; the state of a page | create team, create match, standings, refresh | SQLite, browser | check-then-insert; answers that overtake each other | the table is the fold of the matches |
| Freshness tracker: `models.py`, `views.py`, `admin.py` | datasets, refresh logs | dashboard, log a refresh; record, correct, delete, deactivate, reschedule in the admin | SQLite | three queries for one status; attempts inserted out of order, recorded late, with equal times, corrected or deleted meanwhile | fresh is said of what was fresh, and a breakage that lasts is shown |

## 2. Modules

Comments in each module name the functions its actions stand for.

### Agent Relay

**`TaskLifecycle`** is the abstract specification: what a client may rely on
about one task. It is submitted once, granted at most `Bound` times, settled only
by the worker that holds it or given up by the server, and never changes again.
One step may move several tasks, because one claim recovers every expired lease.

**`AgentRelay`** is the store with one writer at a time, which is what `BEGIN
IMMEDIATE` gives the SQLite build: one handler, one action. `RegisterAgent`,
`CreateTask`, `Claim` (recovery, then the oldest queued task, then either a grant
or `attempts_exhausted`), `Heartbeat`, `CommitTerminal` (complete and fail),
`RecoverPass` (one turn of the loop in `main.py`), `Restart` (a new
`RELAY_MAX_ATTEMPTS`) and `Tick`. A claim token is the number of the attempt it
was issued for, 0 a token of no attempt; a task id is its rank in
`(created_at, id)`; a lease is the ticks it has left. `reply` is the last answer,
so that properties can say what a client was told.

**`RelayPg`** takes claim, recovery, heartbeat and submission apart for
PostgreSQL. A session reads its clock, takes the snapshot of expired attempts,
locks row after row (skipping what is locked), re-reads under the lock, takes the
snapshot of queued tasks, locks the first one it can and tests `WHERE` again,
and commits; it may die anywhere. `row` is what is committed, `draft` what the
holder of a lock has written. Clocks may be `Skew` ticks off.

**`RelayCreate`** is `create_task` with its check, its insert, the wait for a
conflicting insert, the unique violation and the one retry; and a client that
walks the pages of `list_tasks` while rows are inserted on either side of its
cursor.

**`RelayWorkers`** EXTENDS `AgentRelay` and composes it with workers: poll,
compute, submit with retries, heartbeats on the side, and a network that loses
answers and delivers requests after their sender gave up (`late`). Every step of
the store is an action of `AgentRelay`.

### Incident responder

**`Responder`** is the intake. The event loop runs one webhook or close at a
time, the worker thread runs between any two file operations. `Incident.status`
is its three steps: read, truncate, write; a file between the last two is
`torn`, and a listing that meets a torn file raises. Runs of the pipeline are
sequences of such updates; any step may raise, and the error handler escalates.
The history variables say which runs were made, which incidents a webhook was
answered 202 for, which were closed, which are done with, and for which an
update was written over another one its writer had not seen (`lost`).

**`Remediation`** is the pipeline with its runbooks beside an operator. A branch
is the sequence of its commits; an image remembers what it was built from and
the version it was stamped with. Its actions are the git and docker commands of
`_handle`, `deploy-fix.sh`, `verify-recovery.sh` and `rollback.sh` in their
order; each can fail or raise where the code lets it; the operator commits, edits
the working tree and deploys at any time. What the code does not look at is left
open: `RemoveWorktree` and the deletion of a branch in `Cleanup` may fail, `Raise` is
the error handler, which may raise itself (`RaiseAgain`), and `RollbackUp` and `Reset`
end in "rolled_back" however `rollback.sh` ended. `stuck` remembers the worktrees
whose last removal failed, `undone` the incidents whose `rollback.sh` exited with 0.

**`PolicyGate`** is `policy.py` with the values of `autonomy-policy.yaml`:
`EffectiveLevel`, `ActionAllowed`, `GatePatch` with its nine checks and
`ExtensionSurfaceOk`, as operators on a record that says of an agent run what the
policy asks: action, confidence, files, lines, how the suite ends with and
without the code change, what the CLI reports to have loaded. `Remediation`
EXTENDS it, and an incident goes through the gate in the order of `_handle`:
`EarlyGate` on the bare diff, `RunSuite`, `RemoveFix` (`git checkout HEAD`, which
restores nothing when one of the files is new), `RunSuiteBefore`, `ReapplyFix`
(`git apply`, all or nothing, exit code ignored), `GatePasses`, `CommitFix` (which
may fail unnoticed, and then an empty branch is deployed). What an agent may
answer is the constant `Run`.

**`OrderTracker`** is the app and what its telemetry lets others see: rows of
three kinds, of which `order_detail` fails on one (`placed_at.day + 2` past the end
of the month); a version is the set of kinds it fails on; a counter per route that
starts from 0 with each process and is exported at most `Delay` ticks late
(`Export`, `Start`, `Expire`); error lines in Loki, of which the newest `LogLimit`
are read.

**`Recovery`** EXTENDS it with one incident: `Alert`, `Collect` (logs, traces, the
requests picked from them), `Deploy` of some version in `Fix`, the two reads of
`verify-recovery.sh` with the replay between them and its two pauses of `Settle`
ticks, `Rollback`. The logs are gone through from the newest line on, and the first
`MaxPaths` orders are replayed (`Latest`, `Samples`). Users, an operator who deploys, exports and expiring series go
on in between. What `Remediation` says of branches and images is not repeated: a
deployment starts a version.

### Top Table

**`TopTable`** is the league scoreboard, statement by statement: FastAPI runs the
handlers in threads, so the check of `create_team` or `create_match` and its
insert are two steps (`CheckTeam`, `InsertTeam`, `CheckMatch`, `InsertMatch`),
`GET /api/standings` reads the teams and the matches at two moments, and only the
unique constraints of `models.py` (`Clashes`) stand between two inserts. Rows are
never changed or deleted, so what a SELECT returned is a number of rows.
`compute_standings` is a fold of `Play` over the matches, sorted by `Key`: `Sorted`
gives each row the place that is told by how many rows come `Before` it, which is
what the stable `sorted()` returns and what a proof can count. The property
`StandingsAddUp` counts the same table from the set of matches. A page
(`Open`, `AddTeam`, `AddMatch`, `Receive`, `Lose`, `Show`) sends its posts and its
refreshes without waiting for those under way, and shows whatever arrives, in the
order of arrival. `Seed` is what the database holds when the server starts. The
round of a match is always 1, which is what the page sends (the default of the
schema).

### Freshness tracker

**`FreshnessTracker`** is one reader of the dashboard beside people who log
refreshes and an administrator. `dashboard()` is taken apart into its queries:
`Open`, then for each dataset `LastRefresh`, `LastSuccess` and `Compare` (the clock
is read last), then `Render`. `order_by("-refreshed_at").first()` is any of the
newest (`First`). An attempt gets its time when its row is made (`Stamp`) and is
inserted later, when SQLite lets it (`MarkRefreshed`), or not (`Locked`); the admin and
`seed_demo` record an attempt with any time, correct, delete, deactivate, and change
cadence and grace (`Record`, `Correct`, `Delete`, `Activate`, `Remove`, `Reschedule`).
The page goes by the schedules it has loaded (`page.due`).

`MC…` modules only extend a module and define symmetry sets and constant
functions for TLC.

## 3. Runs

Bounds are constants, and every cap on a counter is in a guard.

| Run | Module, configuration | Result |
|---|---|---|
| `store` | `MCAgentRelay`, `MCAgentRelay.cfg` | holds |
| `store_leases` | `MCAgentRelay`, `MCAgentRelayLease.cfg` | holds |
| `pg_claims` | `MCRelayPg`, `MCRelayPg.cfg` | holds |
| `pg_ends` | `MCRelayPg`, `MCRelayPgEnds.cfg` | holds |
| `create_race` | `MCRelayCreate`, `MCRelayCreate.cfg` | holds |
| `workers` | `MCRelayWorkers`, `MCRelayWorkers.cfg` | holds |
| `storm` | `MCResponder`, `MCResponder.cfg` | holds |
| `remediation` | `MCRemediation`, `MCRemediation.cfg` | holds |
| `scoreboard` | `MCTopTable`, `MCTopTable.cfg` | holds |
| `verification` | `MCRecovery`, `MCRecovery.cfg` | holds |
| `freshness` | `MCFreshness`, `MCFreshness.cfg` | holds |
| `queue_full` | `MCResponder`, `MCResponderFull.cfg` | counterexample |

**`store`.** Two agents, two tasks, two values, up to three attempts, leases of
one tick. Two tasks are needed for a claim to recover one and grant another;
three attempts for a middle one; two values for a second submission that differs.
`AttemptHistory`, `RowsAgree` and `ResultMatchesAttempt` relate the two tables
that different statements write; `TerminalIsFinal` and `ImplementsLifecycle` are
about steps.

**`store_leases`.** Leases of two ticks (so that a heartbeat can make a
difference), one idempotency key, two inputs. `LeaseNeverRevived`: no heartbeat
or submission brings back what has run out, before or after recovery noticed.
`GrantIsFair`: the oldest task first, those just recovered included, and never
beyond the running limit. `RetriedCreateFindsTask`: a retried create is answered
"existing" with its task at any stage of that task's life and stores nothing, one with
another body is refused, and a new key is served. `AbandonedIsRecovered`: the loop
alone gets every abandoned claim back.

**`pg_claims`.** Three sessions, one task, two attempts, leases of two ticks (so
that a heartbeat moves a lease beyond what a scan has seen), clocks one tick off
in either direction. `PgTypeOK` says, besides types, that the committed rows of
the task and its attempts agree and that at most one claim is open; `OneAnswer`
that of all the workers that held a task one is told "accepted", `OnlyExpiredIsTaken`
that a heartbeat that committed is not overlooked by a scan made before it, `PgImplementsLifecycle` the refinement of `TaskLifecycle`.

**`pg_ends`.** Two sessions and two tasks, so that one transaction holds two
locks while the other waits: `EveryTransactionEnds`.

**`create_race`.** Three requests are the smallest race in which the first
inserts and dies, the second wins and the third loses. That the loser finds the
winner's row, and none is answered with an error, is part of `CreateTypeOK` (the
answers a request may get). Two bodies give conflicts,
two readings of the clock equal and different `created_at`, pages of one row the
most page ends.

**`workers`.** Two workers, one task, three attempts, two tries of each
submission: a stale worker, its successor, and a late request of either.
`CountedIsStored`, `OneEffectiveHolder`, and, if one worker lives on,
`EveryTaskSettles`.

**`storm`.** One alert, two incidents, a budget of one run per hour of two ticks,
a restart, a close and a resolution at any time. `StormRunsOnce`: repeated alerts
start one run. `BudgetHolds` and `FinishedIsRecorded` hold for incidents whose
file lost no update (section 6 says what a lost update does).
`QueuedIsHandled`: what the queue took after the last restart is got through
with, although another thread may empty the file under the worker's hands.

**`remediation`.** Two incidents one after the other (the second meets what the
first left behind) and one commit of the operator; all levels, with the two
labels that lower them. `AllRuns` has a good patch and one for each way not to be
one, each a boundary of the policy crossed by one: confidence 69, 81 lines, five
files, no test, only a test, a path outside, a suite that fails with the fix or
passes without it, an extension too many, a new file, a file that is not text.
`OnlyGatedFixesRun` speaks of the branch, both local images, all rollback images
and the container, and of what the suite is run on; `ResolvedRunsItsFix` of the
container at the moment of "deployed and verified". `RolledBackLeavesBranch` is about
rollbacks that exited with 0: the fix is on no branch but its own, and still on that.
`NoWorktreeLeft`: a worktree stays only if git failed to remove it, or the process or
the worker's thread ended first. Section 6 says what the rest comes to.

**`verification`.** A month of three days, of which two are too late for an
express order; three orders, so that one can be added that fails like the first;
two failures per process and two log lines, but one replay, so that more can have
failed than is replayed; three processes: before the fix, the fix, and one more, the
operator's or the one of the rollback. `Settle` is longer than `Delay`, as the
comment in `autonomy-policy.yaml` requires, and each is as small as that allows.
`FailuresAreNoticed`: what fails on the alert's route after the first read and more
than `Delay` before the second prevents "recovered", although the counter is seen late
and others use the app, unless a process starts or a series expires in between. What
fails later than that the code misses (section 6). `EvidenceIsServed`: what is said to
work serves the `MaxPaths` orders that failed last according to the logs; of older
failures in the evidence nothing is promised. It excuses an operator who puts another
version in place during the verification, and nothing else. The incident is followed to its end, so that the run stops
there (deadlock off). The attempts per path get one answer each; an alert without
a route, the window of 15 minutes and the limit of 300 s are left out (the last is
in `Remediation`: `Raise`).

**`freshness`.** One dataset, three attempts and three moments, due at once or after
one: enough for an overdue success, after which a second success is made, then a
failure, and the failure is inserted first, all between two queries. `FreshIsHonest` and
`BreakageIsShown` relate what the page shows to what was true between its queries.
`FreshIsHonest` excuses edits of the log and exactly that order of insertion.
`MCFreshnessTwo.cfg` checks both, and `FTypeOK`, with two datasets and two attempts (the
second dataset is looked at while the first has its row already), in about three
minutes; the proofs are for any number.

**`scoreboard`.** Two calls under way at a time, each a post or a refresh, are the
smallest race of two inserts and the smallest overlap of two refreshes. Three
names, two of which differ in case only, reach the last component of the sort key;
two of them are in the database at the start, so that a third can be created while
a table is read. Four results: a win, a draw in which both teams score, a match of
the third team, which may not exist yet, and one that is refused. `TTypeOK` includes
that no name and no pairing is stored twice; `StandingsAddUp` that every answer is
the table of what was read, in the order specs.md gives, though a match of a team
created in between is read without that team; `OwnResultsShown` that list, names
and table on the page, three answers of three moments, all contain what the page
knew to be recorded when it asked.

**`queue_full`** refutes what the answers of `server.py` promise: 429 is answered
*after* the incident was written as open. The retry attaches to it and is answered
202, and nobody handles it. Section 6 lists the other sentences TLC refutes.

## 4. Fairness

* `AgentRelay.FairSpec`: weak fairness of `RecoverPass` and `Tick`. The loop runs
  in every replica and catches what a pass raises; time passes. No client is
  assumed to do anything.
* `RelayPg.PgFairSpec`: weak fairness of every step of a transaction that has
  begun, and strong fairness of the row lock (PostgreSQL queues waiters). No
  request is assumed to come, no session to live.
* `RelayCreate.CreateFairSpec`: weak fairness of the steps of a request.
* `RelayWorkers.WFairSpec`: loop and clock as above; a worker's own steps; the
  server answers (`ServeSubmit`), and answers a claim when it is asked again and
  again (`ServeClaim`, strong, because an overloaded server may say 429 in
  between). Heartbeats, connections and lives of workers are promised nothing,
  which is why `EveryTaskSettles` assumes a worker that lives on.
* `Responder.RFairSpec`: both threads go on; agents, tests and runbooks have
  timeouts.

Symmetry is used only in runs without liveness properties. Deadlock is checked
in the Agent Relay runs with a clock that can go on; `create_race` and the
responder runs switch it off because all requests are answered, or all incidents
handled, in the end. `remediation`, `verification`, `freshness` and `scoreboard` check
safety only and assume no fairness.

## 5. Proofs

Eight modules hold proofs, each about the module it is named after (`AgentRelayProofs`
about `RelayWorkers`, too); assumptions are those of the `ASSUME`s, which TLC evaluates
in the runs. Every safety invariant and every action property of the passing runs, and
both refinements, are theorems.

`AgentRelayProofs` holds theorems about `AgentRelay` for every set of agents,
inputs, values and keys, every number of tasks, every limit and every length of
a lease. The assumptions are the two of the module: bounds are positive numbers,
and `None` is no agent, input, value, key or `Exhausted`.

* `TypeCorrect`: `TypeOK` is inductive. Its lemmas type the operators a handler
  is built from (`AfterRecoveryType`, `GrantedType`, …).
* `InvCorrect`: the inductive invariant `IInv`. None of the three properties is
  inductive on its own: that a grant leaves no gap in the attempts
  (`AttemptHistory`) needs that a queued task has no open attempt (`RowsAgree`),
  that the result of a failed task is the one its last attempt reported
  (`ResultMatchesAttempt`) needs that a settled task is not settled again, which
  needs both. `IInv` is `TypeOK` and, for each task, `GoodRow`: a predicate of
  *one* task row and *its* attempt rows that bundles the three. So preservation
  is a matter of one row at a time: `StepByRows` says that a step changes every
  row in one of a few ways (born, recovered, discarded, granted, settled, only
  leases changed), and one lemma for each way says that it keeps `GoodRow`.
* `HistoryHolds`, `RowsAgreeHolds`, `ResultHolds` follow from `IInv`.
* `FinalHolds` and `NeverRevivedHolds` are action properties: every way a row can
  change leaves a settled task, and an expired claim, alone.
* `GrantIsFairHolds`: what a claim returns is decided by the rows that the recovery
  inside it leaves, and only a claim grants (`GrantedByClaim`).
* `RetriedCreateHolds`: a create with a key that its sender has used is answered with
  the one task of that key. This needs `KeysApart` (a sender uses a key for one task),
  and that no step touches who sent a task, to whom and under which key
  (`SameRequest`).
* `Implements`: `Spec => ImplementsLifecycle`. `PromiseRow` maps each way a row
  can change to a step of `TaskLifecycle` or to a stutter of that task.

`RelayPgProofs` holds theorems about `RelayPg` for any number of sessions, tasks
and attempts, any lease and any skew of the clocks, from the one assumption of the
module (bounds are positive or natural, `None` is no value, `Free` no session).

* `PgInvariant`: the inductive invariant `PgInv`. What is committed (`PgTypeOK`,
  `OneAnswer`) is only kept because of what is not: a row is replaced by its draft in
  one step, so the draft of every locked row must be something the row may become.
  `Written(r, d, c)` says what that is (recovered, recovered or queued and then taken
  by a claim, extended, answered), and `Holding` how much of it holds where its
  session stands: a scan or a pick holds rows that it may have recovered and no more,
  a call that checks or rolls back holds them unchanged. `Fits` says what is known of
  a connection by itself (it read its clock at most `Skew` ahead of now), `Owners` that
  a call which is about to commit an answer still has the lock of its task and has it
  in the draft, `Kept` that what was told is in the rows. `WrittenKeeps` is about one
  row and its draft; it says that a good row becomes a good one, moves as a task may,
  loses no claim whose lease may still run, and does not change once settled. The
  step lemmas then use four more: a session goes on alone (`WorksAlone`), goes on with
  a row locked (`WorksOnRow`), or ends (`Releases`), and every draft is written
  (`DraftWritten`).
* `PgTyped` and `OneAnswerHolds` follow. `OnlyExpiredHolds` is an action property: the
  row that changes is replaced by its draft (`RowSteps`), which takes only what has
  expired.
* `PgImplements`: `PgSpec => PgImplementsLifecycle`. With `Implements`, both builds of
  the store keep the one promise of `TaskLifecycle`, for every number of replicas.

`RelayCreateProofs` holds theorems about `RelayCreate` for any number of requests,
keys, bodies and ids and any size of a page. It assumes that ids are positive and
that `None` is no key.

* `CreateInvariant`: the inductive invariant `CInv`. The keys of the committed rows
  differ only because a row that is inserted has its key to itself (`Stands`,
  `Apart`); one retry is enough because whoever retries will find the row that made
  it fail, and rows are not deleted. `CreateTyped` and `SameKeyHolds` follow.
* `WalkHolds`: a walk over the pages is complete. `WInv` says that what was seen is
  behind the cursor and what is owed is seen or ahead of it, and `PageHasLast` that a
  page which is not the last has a last row, with all it leaves out after that row:
  rows are ranked by how many come before them (`RankOrder`), and sets of numbers have
  a smallest element (`LeastNat`).

`RemediationProofs` holds theorems about `Remediation` for any number of incidents
and of commits by the operator, and for any set of answers of the agent. It assumes
that there is at least one incident and that the set of files of an answer is finite.

* `RemediationInv`: the inductive invariant `IInv`. `StepForms` sorts the steps into a
  few forms (the responder thinks, delivers a fix, advances in the deployment, stops;
  an incident begins or is skipped; the operator acts), and each of the eight parts
  is kept by each form. `OnlyGatedFixesRun` alone is not inductive: what is merged
  comes from a branch, a rollback brings back an image, and a reset a line of commits
  that were recorded earlier, so `OnlyGated` speaks of all of them; that the fix which
  is about to be committed passed the gate needs `Checked`, the facts that the
  pipeline has gathered at each stage; and that an incident which is begun cannot
  already be somewhere needs `InOrder` (incidents are handled one at a time, in order,
  and what is not begun has no branch and no fix). `RolledBackLeavesBranch` needs
  `Forgotten`: the base that a rollback goes back to was recorded before the fix of
  the incident existed, and no earlier incident has it on its branch. `NoWorktreeLeft`
  needs `CleanedUp`: before a deployment, git was told to remove the worktree. `ResolvedRunsItsFix` needs `OnItsWay`: the fix is on the branch
  when the image is built and in the image when the container is started.
* `RemediationTyped`, `OnlyGatedFixesHold`, `RolledBackHolds`, `CleanedUpHolds` and
  `ResolvedHolds` follow, the last as an action property.

The second half of `AgentRelayProofs` holds theorems about `RelayWorkers` for any number
of workers and of tries: every step of the store is one of `AgentRelay`, so its
invariant `IInv` is kept by the lemmas of the first half. It assumes that a worker computes a value from an input and that there is an agent (the identity of the
workers).

* `WInvCorrect`: the inductive invariant `WInv`. What a worker counts is stored
  (`CountedIsStored`) only because its token was: `GoodState` says which token a
  worker has at each point of its loop (one that the store issued for this task) and
  that an answer "accepted" on its way back is stored, `GoodRequest` the first of a
  request whose sender gave up, and `GoodCount` that a counted attempt is stored. A
  task is counted once (`CountedOnce`), because no two workers hold one token
  (`OwnToken`) and a token that was counted is held by nobody (`SpentToken`).
  `RowsGrow` says what the store never takes back.
* `CountedIsStoredHolds` and `OneHolderHolds` follow.

`ResponderProofs` holds theorems about `Responder` for any number of incidents, any
alerts, bounds of the queue and of the budget, restarts, and any length of the hour
and of the attach window.

* `RInvCorrect`: the inductive invariant `RInv`. The threads rewrite the same file
  without a lock, so that everything said of a file has to be said of an update that
  is under way too (`Updates`, `Files`). An incident is in one place (`Places`: it is
  being opened, it waits once in the queue, the worker has it, or it is done with),
  which is why it runs once; what is early and was not closed is undecided in its file
  (`NotDecided`), and of two near incidents of one alert the older one is decided,
  with no update under way that brings it back (`Superseded`); what is finished has
  its end in its file, unless an update of it was lost (`Recorded`), and every run has
  its start there (`Counted`). `WithinBudget` is about the moment of the decision: the
  runs of the last hour are mapped one to one into those that the files count
  (`AllCounted`), and the worker has compared that number with the budget. `StepForm`
  sorts the steps into eleven forms, and each part is kept by each form.
* `RTypeHolds`, `StormRunsOnceHolds`, `BudgetHoldsAlways` and
  `FinishedIsRecordedHolds` follow.

`TopTableProofs` holds theorems about `TopTable` for any finite set of names, any
results, pages and calls, and any different names in the database at the start.

* `TInvCorrect`: the inductive invariant `TInv`. Only the tables and the unique
  constraints keep a name or a pairing from being stored twice, so `Tables` is about
  them alone; a call between its check and its insert is promised nothing. `GoodCall`
  says what an answer under way has read: a beginning of each table, in which every
  match that the page knew of when it asked has its two teams. Tables only grow, so
  all this lasts (`CallLasts`, `PageLasts`), and `Goes` is the pattern of all steps:
  one call goes on, one page may change.
* `TTypeHolds` follows.
* `StandingsAddUpHolds` compares a loop and a sort with a count, in four steps. (1) The
  loop is a fold (`FoldExists`), and what it leaves is what a number of `Rounds` leave,
  followed one by one (`LoopRuns`). (2) One round credits the rows of both teams and no
  other (`CreditAdds`, `PlayRow`). (3) After each round, a row is `Tallied`: it is the
  count of its team's games up to there (`TallyGame`, `RoundsTally`); goals are sums
  over sets, which change by one element at a time (`SumOfSet`). A match of a team that
  was created between the two SELECTs is no game of that table, on either side. (4)
  `Before` is a strict total order on rows of different teams (`KeyOrder`,
  `BeforeOrders`), so that the numbers of rows before each of n rows are 0 to n - 1,
  each once (`SortedPlaces`): the sort loses no row, doubles none, and is in order
  (`StandingsGood`). `TInv` adds what no single request knows: no match is of a team
  against itself, and both of its teams are stored before it is.
* `OwnResultsShownHolds` needs `OwnInv` beside `TInv`: the table *on a page* counts the
  games of what that page knew, whose matches do not change under it (`ShowsLasts`). A
  table gets on a page in one way, with an answer that read those matches and the teams
  they are between (`AnswerShowsOwn`); an older answer that arrives last brings its own,
  smaller, promise with it.

`RecoveryProofs` holds theorems about `Recovery` for any length of a month, any number
of orders, processes, failures and log lines, any delay of the export, and any pause
of the verification that is longer.

* `RecInvCorrect`: the inductive invariant `RecInv`. `FailuresAreNoticed` compares two
  sums over the series of all processes, read at two moments, neither of which is when
  the failure happens. `Visible` says where a failure is in between: in the sum that
  would be read now (`Total`), or in the one that would be read after the next export
  (`Owed`), and then that export comes before the pause is over: the time since the last
  one and what is left of the pause are more than the delay. A failure counts until no
  more than the delay is left (`Early`). `Covered` says that every order of the evidence
  (the `MaxPaths` that failed last) is still to be replayed, or was served; `App`, `Stored` and `Replays` that the counters, samples
  and requests fit each other.
* The sum is a fold over a finite set (`MapThenSumSet`). That it is defined by one
  element at a time, is bounded by its parts and changes by what one part changes
  (`SumStep`, `SumBounds`, `SumUpdate`) is proved without an induction rule: a set for
  which a statement about its subsets fails has a smallest such subset (`AllSubsets`,
  from `LeastNat`).
* `RecTypeHolds`, `FailuresAreNoticedHolds` and `EvidenceIsServedHolds` follow.

`FreshnessTrackerProofs` holds theorems about `FreshnessTracker` for any number of
datasets, any length of the log, any set of schedules and any time.

* `FInvCorrect`: the inductive invariant `FInv`. `Tables` and `Request` type the log and
  the loop of `dashboard()`, which computes the rows in order, one at a time. `Honest`
  is about a row between its queries: as long as its dataset was seen at no moment to be
  fresh, its log was not edited and no success in it was overtaken, there are successes,
  all of them overdue by the loaded schedule; when the clock is read, the same holds of
  the success that was found. An attempt inserted in between cannot break this: if it
  is a success that is not overdue, no later success can be in the log, and then either
  a later failure is, which has overtaken it, or the dataset is fresh at that moment.
  `Shown` is about
  datasets that were broken ever since the page was opened: they still are, and their
  row, if it was computed, says so (`LatestFailed`: the failure is later than every other
  attempt, so `first()` can return nothing else).
* `FTypeHolds`, and the action properties `FreshIsHonestHolds` and
  `BreakageIsShownHolds` follow.

The library's induction rules cannot be used by the provers, because they are about an
arbitrary predicate. Where a fold, a sum or a count needs one, the proofs are by
smallest counterexample: the numbers, or the subsets of a finite set, for which a
statement fails are a set, and that has a least element (`LeastNat`, `AllUpTo`,
`AllSubsets`).

Only model-checked:

* Liveness: `AbandonedIsRecovered`, `EveryTransactionEnds`, `EveryRequestIsAnswered`,
  `EveryTaskSettles` and `QueuedIsHandled`. Fairness and `ENABLED` are beyond the
  prover.
* The sentences of section 6 (and of the run `queue_full`), which TLC refutes.

## 6. Further counterexamples

The modules state more sentences of the repository that TLC refutes; each has a
configuration (`tlc -config X.cfg M`); of a configuration that lists several, all but
one are commented out, because TLC stops at the first.

* `MCRelayWorkersPoll.cfg` (`PollingOutlivesDisconnect`) and
  `MCRelayWorkersBeat.cfg` (`HeartbeatOutlivesBusy`), with `MCRelayWorkers`:
  SPEC.md lets clients back off on connection failures, 429 and 5xx. A failed
  connection during the long poll ends `worker.py`, and one 429 or 5xx ends the
  heartbeats of a claim.
* `MCResponderRestart.cfg` (`PromisedIsHandled`): the queue is in memory only; an
  incident that waits when the process restarts stays open, takes alerts in and
  is handled by nobody.
* `MCResponderDies.cfg` (`WorkerSurvives`): the error handler reads an empty
  `status.json`, and its exception ends the one worker thread.
* `MCResponderTorn.cfg` (`IntakeRecovers`): a crash between truncating and
  writing a file leaves it empty, and every webhook fails from then on.
* `MCResponderClose.cfg` (`ClosedStaysClosed`): a closed incident that waits in the
  queue is handled nevertheless; the first update of the worker takes it out of
  the state "closed", and an agent runs for it.
* `MCRemediationOperator.cfg` (`RollbackTargetIsRunning`): `deploy-fix.sh` tags
  `order-tracker:local` as "the currently running image". After a failed restart or
  a rollback, another image runs, and the next rollback would put in service what
  had just been taken out of it.
* `MCRemediationPromises.cfg` (`ResolvedHasFix`): the exit code of `git commit` is not
  looked at. An empty branch is "already up to date" for the merge, the old code is
  built again, and a verification that passes says "fixed_and_verified". Likewise
  `git apply --index`, of a patch with a file that is not text: the commit holds the
  tests only.
* `MCRemediationPromises.cfg` (`SuiteRunsWithoutFix`): `git checkout HEAD --` of
  several files restores none of them when one is new. The suite then runs with the
  fix in place, passes, and a good fix is rejected.
* `MCRemediationOperator.cfg` (`CommitsStayReachable`): `git reset --keep` in a
  rollback drops what the operator committed after the merge.
* `MCRemediationPromises.cfg` (`RolledBackIsUndone`): the exit code of `rollback.sh`
  is written down and not looked at. When docker fails, or `git reset --keep` is refused
  because of an edited file, the outcome is "rolled_back" all the same, and the fix stays
  on the branch.
* `MCRemediationPromises.cfg` (`WorktreeIsGone`): nor is that of `git worktree remove
  --force` ("leave no half-edited worktree behind"): what it fails to remove stays.
* `MCRemediationOperator.cfg` (`VerifiedOrRolledBack`): `verify-recovery.sh` has no
  time limits of its own; an app that hangs makes `run()` raise `TimeoutExpired`,
  and the rollback is skipped.
* `MCRemediationOperator.cfg` (`VersionTellsCode`): the tree is looked at before
  the merge and built after it; an edit in between is in an image stamped with
  the fix's commit.
* `MCRecoveryExit.cfg` (`ExitZeroMeansRecovered`): "Exit 0 = recovered" is said
  without one replayed request when Loki did not answer and Tempo's search had
  nothing yet, or when the alert is about `/api/orders`, whose failing POST is not
  replayed: only `/healthz` is asked then.
* `MCRecoveryLate.cfg` (`LateFailuresAreNoticed`): "after the metric export interval,
  the 5xx counter of the route must not have grown": a failure in the last seconds before
  the second read has not been exported when the counter is read, and is missed.
* `MCRecoveryGrowth.cfg` (`GrowthIsNoticed`): the sum over the series goes down when
  that of an older process expires between the two reads, and hides as many new
  failures.
* `MCFreshnessPromises.cfg` (`FreshIsAlwaysHonest`): when the last success is deleted
  or dated back after `last_refresh()` found it, `due_at()` goes by another one or by
  none, and a dataset is shown fresh that was not at any moment.
* `MCFreshnessPromises.cfg` (`FreshDespiteWaiting`): the same without any edit, when two
  attempts wait for the database and the later one, a failure, is inserted first: the
  success behind it is never the latest attempt, but `due_at()` goes by it.
* `MCFreshnessPromises.cfg` (`FreshByTodaysSchedule`): the page does not go by a cadence
  that was shortened since it was loaded.
* `MCTopTablePage.cfg` (`PageCatchesUp`): `_docs/specs.md` promises "the standings always
  reflecting the recorded matches"; when two refreshes overlap and the older one
  arrives last, the page shows the older table until something else is entered.
* `MCTopTableRefused.cfg` (`DuplicateIsRefused`): two requests for one name can both
  pass the check; the constraint keeps the table right, but the loser is answered
  500 (an unhandled `IntegrityError`), not 409. A second result of the same pairing
  is answered 500 even without a race, because `create_match` has no such check and
  the page always sends round 1.

Where an update of `status.json` is lost, a webhook's write of an older reading
can wipe out `agent_started_ts` (one run beyond the budget) or the final state of
an incident; that is the exception `BudgetHolds` and `FinishedIsRecorded` make.

## 7. Not modelled

* Authentication, validation of bodies, error formats and rate limits of the
  relay: they change no state. Names, inputs, outputs and tokens are model
  values; SHA-256 and uuid4 are injective.
* Back-off times of workers and the 20 s heartbeat period: heartbeats may come
  at any time or never.
* The contents of diffs, prompts, evidence, reports and audit logs, and their
  redaction: a diff is what `PolicyGate` asks of it, a path is the area it is in.
* `agents.py`: subprocess and HTTP calls that end in an answer, which is any of
  `Run`. Reports are rendered from what the models keep.
* Metrics and deployment facts among the evidence: only the prompt uses them.
* Dashboards, containers, Kubernetes, CI, and of the observability configuration
  what is not a delay, an expiry or an alert on a route.
* Validation of bodies and rendering in Top Table; schedules (rounds beyond 1).
* The history page and `hours_since_success` of the freshness tracker show rows.

## 8. Plan

Everything that keeps state is modelled and checked: `TaskLifecycle`,
`AgentRelay`, `RelayPg`, `RelayCreate`, `RelayWorkers`; `Responder`, `PolicyGate`,
`Remediation`, `OrderTracker`, `Recovery`; `TopTable`; `FreshnessTracker`.
Every safety property of the runs that hold is proved for all values of the constants;
the five liveness properties are left to TLC, on the bounds of section 3. A change of
the code goes into the module of its component first, then through the runs, and then
to the one step lemma of the proofs that speaks of the action it changed.
