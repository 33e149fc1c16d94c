# Lime, specified

TLA+ models of Lime, the Rust backend framework of this repository: its task
queue, rate limiter, request pipeline, metrics, configuration watcher,
migrations, account endpoints and database models. TLC checks the models on small instances;
TLAPS proves the most important properties for every value of the constants.
All of it is translated from the code (`src/src/*.rs`), which this page quotes
as `file:line`.

Contents: [the system](#the-system) · [the modules](#the-modules) ·
[module by module](#module-by-module) · [the runs](#the-runs) ·
[fairness and deadlock](#fairness-and-deadlock) · [the proofs](#the-proofs) ·
[findings](#findings) · [what is not modelled](#what-is-not-modelled) ·
[plan](#plan) · [how to run](#how-to-run)

## The system

A Lime service is one process: hyper accepts connections, every request is a
tokio task on a multi-threaded runtime, and an application may spawn background
loops. State that outlives a request lives in a few places.

| Component | State it keeps | Operations | What is hard |
|---|---|---|---|
| Task queue (`tasks.rs`, feature `redis`) | three Redis keys (list, sorted set, dead letter list), shared by all processes; one connection behind a `tokio::sync::Mutex` per process; jobs in local variables | `enqueue`, `schedule`, `worker_loop`, `start_delayed_task_processor`, `get_queue_stats` | several commands per operation with an `.await` between them, a blocking BRPOP under the mutex, commands that fail or lose their reply, crashes |
| Immediate runner (`tasks.rs`, no connection) | nothing but the caller's future | `enqueue`, `schedule` | the caller's `Result` is the only record; its future may be dropped |
| Rate limiter (`server.rs:449-544`) | per client key the instants of admitted requests, behind a `parking_lot::RwLock` | `check_and_record` | boundaries of a sliding window that is pruned lazily |
| Request pipeline (`server.rs:19-342`, `auth.rs:208-262`) | per request: the middleware it is at, its extensions; shared: limiter and clock | route matching, the middlewares, the handler, `RequireAuth` | order of middlewares, early answers, tokens that expire on the way |
| Metrics (`api.rs:301-381`) | four relaxed atomics, one list of instants behind a mutex | `record_request`, `get_metrics`, `reset` | no operation is atomic, relaxed operations have no order |
| Config watcher (`config.rs:140-215`) | the config behind one `RwLock`, the senders behind another, a `watch` channel per receiver | `watch`, `update`, `start_hot_reload` | the two locks are taken one after the other |
| Migrations (`database.rs:105-215`) | the table `_lime_migrations` and whatever the migrations do | `run`, `rollback_last`, `list_applied` | several processes at once, transactions, lost commit replies |
| Config loading (`config.rs:97-115`) | two files, the environment | `from_file` | the files are read one after the other |
| Accounts (`auth.rs:79-206`, `265-525`) | the table `users`, the tokens people hold | register, login, change password, own profile, deactivate | a query to look and a query to act; tokens that outlive what they say |
| Database models and pages (`lib.rs:210-365`, `api.rs:552-589`) | a table per model; structs that clients hold | `new`, `create`, `find_by_id`, `update`, `delete`, `paginate`, `Pagination::new` | structs that are written back late, pages of a table that changes, u32 arithmetic |
| Pool, query builder, `Request`/`Response`, `Lime`, `main` | handles and plain data | one conversion each | nothing outlives a call |

How they interact: handlers get clones of the pool, the `AuthContext` and the
`TaskRunner` from `Server` (`server.rs:299-330`), and reach the database, the
queue and the metrics through them. The limiter is called from the pipeline.
Workers, the delayed task processor and the config watcher run only if the
application starts them: nothing in `Lime::run` does. Nothing in the repository
wraps a handler in `with_metrics` either.

What makes each correct, in one line:

- *Queue*: one submission is delivered once, retried a bounded number of times,
  no earlier than its backoff, and not lost unless something failed.
- *Immediate runner*: without the feature, `Ok` means that the task ran and
  succeeded or that no handler takes it; with the feature and no server it may
  also mean that the task was dropped.
- *Limiter*: no window has more than the limit, nobody is refused below it,
  and `Retry-After` is long enough.
- *Pipeline*: a quota is spent exactly by what passes the limiter, and protected
  code runs for good tokens only.
- *Metrics*: every number of a snapshot is explained by some order of the calls.
- *Watcher*: in the end everybody holds what the config files hold, never a broken one.
- *Migrations*: effects and rows agree, in list order, and a race has a winner.
- *Accounts*: one account per email; tokens tell the truth about accounts; an
  answer about a password or a token was true at some moment of the request.
- *Models*: rows are whole, no update brings a deleted row back, the pages hold
  the rows that were counted, and a walk through them misses or repeats only what
  changes of the table account for.

`PROJECT.json` lists the hazards of this code line by line, with the properties
that cover each or the reason why none does.

## The modules

```
TaskLedger        what the queue promises       (abstract)
  ^ refined by
TaskQueue         tasks.rs over Redis           TaskQueueProofs    MCTaskQueue
ImmediateRunner   tasks.rs without a connection                    MCImmediateRunner
RateLimit         the limiter                   RateLimitProofs    MCRateLimit
  ^ INSTANCE
Pipeline          router, middlewares, RBAC     PipelineProofs     MCPipeline
Metrics           MetricsCollector              MetricsProofs      MCMetrics
ConfigWatcher     ConfigWatcher                 ConfigWatcherProofs  MCConfigWatcher
Migrations        MigrationRunner               MigrationsProofs   MCMigrations
Accounts          users table and endpoints     AccountsProofs     MCAccounts
DbModel           db_model! and its pages       DbModelProofs      MCDbModel
```

The component modules take all sizes and bounds as CONSTANTS with named
assumptions. The `MC` modules only declare model values and give definitions to
the constants a `.cfg` cannot write. Operators named "Seeded fault" are wrong
variants of a definition, the way a plausible bug would have it; nothing uses
them, each documents a property by what would break it.

One rule fixes the grain of every model: an action ends where the code lets
somebody else run in between, which is at an `.await`, at the release of a lock
and at every statement sent to Redis or PostgreSQL, and nowhere else.

## Module by module

### TaskQueue and TaskLedger

State: `pending`, `delayed`, `dead` are the keys `lime:tasks`,
`lime:tasks:delayed`, `lime:tasks:dead`; `lockq` is the queue of each process's
connection mutex (its head holds it; tokio's mutex is FIFO); `pc`, `hand`,
`toRemove`, `stamp`, `stats` are where each loop or call is and its local
variables; `conn` says whether the process's connection works. `submitted`,
`runs`, `done`, `merged`, `doubled` are history.

| Action | Code |
|---|---|
| `Enqueue`, `LPush` | `enqueue`: serialise, wait for the lock / LPUSH |
| `Schedule`, `ZAdd` | `schedule`: the score is computed before the lock is asked for / ZADD |
| `RequestPop`, `Pop`, `PopNothing` | `process_next_task`: the lock, then BRPOP with timeout 1 *under* the lock |
| `RunOk`, `RunFails`, `ZAdd`, `Bury` | `execute_task_json`, `handle_failed_task`, `move_to_dead_letter_queue` |
| `StartPoll`, `FetchDue`, `ZRem`, `RePush` | `process_delayed_tasks`: one guard over ZRANGEBYSCORE, all ZREMs, all LPUSHes |
| `StartStats`, `LLenPending`, `ZCard`, `LLenDead` | `get_queue_stats` |
| `Crash`, `Tick` | a process dies and is restarted with a new connection; seconds pass |

Every command is answered, or refused without effect, or applied with its reply
lost; after a broken connection all commands of the process fail, since
`redis_conn` is set once (`tasks.rs:32-67`), until the process restarts.

A job is a record of the task, `retry_count`, `retry_at` and the number of runs.
The last stands for the part of `retry_at` below a second: it makes the JSON of
two failures differ, which matters because equal texts are one member of the
sorted set. `execute_task_json` is one step, `RunOk` or `RunFails`: `Ok` ends a job
also when no handler was found for its type or payload (`tasks.rs:129-135`), so
`done` counts executions that ended `Ok` and not handlers that ran. Whether a
handler fails is nondeterministic for `Fallible` tasks. At this commit that is
more than the program can do: only the built-in types are dispatched, never a type
of the application's own, and their handlers return `Ok` (`EmailTask::execute` has
its `mailer.send(&email)?` in a comment). The retry, backoff and dead letter code
is there, and `RunFails` is what makes it run.

`TaskLedger` knows no Redis: a task waits, runs, waits again after a failure,
and is done or buried after `MaxRetries + 1` runs; it may vanish only once
something went wrong. `ImplementsLedger` is the refinement, with the phase of a
task read off the lists and the actors' hands.

Two processes that both run the delayed task processor read the same due
members, and since ZREM's count is not looked at (`tasks.rs:320-322`) both push
them. `doubled` counts these: the ZREMs that were answered 0. What may be
delivered, `Issued`, is what was submitted plus what was doubled, and
`NoDuplication`, `Conserved` and `AttemptsBounded` hold for any number of pollers
in these terms. That this is the only way a job multiplies is `NoDuplication`;
that it does not happen while all pollers belong to one process is
`NothingDoubled`.

### ImmediateRunner

One call per caller, in both builds (`feature`). `schedule` sleeps and runs in
the build without `redis`, and drops the task in the build with it when no
server was found. A future may be dropped wherever it sleeps or runs. There is
no retry in this mode, although `src/README.md:148-149` lists in-memory
queues and retries together.

A task is what `execute_task_json` makes of it: one that does not serialise is
answered `Err` before anything runs (after the sleep of `schedule`); one without a
`type`, of a type the `match` does not have, or with a payload that `from_value`
refuses, is answered `Ok` and nothing runs; a handler runs for the others and may
fail (`Serializable`, `Handled`, `Fallible`; `Execute` is the dispatch, `Run` the
handler). `Enqueue` and `Wake` end in the dispatch, `ScheduleDrops` answers `Ok` for any
task. So "`Ok` means the task ran" (`OkMeansDone`) is false in both builds, in the
build without `redis` only because of tasks that nobody handles:
`InMemoryResultTells` is what is true there. The finding is about tasks that all
have a handler.

### RateLimit and Pipeline

`RateLimit` keeps the log of all admitted instants as history and the vector
`requests` as the set of log positions still in it (`kept`). The clock is read
under the write guard, so one request is one action: `Admit` or `Deny`. Both
prune.

`Pipeline` runs requests of any kind in `Traffic` side by side: `Arrive` is the
route lookup (first match in the order of registration, 404 before any
middleware), then one action per middleware of the `chain`, the handler's call,
what `RequireAuth` does in front of it, the answer. `Rate` *is* the action of
`RateLimit` (`Limiter == INSTANCE RateLimit`). Middlewares that always continue
(logging, security headers, compression, timeout, optional authentication) are
`"pass"`. A token is signed with the right secret or not, with an `exp` and a
role; `Leeway` is the 60 seconds of jsonwebtoken's default validation.

The model shows two things no property claims: the claims that `AuthMiddleware`
decodes go nowhere, so `me_handler` behind it answers 401 to a good token
(`Respond`, `server.rs:436`); and `CorsMiddleware` never sees an OPTIONS
request, for which no route can be registered (`Arrive`, `server.rs:88`). Of
`request.large`, only what Content-Length says counts, as in the code.

### Metrics

`Relaxed` orders nothing between two counters, so a call keeps a set of the
counters it has still to touch and touches them in any order. The mutex of the
list, which every call takes last, is one step. The instant a request pushes is
read before the lock (`ReadClock`). `before` and `met` are history: which calls
had returned, or ran, when a snapshot or reset began.

### ConfigWatcher

`watch` is `Clone` under the config's lock and `Register` under the senders';
`update` is `Store` under the one and `LockSenders`, `Send`, ... under the other
(a read guard, so notifiers overlap, and exclude `Register`). The reload loop
loads the config on every tick and updates whatever it read. Loading is
`Config::from_file`: `ReadBase`, then `ReadEnvFile`, the optional file of
`LIME_ENV` that overrides the first; either may be saved (`Edit`) in between, so
a config may mix an old file with a new one. An `Err` of either keeps the old
config. A config is the pair of the numbers of the saves it was read from. The
environment variables of the process do not change and are left out.

### Migrations

`run` is `StartRun`/`CreateTable` (IF NOT EXISTS looks, then creates, and may
collide), then per migration `Check` (on a pooled connection), `Begin`,
`RunSql`, `InsertRow`, `Commit`. A transaction shows nothing before its commit.
An INSERT of a version that a rival has inserted and not committed waits, and
fails once the rival commits (UNIQUE). A migration in `Exclusive` is DDL that
cannot run twice and takes a lock. `applied_at` is CURRENT_TIMESTAMP, hence the
start of the transaction. `rollback_last` reads the newest row and deletes it by
version in a second statement. `Restart` ends a dead process's transaction at once;
PostgreSQL may notice somewhat later, and a COMMIT that it still had to answer is
`CommitReplyLost` or one that never arrived.

### Accounts

Each request is one handler, split at its queries: `Begin`, `Authenticate` (what
`RequireAuth` does before `change_password_handler` and `me_handler`), a `Find`
per SELECT, `Verify` in between, `Insert` or `UpdatePassword` at the end;
`QueryFails` and `NoPool` are their error paths. A hash stands for its password,
a token for its claims; `tokens` are all that were handed out, and `Expire` takes
one out of date at any time. `handles` is what the server was built with: without
a JWT secret `request.auth()` is `None`, which `register_handler` finds out
*after* its INSERT (`auth.rs:401`). `held` is history: whether the token was
fresh and whether what the request claims was right, at each moment since it
began. `users` keeps deactivated rows, which `find_by_email` does not see and the
UNIQUE constraint does. `Deactivate` is called by the application.

### DbModel

A model made by `db_model!`. `table` is the table, `copy` the struct each client
holds, `born` the `created_at` of every row there ever was (history). A client
makes a row: `New` and `Create` (the stamp is taken before the INSERT), which it may
call again and again with the struct it has, after an `Err` or not; where the row
is there already its primary key refuses it, and after a delete it is back.
Or a client makes one change: `FindById`, `StartUpdate` and `Update` (set a field, stamp, UPDATE
of every field by id), or `Delete`. A second change by it is one of another client
that reads the row it left. A statement may fail with or without effect.

`walk` is a client that reads the pages one by one until `total_pages`:
`ReadItems` (SELECT .. ORDER BY created_at DESC LIMIT OFFSET) and `ReadCount`
(SELECT COUNT(*), then `Pagination::new`), with the table changing in between.
ORDER BY leaves rows of equal `created_at` in any order, so `Shows` takes any
choice of rows that respects the key. The arithmetic is that of the code: the
product of the offset wraps at u32 before it is widened, and the number of pages
is a float division cast to u32, so that pages of no rows make 0 or u32::MAX of
them. Floats are exact here, which they are below 2^53 rows.

`total` is the count a page was answered with, `pages` what `Pagination::new` makes
of it; `PagesExact` relates them to each other and to the offsets: for pages of
at least one row there are neither too few pages nor too many, and no offset of a
page that exists wraps.

What the walk is promised (`WalkMisses`, `WalkRepeats`) is as much as OFFSET
paging can give: a row that stays is missed only if a newer one (or one of the
same instant) was deleted meanwhile, shown twice only if a newer one was
inserted, or either if it is tied with another row.

## The runs

A passing run fires every action of its module between itself and its siblings.
Bounds are chosen so that each hazard fits at least once; the state counts are
distinct states.

| Run | Instance | Checks | States |
|---|---|---|---|
| `queue_shared` | 2 processes, each with a poller, 1 client, 1 worker, 1 payload submitted twice, 1 retry, 1 fault or crash, 1 member doubled | `TypeOK`, `Conserved`, `NoDuplication`, `BackoffRespected` | 1 025 165 |
| `queue_live` | 1 process, client, worker, poller, monitor, 2 tasks, 1 retry, 1 fault, 1 crash; fair | `StatsAtomic`, `AttemptsBounded`, `NothingDoubled`, `EveryTaskSettles`, `LockGranted`, `ImplementsLedger` | 96 094 |
| `immediate_builds` | 2 callers, both builds, 4 kinds of tasks, 1 dropped future; fair | `InMemoryResultTells`, `EveryCallEnds` | 4 166 |
| `immediate_noserver` | the build with `redis`, no server, tasks that have a handler | `OkMeansDone`: violated | |
| `rate_limit` | 2 clients, 2 requests in 3 ticks, 7 instants | `WindowBound`, `DeniedOnlyWhenFull`, `RetryAfterHonest` | 359 191 |
| `pipeline` | 3 requests of 7 kinds, 2 clients, 4 routes, 3 orders of middlewares, limit 1 in 2 ticks | `QuotaExact`, `EndToEndLimit`, `OnlyByToken` | 1 240 791 |
| `metrics` | 2 requests, 1 snapshot, 1 reset, 3 counters | `SnapshotExplained`, `LastMinuteComplete` | 1 218 499 |
| `config_watcher` | 2 receivers, 1 manual update, 2 files saved twice in all; fair | `OnlyGoodConfigs`, `EventuallyCurrent` | 150 730 |
| `migrations_deploy` | 2 processes, 1 rollback, 2 migrations (one DDL), 1 fault, 1 restart; fair | `TypeOK`, `EffectsRecorded`, `ListIsPrefix`, `OkMeansApplied`, `SomebodyFinishes`, `EveryRunEnds` | 50 744 |
| `migrations_rollback` | 1 process, 1 rollback | `RolledBackIsUndone`: violated | |
| `accounts` | 3 requests, 1 existing account, 2 emails, 2 passwords, 3 configurations, 1 fault | `TypeOK`, `RegisteredOnce`, `ClaimsTrue`, `LoginTells`, `ChangeTells`, `MeTells` | 1 155 706 |
| `db_model` | 3 rows, 2 clients, pages of 0, 1, 2 rows, 3 instants, 1 fault, u32::MAX = 7 | `TypeOK`, `PagesExact`, `WalkMisses`, `WalkRepeats`, `RowWhole`, `DeleteFinal` | 465 409 |

Why the bounds are enough. *Queue*: the hazards are pairs of steps (a pop and a
crash, a ZREM and its lost reply, a second poller between a ZRANGEBYSCORE and a
ZREM, two ZADDs of one payload), so two pollers, two submissions and one fault or
crash at any point reach all of them; one retry tells a backoff that doubles from
one that starts at zero, and one attempt too many from one too few. In
`queue_shared` the second process has its own mutex, which is what the
single-process run cannot show; a member may be doubled again and again, which its
constraint `FewMishaps` stops after the first. The ledger, whose tasks are
submitted once each, and `NothingDoubled`, which speaks of one polling process,
are checked in `queue_live`. More workers, retries, faults and doubled members
are left to the proofs, which cover any number of them. *Limiter*: seven instants are two
windows and a boundary, and the proofs cover the rest. *Pipeline*: three requests
are enough for one that fills a quota, one that is refused and one that overtakes
them; the orders put the limiter last, first and nowhere. *Metrics*: the counters
do not depend on one another and `total` is touched like `sum_ms` with 1 for the
time, so three of the four are instantiated; two requests, one on either side of
a reset, and one tick for the minute, reach its boundary.
*Watcher*: the stale clone needs one receiver, notifying out of order two
notifiers, a torn load one save of each file. *Migrations*: a race needs two processes, the order of `applied_at`
two migrations. *Accounts*: two requests race, the third changes what they read.
*Immediate runner*: callers share nothing, two of
them are one more than its properties speak of.
*DbModel*: three rows are two pages of two and three pages of one; one client
may delete before the place the walk has reached while the other inserts, and
three instants have ties; the proofs cover every other size.

## Fairness and deadlock

- `TaskQueue!Fairness`: weak fairness of the steps of every client call that has
  begun, worker, poller, monitor and of the clock. tokio polls each task that is
  ready, its mutex is FIFO, BRPOP ends after a second, and the loops never exit.
  Nobody has to submit, no run has to succeed, and nothing has to fail.
  `EveryTaskSettles` speaks of behaviours without faults; `LockGranted` of all.
- `ImmediateRunner`: a future that is ready is polled; the clock moves while
  somebody sleeps.
- `ConfigWatcher`: the interval keeps ticking and a call of `update` goes on.
  Nobody has to call `watch` or save the file. `EventuallyCurrent` needs
  no fairness of `watch`: a receiver counts once it is registered.
- `Migrations`: PostgreSQL answers every statement that no lock holds up.
  Rollbacks, faults and restarts are not fair. That no caller waits for ever is
  `EveryRunEnds`.

Deadlock is checked where loops run for ever (the queue, `ImmediateRunner` with
its explicit `Finished`, `RateLimit`, where a request is always possible). It
is switched off in `accounts`, `db_model`, `metrics`, `pipeline`, `migrations_*` (each call
is made once and then everything has been answered) and `config_watcher` (where
files that do not parse are left alone, nothing happens any more).

## The proofs

`tlapm` proves the following from the named assumptions of the modules alone
(types of the constants, disjoint kinds of actors), for any number of clients,
processes, actors, faults, crashes, retries and any window. Some theorems about
the queue and the migrations assume something of the deployment in addition, as
an `ASSUME` of the theorem that is explained below.

**TaskQueueProofs** is laid out in parts, each on top of those before it.

*Types, backoff, stats* · `TypeCorrect`, `BackoffCorrect`, `StatsAtomicCorrect`.
`TypeInv` adds to `TypeOK` that an actor about to use a job has one and that the
sorted set is finite (the poller sorts its members). In particular `retry_count`
never passes `max_retries`. For the backoff, "available jobs have waited" is not
inductive, as a job becomes available by a ZRANGEBYSCORE much earlier than its
LPUSH. `BackoffInv` says it of each place a job passes through: in the list the
wait is over (`PendingInv`); in the sorted set the score is no earlier than the
end of the wait (`DelayedInv`); in an actor's hand (`HeldInv`), depending on where
it is: fresh, with the score to be written, due at the poller's old clock reading,
or waited. One lemma per action; two frame lemmas carry the others over.
`StatsAtomicCorrect` assumes one process, as `queue_live` has: two processes
hold two mutexes, and the counts of one may change under the other. `StatsOf`
says that whoever is past the first command holds the mutex and that what it has
read is still so; nobody else's command can run meanwhile.

*Accounts* · `NoDuplicationCorrect`, `ConservedCorrect`, for any number of delayed
task processors in any number of processes. `Books(t)` is the account both
properties are read from: copies, successes and merges never exceed what was
issued of `t`, and equal it while there was no `Trouble`, together with the
finiteness of what is in hand. `Fair(t)` says what a step does to it, one lemma
per action. A step moves one job from one place to the next, so one count falls
and another rises by the same number, provided that a job is where the step takes
it from: `Tidy` says that an actor at rest has nothing in hand, clients and
workers at most one job, a poller a batch without repetitions which includes what
it has yet to ZREM. Whether that is still in the sorted set is not known, since
another poller may have been there: then the ZREM puts one job more in hand
(`CountRemoved`) and is counted as doubled, and the account stays exact. `Calm` says
that connections break only with trouble, so a command without an answer is
trouble (`Unanswered`). `Takes`, `Gives`, `Swaps` and `Drops` count the jobs in
hand when one actor moves, `CountAppend` and `CountTail` those of the lists, and
`CountScored` those of the sorted set when a ZADD adds a member or merges.

*Attempts* · `AttemptsBoundedCorrect`. That a task has run at
most (MaxRetries + 1) times per copy issued says nothing about what its copies may
still do, so the proof gives each copy tickets: one that has been retried r times
carries one for each run it may still have (`Tickets`). `Budget(t)` is the
invariant: the runs of `t` and the tickets of all its copies never exceed
MaxRetries + 1 per copy issued. A start turns a ticket into a run, a failure moves
the copy with what it has left, a merge of two equal payloads or a lost command
only drops tickets, and only a submission or a ZREM that doubles a member issues
new ones, for one copy (`Grants`). The other half of the
property, that a dead letter is written only after the last attempt, is `Spent`:
a job that was retried r times belongs to a task that was run at least r times,
and whoever is about to bury one has seen its last run.

*Nothing doubled* · `NothingDoubledCorrect`: while all pollers are of one process
(`PollsAlone`), every ZREM finds its member, so that the accounts above are about
submissions alone. `Removes(p)` is why: a poller that has something left to ZREM
has held the mutex of its process since the ZRANGEBYSCORE, and all of it is still
in the sorted set. Clients and workers only add members, from whatever process, and
another poller would need the same mutex; a lost reply, an error or a crash leaves
nothing to ZREM. It is an invariant of its own and not a part of `TypeInv`, as
it fails as soon as a second process polls.

*Ledger* · `LedgerImplemented` proves `Spec => ImplementsLedger`, the refinement of
`TaskLedger` step by step, under `PollsAlone` and `SubmitsOnce` (the bound
`MaxSubmits` is 1, as in `queue_live`: the ledger knows one life of a task, and a
client of the code that submits a payload again makes two tasks of it). `OnceInv`
says that a task is then in one place at most, or at one of its ends, which makes
the phase a function of that place. What only moves jobs about (`Kept`: no job
appears, and none disappears unless something went wrong) is a stutter of the
ledger or its `Mishap`; submissions, starts, successes, failures and burials map to
`Submit`, `Begin`, `Complete`, `Fail` and `Bury`, with the attempts read from
`runs`, so that the guards of `Begin` and `Bury` need `Budget` and `Spent`.

**RateLimitProofs** · `WindowBoundCorrect`, `DeniedOnlyWhenFullCorrect`,
`RetryAfterHonestCorrect`. `WindowBound` is not inductive since the vector may
have forgotten anything. `Inv`: the log is in clock order (`Ordered`), what the
vector forgot is out of the window for good (`Forgotten`), and the bound. Then
all requests of the last window are in the pruned vector (`SuffixRetained`), so
its length is the number the limit is about. The two action properties follow
from the same invariant.

**MigrationsProofs** · `TypeCorrect`, `EffectsRecordedCorrect`,
`OkMeansAppliedCorrect`, `ListIsPrefixCorrect`, `SomebodyFinishesCorrect`. A commit
adds an effect and a row, which keeps the balance only if there was no row.
`RowsUnique` says so: whoever is about to commit has inserted a version nobody has,
alone, which is what UNIQUE and the wait of `InsertRow` give. `Stamped` (a
transaction's timestamp is a row) and `FromTheStart` (the loop begins at the first
migration) complete `Inv`. `Behind` adds what a call knows: each migration the
loop has left behind has taken effect, and effects are never taken back.

The order of the rows has two halves. `InTurn`: until something is rolled back, a
row exists only if the rows of all earlier migrations do, since a call has them
behind it when it begins a transaction. `Rising`: `applied_at` grows along the
list, although it is the time a transaction *began* and rivals commit in between;
whoever has begun one has a start later than every row it has behind it.
`ListIsPrefixCorrect` assumes that no version is twice in the list
(`VersionsDistinct`): the code does not check it, but with `a, a, b` the table has
one row for `a` by its UNIQUE constraint and no listing could be a prefix.
`SomebodyFinishesCorrect` needs no such thing, only that there is a call at all
(`Runners # {}`). `Led` says that, once the table exists, there is always a leader
(`Leads`): a call in its loop with every row there is behind it, or one that has
returned Ok. A call loses the lead only when a rival commits a row ahead of it, and
then the rival leads; it fails only on a row that a rival has committed. So when all
calls have ended, the leader ended `ok`.

**AccountsProofs** · `TypeCorrect`, `RegisteredOnceCorrect`, `ClaimsTrueCorrect`,
`LoginTellsCorrect`, `ChangeTellsCorrect`, `MeTellsCorrect`. An INSERT that the
UNIQUE column lets in keeps the emails apart (`Unique`); for the answers one has
to know whose row is whose: a request inserts at most one row, under its own id
and with the email it asked for, and is over when it has (`Own`), it has no
answer before that (`Unanswered`), and a 201 means there is a row (`Promised`).
`Asked` says that requests ask for values of the model's ranges. For the tokens:
a row keeps its email and role for ever, and a request that may log in holds a
row with the email and role of the account it read. For the answers, `Honest`
says of a request at each place that whatever it has seen and will decide by
(the token's expiry, the row, the password) is among what held at some moment of
it (`held`).

**DbModelProofs** · `TypeCorrect`, `PagesExactCorrect`, `WalkMissesCorrect`,
`WalkRepeatsCorrect`, `RowWholeCorrect`, `DeleteFinalCorrect`. The walk's invariant counts `Newer(i)`,
the rows of the table that are newer than row i. A row without ties is on the
page whose offset is at most that count and whose end is beyond it; the count
falls only when a newer row is deleted and grows only when one is inserted. So
until its excuse, a row that was not shown has at least as many newer rows as
the next offset (`NoneMissed`), and one that was shown has fewer
(`NoneRepeated`). At the end, `total_pages` pages hold all rows there are
(`EnoughPages`), and `Bounded` says that no offset of a page that exists wraps,
which needs the one assumption on sizes: no more rows than u32 counts
(`RowsAssumption`). `Counted` says that the number of pages goes with the count it
was made from, so that `EnoughPages`, which is about any count and any page size,
is `PagesExact`. `Settled` (a client that made a row, or is done with one,
changes its struct no more) keeps rows whole also when `create` is called again.

**PipelineProofs** · `OnlyByTokenCorrect`, `QuotaExactCorrect`,
`EndToEndLimitCorrect`. `Sound` says what each request has been through: who is
past `AuthMiddleware`, in a handler behind it, or inside `RequireAuth` had a token
that was good when it was looked at, hence good at some moment since the request
arrived, as the clock only advances. A step of the limiter adds one to a log and
one to the requests that are past it, and no other step moves anybody past it;
this needs at most one limiter in a chain (`ChainsAssumption`: the model has one
map of clients). For the limit, `RateLimitProofs` is instantiated: every step of
`Pipeline` is one of `RateLimit` or leaves its variables alone, so the limiter's
invariant is kept here too. `Spaced` turns it into a bound on the log (the entry
after k times the limit is k windows late; stated without a division, which would
take an induction), and `Through` puts every handler's call behind the
limiter.

**MetricsProofs** · `SnapshotExplainedCorrect`, `LastMinuteCompleteCorrect`. What a
snapshot shows is compared with sums over two sets of requests that change with
every call. To compare sums, `Units` gives a request that adds n to a counter n
units of its own, and `Size` counts them: a larger set of requests has the larger
sum (`SizeGrows`), one request more adds what it is (`SizeAdd`). `TotalIsSize` shows
that the sum `TotalOf` of the model is that number. It is the one place where a
recursive definition is unfolded for every input: the library's induction theorems
take an operator, but a smallest set at which the two differ can be taken from the
well-founded order of finite subsets (`WFMin`), and differs no more after one
element is removed (`SumsAlike`).
The invariant bounds the counters like the snapshots that will load them
(`Counted`): from below by the requests that no reset can have erased (`Held`),
from above by those that none is sure to have erased (`Holdable`). When a snapshot
loads a counter, what it must count is held and what is holdable it may count
(`SumsLoad`); afterwards it must count fewer and may count more. `StoreZero` erases
what the reset has seen, hence all that was held. `BaseInv` says who has begun, who is
still at its counters, and what each observer knows about who came first. For the
list, `Kept`: a recorded entry is still there, or a minute old, or gone by a
reset that has seen it. Entries are pruned by the clock their request read before it
had the lock, which is never ahead of the clock.

**ConfigWatcherProofs** · `OnlyGoodConfigsCorrect`. A config is good at each place
it passes: a half-finished load (`LoadGood`), the local variable of `update`
(`NewGood`), the watcher and the channels; and a file that parses now is among the
contents that ever did (`FilesGood`).

Only model-checked: everything that needs fairness (`EveryTaskSettles`,
`LockGranted`, `EveryCallEnds`, `EventuallyCurrent`, `EveryRunEnds`), which is out of
this prover's reach; the invariant of `ImmediateRunner`, whose callers do not
interact, so that the small instance has every behaviour of one of them;
`ListIsPrefix`, `ImplementsLedger` and `StatsAtomic` beyond the assumptions of their theorems.

`list_applied` is modelled by what its ORDER BY gives (any sequence of the rows in
which the times do not fall) and not with a sorting operator, since the provers
cannot look into one.

## Findings

1. `tasks.rs:289`: with the feature `redis` and no server, `schedule` returns
   `Ok` and drops the task, where `TaskRunner::new` has announced "Tasks will run
   immediately" (`tasks.rs:45`). Run `immediate_noserver`.
2. `database.rs:200`: `rollback_last` deletes the row and reports "Migration
   rolled back" while the migration's effects stay; the next `run` executes its
   SQL again. Run `migrations_rollback`.

Also met, and stated by no line that a run could contradict: `execute_task_json`
answers `Ok` for a task of an unknown type, without a type or with a payload that
does not deserialise, and dispatches no task type of an application's own; claims lost behind
`AuthMiddleware` and unreachable preflight answers (see Pipeline); pollers of two
processes duplicate tasks (`doubled`); `redis` is used as a feature and not declared in `Cargo.toml`;
`TimeoutMiddleware` and `SecurityHeadersMiddleware` do nothing; registering the
email of a deactivated account answers 500; requests older than a minute are
counted by `get_metrics` when nobody records; `auth.token_expiry` is read by
nothing, tokens last 86 400 seconds (`auth.rs:307`); `create_model!`'s `update`
pushes a reference to a temporary, so that expanding it would not compile;
`test_builder_pattern` (`lib.rs:399`) expects host 127.0.0.1 where the default is
0.0.0.0; page 0 underflows the u32 of `paginate` and `Pagination::offset`.

## What is not modelled

- Signing, hashing, validation rules and email syntax: libraries and pure
  functions; a token is signed or not, a password equal or not.
- `QueryBuilder`: text that nothing here executes. `create_model!`: nothing
  expands it (see above). `find_all`: one SELECT.
- `Request`, `Response`, `ResponseBuilder`: data without state that outlives the
  request. CORS headers of answers are left out too. Of the health endpoint only
  `get_queue_stats` is modelled.
- `Config`'s environment variables and defaults, `Lime`, `LimeBuilder`, `main`:
  straight-line assembly.
- Memory: the limiter's map and the watcher's senders only grow.
- Overflow of the metrics' u64 and of the scores.

## Plan

Done, in this order, the most important first: `TaskQueue` with `TaskLedger`,
`ImmediateRunner`, `RateLimit`, `ConfigWatcher`, `Migrations`, `Accounts`,
`Pipeline`, `Metrics`, the tokens and profiles of `Accounts`, `DbModel`, the two
files of `ConfigWatcher`; the proofs above.

Left: a proof of the invariant of `ImmediateRunner`, which TLC checks.

## How to run

```
tlc -workers 2 -config TaskQueue_shared.cfg MCTaskQueue.tla
tlapm TaskQueueProofs.tla
```

Each `.cfg` is named after the module it instantiates and goes with that
module's `MC` module. The longest runs take two to three minutes on two cores, the
longest proof module (`TaskQueueProofs`) about ten minutes, the others one or two.
