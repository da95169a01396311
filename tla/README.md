# A TLA+ model of pg-analytics-service

pg-analytics-service answers report queries from precomputed snapshots in
PostgreSQL, caches the answers in Redis, and rebuilds snapshots on request with
worker goroutines inside the API process. This directory models its concurrent
core, its paged lists and its startup, checks them with TLC on small instances and
proves with TLAPS, for every instance, every safety property those runs check.

## The system

| Part | Source | State | Operations |
|---|---|---|---|
| Recompute trigger | `internal/application/recompute_service.go` `Trigger` | the goroutine of a request | validate, look the report up, lock the scope, create the run, audit, enqueue or refuse |
| Queue and workers | same file, `worker`, `processJob`; `cmd/api/main.go` | bounded channel, worker goroutines, their contexts | dequeue, mark running, rebuild, mark failed or completed, bump, audit, release; shutdown |
| Scope lock | `internal/infrastructure/redis/store.go` | `recompute:lock:...` keys: token and TTL | SETNX, compare-and-delete, expiry |
| Run rows and audit trail | `internal/infrastructure/postgres/store.go` | `recompute_runs`, `audit_entries` | `CreateRun`, `MarkRun*`, `CreateEntry` |
| Snapshot rebuild | same file, `RecomputeReport` | `metric_snapshots`, `analytics_events` | one transaction: DELETE, INSERT ... SELECT, COMMIT |
| Report cache | `internal/application/report_service.go`, redis store | `report:version:{slug}`, cache entries | `RunReport`: version, lookup, query, version, fill; bump by the worker |
| Report queries | postgres store | none | sum the snapshots of a range |
| Paged lists | `internal/http/handlers.go`, `audit_service.go`, `report_service.go`, postgres store | `report_definitions`, `audit_entries` | parse, clamp, COUNT, SELECT |
| Startup | `cmd/api`, `cmd/migrate`, `cmd/seed`, `migrator.go`, `seed.go` | `schema_migrations`, the schema, the demo rows | apply files in order; reset, count, insert, rebuild six scopes; serve |
| Rest of the HTTP layer, configuration, health service | `internal/http`, `internal/infrastructure/config`, `internal/application` | none | parse, authenticate, answer |

How they meet: a request goroutine and a worker share the channel, the lock key
and the run row of a job. Workers share the snapshot table, where ranges overlap
although lock keys differ. Readers and workers share the snapshots, the version
key and the cache entries. Readers of the audit trail page through rows that
handlers and workers go on inserting. Processes share PostgreSQL and Redis and
nothing else: the queue dies with its process, and processes that start together
meet only in the tables they migrate and seed.

What is hard: every call to Redis or PostgreSQL may fail, may succeed and lose
its answer, or may meet a context that ended (client gone, 30 s per request, two
minutes per job, SIGTERM); the lock has a TTL that nobody renews; the process may
die between any two calls; several error paths only log; the rebuild runs at READ
COMMITTED; the cache is filled in five separate calls; a page of a list is two
statements and a walk is many; migrations are checked outside the transaction that
applies them, and seeding is some twenty statements with no transaction around
them.

What makes each part correct:

- *trigger, queue, workers*: every accepted job has exactly one carrier, refused
  requests leave nothing behind that could run, what is recorded of a run is true
  of its transaction, accepted jobs end;
- *lock*: it excludes a second job of the scope until its TTL, only its owner or
  the TTL frees it, no scope stays locked for ever;
- *run rows*: statuses only move forward, terminal ones are final (a run that a full
  queue refuses goes from `pending` to `failed`, a step the state diagrams of `README.md`
  and `docs/domain-model.md` do not show; any run may be left `pending` or `running`);
- *rebuild*: no event is counted twice, the last committed rebuild of a bucket is
  what the bucket holds, waits end;
- *cache*: answers are of the right query, and as new as the last bump unless a
  named race happened;
- *startup*: each migration takes effect once and in order, the snapshots of the demo
  events are complete unless their seeder was cut short, what its runs call completed is
  true even then, and of several processes that race at least one gets through;
- *paged lists*: a walk returns every row, unless a named race happened.

## Modules

| Module | Models |
|---|---|
| `RunLifecycle` | abstract specification: what a client may rely on about a run row |
| `RecomputeService` | trigger, queue, workers, lock, run rows, audit trail, process |
| `RecomputeServiceProofs` | theorems about `RecomputeService`, including that it implements `RunLifecycle` |
| `RecomputeOutcomeProofs` | two more, about executions in which no call fails but contexts end, locks lapse and processes die |
| `ReportCache` | `RunReport`, the versioned cache, and the worker as readers see it |
| `SnapshotStore` | the rebuild transaction row by row |
| `Startup` | migrations and seeding by several processes, up to serving |
| `Listing` | the paged lists, walked while entries are written |
| `ReportCacheProofs`, `SnapshotStoreProofs`, `StartupProofs`, `ListingProofs` | theorems about the module they are named after |
| `MCRecomputeService`, `MCReportCache`, `MCSnapshotStore`, `MCListing` | values of the constants for TLC |

### RecomputeService

A *job* is one `POST /api/v1/recomputations`. It stands for the request, its run
row and its lock token, all of which are made once per request. `pc[j]` is the
next call the goroutine carrying `j` will make, so each action is one call with
everything the code does until the next one. `expired[j]` says that the context
this goroutine passes on is done. `queue`, `worker`, `stopping` are the process;
`lock` is Redis; `runs`, `committed`, `audits` are PostgreSQL; `bumped` records
the version increment; `lapsed` is a history variable, the tokens that reached
their TTL.

| Action | Code |
|---|---|
| `Trigger`, `AcquireLock`, `CreateRun`, `AuditTriggered`, `Enqueue`, `MarkFull`, `Undo` | `Trigger`, from the top to its returns; `Undo` is the release before a refusal, in both places where it occurs |
| `Dequeue`, `WorkerExit` | the two branches of `worker`'s select |
| `MarkRunRunning`, `RecomputeReport`, `MarkRunFailed`, `AuditFailed`, `MarkRunCompleted`, `BumpVersion`, `AuditCompleted`, `ReleaseLock` | `processJob`; `ReleaseLock` is the release of its three ends |
| `Expire` | a request is cancelled or times out, a job's two minutes end |
| `LockExpire` | Redis removes a key at its TTL |
| `Shutdown`, `ProcessExit` | SIGTERM; `main` returns, or the process dies, and a fresh one starts |

Calls are external code, modelled from how the service uses them. `PgOutcomes`
and `RedisOutcomes` list how a call on a context may end: `ok`; `err`, without
effect, always so on a done context; `lost`, executed but reported as an error;
`late`, executed while the context ended. go-redis looks at the context only
before it sends, so it has no `late`. A lost SETNX is retried by the client; the
retry finds the request's own key, so the answer is a conflict or an error.

The constant `Faults` selects which faults may happen, so that the same module
answers questions about executions with and without failing calls.

### ReportCache

A report's snapshots are abstracted to a generation, the number of rebuilds
committed for it; a result is its generation, report and parameters. Each Redis
call of `RunReport` is a step: `GetVersion` is called for the lookup and again
for the fill, and is two calls when the key is missing (`GetVersion`,
`InitVersion`). The worker is its commit and its bump. `Flush` is a Redis that
comes back empty. A hash collision of the cache key is not modelled: equal keys
mean equal parameters. History variables: `promised`, the newest generation whose
bump returned; `floor`, its value when a request started; `overtaken`, requests
whose rows a commit replaced between their query and their fill; `reset`, reports
whose version key went back.

### SnapshotStore

One report, several rebuild transactions. Days are numbered from a Monday, a
bucket is its first day, `Bucket` is `date_trunc` in UTC. A statement sees what
was committed when it began and then takes rows one at a time, in any order:
`BeginDelete`, `DeleteRow`, `BeginInsert`, `InsertRow`, `Commit`. A DELETE waits
for an open transaction that deleted the row and skips rows gone since; an INSERT
waits for an open transaction that holds its key and fails on a committed one.
`DetectDeadlock` aborts a member of a waiting cycle; `Rollback` is any other
failure. Events arrive at any time. The three reports differ only in the
dimension they group by; `Dims` stands for it. `COUNT(*)` and `SUM(value)` are
cardinalities, of a set of events and of pairs of a row and a number up to its
value, so the module has no recursive operator and can be reasoned about.

`LastRebuildWins` says what the last run to commit over a bucket can count on. It is
not that the bucket holds only this run's rows: a concurrent run commits first, has
seen an event the last one's INSERT did not see, and its row, of a group the last run
does not write, survives, because the last run's DELETE began before that row was
committed.

### Startup

A process is started in one of `Procs` places with one of `Commands`: `cmd/api`
with its two switches, `cmd/migrate`, `cmd/seed` with or without the forced reset.
`at[p]` is the statement it will run next, `next[p]` the migration file or the
scope it is at. A statement outside a transaction is one step. A migration's
transaction is three, `ExecFile`, `RecordFile` and `CommitFile`, and is open while
its process is at the last two. A file's statements wait for another open
transaction that ran the same file. Two errors have no fault behind them: the
primary key of `schema_migrations` (or, for the table itself, the catalog's) and
the constraints of the seeder's rows; whoever meets one exits. `Die` is any
statement that fails and any process that stops, and undoes an open transaction;
the answer of a statement that is lost on its way back is the same one stage later,
except at a rebuild's COMMIT, which `RebuildError` has.

| Action | Code |
|---|---|
| `Start`, `Stop` | `main`, and the end of a serving process |
| `EnsureTable`, `CheckFile`, `ExecFile`, `RecordFile`, `CommitFile` | `Migrator.Up` |
| `Reset`, `CountEvents`, `InsertEvents` | `Seeder.Seed` up to the events |
| `CreateRun`, `Rebuild`, `RebuildFails`, `MarkRunCompleted`, `MarkRunFailed` | `seedSnapshots`, for each scope |

A scope's snapshots are the number of copies of the demo events they count; the
rebuild is one step here and row by row in `SnapshotStore`. Rows are abstracted to
what the constraints see: the events' `external_ref`s to the number of copies, the
snapshots' `run_id` to whether the run's row is still there. `batch` is a history
variable: who inserted the events that are in the table, and whether it is still
rebuilding, was cut short, or is done.

### Listing

One client makes one of the requests `Asked` and follows the pagination of each answer
until its total is reached. A page is `Count` and `Select`. `Orders` are the row orders
that `ORDER BY` allows: rows with equal keys come in any of them, chosen anew for each
page. A writer's entry gets its `created_at` when its INSERT begins and is seen when it
commits. `AuditPagination` and `ReportPagination` are what the two services answer with;
they differ because `ListReportDefinitions` clamps its own copy of the filter. `Proper`
names the requests for which that makes no difference. `DefaultLimit` and `LimitCap` are
20 and 100 in the code. A client that gets an error asks for the page again; one that
gets nowhere gives up after `MaxPages`. That happens to a client of the catalog that
asks for a limit below 1: the store returns a page of 20, the answer repeats the limit
asked for, and going on by that limit asks for the same page, or one before it, for
ever. `WalkEnds` states both sides, by `Advances`: no other request gets stuck, and this
one does. No document says what the answer to such a limit is (`docs/api-overview.md:21`
and `:68` give the default and the maximum), so the run that shows it is a passing one.
`FromTop` names the requests for the first page: only a walk that begins there can have
returned every row.

## Runs

| Run | Instance | Shows |
|---|---|---|
| `recompute_faults` | two requests of one scope, one invalid; one worker, queue of one; all faults | `TypeOK`, `SingleOwner`, `LockHeld`, `ScopeMutex`, `StageMatchesRows`, `OutcomeTruthful`, `OnlyAcceptedRun`, `LockHandOver`, and that the service implements `RunLifecycle` |
| `recompute_live` | two requests of one scope, two workers, queue of one; contexts end, locks lapse, processes die; with fairness | `SingleOwner`, `LockReleased`, `CleanOutcome`, `JobDrains`, `QueuedFinishes`, `LockFreed` |
| `cache_faults` | two readers of one page, one of another page, one of an uncached report; one rebuild; Redis and PostgreSQL err, Redis is lost | `TypeOK`, `RightRows`, `StaleNeedsRace` |
| `startup` | three starts in two places; every command, releases of two and of three files; two scopes; one fault | `TypeOK`, `MigratedInOrder`, `ReadyMeansMigrated`, `SeededScopes`, `CompletedRunsTrue`, `NoRunLeftRunning`, `StartEnds`, `SomeoneWins` |
| `listing` | ten requests, one of them from the second row on; three reports, up to three entries by two writers at three moments; one page fails | `TypeOK`, `MissedNeedsRace`, `QuietWalkIsExact`, `NoShortPage`, `WalkEnds` |
| `snapshot_races` | two day rebuilds that overlap across a week's end, one week rebuild; two values of the dimension; the day both rebuild is empty until one late event; empty or seeded table | `TypeOK`, `NeverOvercounts`, `LastRebuildWins`, `RebuildEnds` |

Some of these properties name the exceptions the code leaves. `SeededScopes` excludes
a batch whose seeder was cut short: the next start finds events, skips seeding and
serves with scopes that have no snapshots; of such a batch `CompletedRunsTrue` still
says that what its run rows call completed is true. `SomeoneWins` says no more than its name:
a process that loses a race exits with an error although the work it wanted is done,
and only a restart makes it serve. `LastRebuildWins` leaves the concurrent run that
saw more, described above. `MissedNeedsRace` has three: equal keys, an entry
that arrives between the last page's COUNT and SELECT, and, through `Proper`, a
catalog limit out of range; through `FromTop` it speaks only of walks that begin at
the first page. `QuietWalkIsExact` lets rows that tie be missed or come twice, and no others.
`LockReleased` and `CleanOutcome` are about executions in which no call fails;
`LockReleased` excepts jobs whose context ended or whose process died, whose keys
`LockFreed` shows to go by their TTL.

Six more runs are expected to fail: each states what a document says and shows
that the code does otherwise.

| Run | Document | Code |
|---|---|---|
| `recompute_duplicate` | `docs/api-overview.md:137`: 409 while the scope is in progress | the lock's TTL starts at the trigger and is not renewed; once it lapses with its job not finished, a second job is accepted |
| `recompute_failure_lost` | `docs/architecture.md:73`: a failure is stored on the run and written to the audit trail | both are written through the job's own context; when that is over, neither is, and the run stays `running` |
| `recompute_finalization` | `docs/domain-model.md:64`: `failed` when the rebuild or the finalization failed | a failing `MarkRunCompleted` is only logged: the run is bumped and audited as completed, and its row stays `running` |
| `cache_stale_fill` | `README.md:145`: a bump retires old generations | the fill reads the version after the query and can store old rows under the new version |
| `cache_version_back` | `README.md:145` | initialising the version with GET and SET overwrites increments in between |
| `snapshot_neighbours` | `docs/domain-model.md:70`: only the affected buckets | the DELETE takes one bucket more than the INSERT rebuilds |

### Bounds, and why they are enough

Two jobs of one scope are what the lock is about; a third party only matters for the
queue, and two overflow it too at `QueueSize = 1`: the lock of the queued job lapses,
and the other is refused. `recompute_live` has two workers, which may both wait for the
one channel and process one job each. One invalid request takes the early returns. The
safety properties of every module are proved for every instance, so the bounds matter
for liveness, for the runs that are expected to fail, and for showing that the
interesting cases happen at all. In `ReportCache` the races need one filler, one later
reader and one rebuild (two for the version to go back above 1, used in
`cache_version_back`); `MaxIncrements` bounds the increments of one bump by one retry.
In `SnapshotStore` a wait cycle needs two transactions over two common rows; days 5 to 7
(Saturday to Monday) cross a week; `MaxIngest = 1` lets one event, of either dimension
value, arrive on any day and at any point. In `Startup` a race needs two processes, and
the third start is the restart that finds what they left; two files are those of the
repository, the third a later release's; two scopes stand for six, since a scope has
neighbours only before and after it; `MaxFaults = 1`. In `Listing` three rows are a full
page and a short one at `LimitCap = 2`; two writers let an entry overtake one with an
earlier timestamp; three moments let three entries have distinct ones or equal ones.
`MayWrite` has entries written only beside a walk that reads them. Symmetry is declared
on jobs and readers with equal requests, only in runs without temporal properties other
than safety.

### Fairness

`recompute_live` assumes weak fairness of each request goroutine once it is past its
first step, of each job's worker step, of each worker's receive from a non-empty
channel, and of the expiry of a key nobody will release. The Go scheduler runs ready
goroutines and every call returns because it has a context; Redis expires keys set with
a TTL. Nothing forces a client to call, a context to end, a process to stop or a lock in
use to lapse. `snapshot_races` assumes that a transaction that can go on does, and that
PostgreSQL's deadlock detector runs. `startup` assumes that a process whose next
statement is not waiting runs it; nothing forces one to start, stop or fail. `listing`
assumes that a request is answered and that the client goes on asking; nothing forces a
writer.

## Proofs

Six modules of proofs. Every invariant and every action property that a passing run
checks is a theorem for all values of the constants: any sets of jobs, workers,
readers, rebuilds, processes and writers, any requests, queue sizes, events, catalogs
and releases, any set of faults and any bound on their number. Bounds on counters
stay in the guards, but as parameters.

| Module | Theorems |
|---|---|
| `RecomputeServiceProofs` | `TypeCorrect`, `SingleOwnerCorrect`, `LockHeldCorrect`, `ScopeMutexCorrect`, `LockHandOverCorrect` (an action property), `StageMatchesRowsCorrect`, `OutcomeTruthfulCorrect`, `OnlyAcceptedRunCorrect`, `LifecycleRefinement` |
| `RecomputeOutcomeProofs` | `LockReleasedCorrect`, `CleanOutcomeCorrect` |
| `ReportCacheProofs` | `CacheTypes`, `RightRowsCorrect`, `StaleNeedsRaceCorrect` |
| `SnapshotStoreProofs` | `SnapshotTypes`, `NeverOvercountsCorrect`, `LastRebuildWinsCorrect` |
| `StartupProofs` | `StartupTypes`, `MigratedInOrderCorrect`, `ReadyMeansMigratedCorrect`, `SeededScopesCorrect`, `CompletedRunsTrueCorrect`, `NoRunLeftRunningCorrect` |
| `ListingProofs` | `ListingTypes`, `NoShortPageCorrect`, `MissedNeedsRaceCorrect`, `QuietWalkIsExactCorrect` |

`XCorrect` states `Spec => []X`, with the property `X` of the module.

The assumptions are the `ASSUME`s of the models, which TLC evaluates on every run:
requests have their fields and dates are numbers; what `config.Load` enforces of
sizes and TTLs; faults are of the kinds there are; the null values are neither jobs
nor runs; the default limit is at least 1 and at most the cap, as 20 and 100 are; bounds
are natural numbers; the catalog and the set of rebuilds are finite. Nothing else is
assumed, and no theorem has a hypothesis of its own.

**RecomputeService.** `TypeOK` and `SingleOwner` are inductive. `SingleOwner` tells a
proof that the job a worker takes is at stage `queued`, so that a dequeue cannot
pull a job out of another stage. `ScopeMutex` is not inductive: nothing in it says
who holds the key. `LockHeld` is the strengthening: whoever is in progress and did
not lapse owns the key of its scope, hence two such jobs of one scope are the same
job. `OutcomeTruthful`, `OnlyAcceptedRun` and the refinement rest on
`StageMatchesRows`, which ties each stage to what its predecessors wrote; with it
every action is one step of `RunLifecycle` or leaves its variables alone. It in
turn needs `SingleOwner` for the dequeue. Each step lemma splits into the call
made for job `j` (its own rows change, as `CallKeeps...` shows; those of other
jobs do not, `OthersKept`) and the steps of the environment, which write no rows.

`LockReleased` and `CleanOutcome` speak of executions in which no call fails
(`CallsWork`): Redis then answers every call on a context that lasts (`RedisAnswers`),
and a call after which the context still lasts was answered (`CallAnswered`). Contexts
end and processes die all the same. `KeysInUse` turns `LockHeld` around: a held key is
the key of its token's job, and that job may hold it (`MayHold`: it is in progress, its
context ended under it, or its process died). For `CleanOutcome`, `OnTheWay` says what
each stage leaves behind (`Answered`) of a job whose context lasts, up to `release`, where
the job already has one of its two ends. A job that a crash cuts short is not over.

**ReportCache.** The version of a report never exceeds the increments of the bumps
that returned, plus the initial 1 (`VersionInv`), which keeps every key a request was
given within the cache's keys. `RightRows` needs `KeyedRows`: what is stored under a
key is of the key's report and parameters, also after versions were reused.
`StaleNeedsRace` needs to know why a fill that is not overtaken is harmless
(`FreshInv`): a request that holds rows not yet stored holds the newest ones or is
marked overtaken; nobody holds a key, and nothing is stored, under a version still to
come; and the entry under the current version is as new as what was promised. A bump
moves the version to one with no entry, which is where the last two are used.

**SnapshotStore.** `SnapshotInv` has six parts. `Growth`: events are only added, so
what an INSERT saw is still there. `Holdings`: what a transaction deletes is in its
range, what it inserts are the groups of what it saw. `RowSource`: a committed row is
the seeder's or one its run made. `Keys`: no two rows of one key, in the table or
about to be there; this is what the waits of an INSERT and its unique-violation error
are for. `History` and `Kept`: the last run that committed over a bucket still has
its row of each group in the table, since another run that deleted it would have
committed later. `NeverOvercounts` follows from `Growth`, `RowSource` and `Keys` by an
injection from what the rows count into the events of the buckets read; `RowCounts`
gives each row its part of it. `LastRebuildWins` follows from `Kept` and `Keys`.

**Startup.** `MigratedInOrder` alone does not say which file an open transaction is at.
`MigrationInv` adds that a process has all the files before its own (`Progress`) and
that two open transactions never run the same file (`OneOpen`), which is what the wait
in `ExecFile` gives. `SeedInv` adds to `SeededScopes` whose batch it is: starts are of
one process each, and the start that inserted the events is still at their scopes, went
on to serve, or is gone (`Owner`). `CompletedRunsTrue` needs in addition that a start
has no rows before it is at its scopes (`RowsOfStarts`), so that whoever becomes the
inserter has none, and takes from `SeedInv` that an inserter at `complete` has its
scope's snapshots. `NoRunLeftRunning` is inductive with the types.

**Listing.** A row's rank is the number of rows that sort before it; `Standing` shows
that in every order PostgreSQL may choose, a row without a tie stands at its rank.
Ranks only grow, since rows are only added (`Grows`). `Reach` is the invariant of the
walk: a row of the beginning has been returned, ties, or still lies at or beyond the
offset asked for next; after the last page, that is beyond what was counted, so rows
arrived. `Counted` (what was counted is still there) gives `NoShortPage`. For the
quiet walk, a row has a last place as well (`Upto`, the rows that do not come after it),
and stands between its rank and that place in every order (`Between`). `Ranked` says
that each page holds rows at places they may have, and that pages do not overlap. Two
rows at different places are then not against the order, and a row at two places ties
(`PlacesSort`).

Only model-checked, because they are temporal properties under fairness, which is
outside what the prover handles: `JobDrains`, `QueuedFinishes`, `LockFreed`,
`RebuildEnds`, `StartEnds`, `SomeoneWins`, `WalkEnds`. What the documents say and the
code does not do is refuted by TLC.

## Not modelled

Dates, JSON bodies and formatting at the HTTP boundary, the API key check, health
checks and the reading of the environment keep no state. That a run refused by a
full queue leaves no entry in the audit trail (`MarkFull`, against
`docs/architecture.md:73`) needs no model to be seen and has no run. The forced
reset of `cmd/seed` is in `Startup`, not in the modules of a serving process: under
it, entries and runs disappear while they are read. Locks that a migration takes on
tables it only finds present delay seeders and are left out. Time is not measured: a
TTL or a timeout may end at any moment it is allowed to, which includes every real
schedule. The session time zone of PostgreSQL is taken to be UTC.

## Plan

1. *Done*: `RunLifecycle`, `RecomputeService`, `ReportCache`, `SnapshotStore`,
   `Startup`, `Listing` and their runs.
2. *Done*: a theorem for every safety property that a passing run checks.
3. An abstract specification of the cache (a reader gets some committed generation
   of its own report) and of the rebuild (a bucket is replaced in one step), and
   proofs that the detailed modules implement them.
4. Pure functions: `parseDateRangeWithValues` and the range of a week report against
   reference definitions.
